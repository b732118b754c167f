SPECIFICATION FairSpec
CONSTANTS
  Windows = {w1}
  MetadataCalls = {m1}
  ApprovalCalls = {}
  HistoryCalls = {}
  FollowerCalls = {f1}
  MaxBroadcasts = 1
  MaxMoves = 0
  None = None
PROPERTY TimeoutMeansNotDelivered
CHECK_DEADLOCK FALSE
