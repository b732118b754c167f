SPECIFICATION Spec
CONSTANTS
  Windows = {w1, w2}
  MetadataCalls = {}
  ApprovalCalls = {a1}
  HistoryCalls = {}
  FollowerCalls = {f1}
  MaxBroadcasts = 2
  MaxMoves = 1
  None = None
INVARIANT ApprovalReachesVerifiedOwner
CHECK_DEADLOCK FALSE
