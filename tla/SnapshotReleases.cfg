SPECIFICATION FairSpec
CONSTANTS
  Windows = {w1}
  MetadataCalls = {m1}
  ApprovalCalls = {}
  HistoryCalls = {h1}
  FollowerCalls = {}
  MaxBroadcasts = 1
  MaxMoves = 0
  None = None
PROPERTIES
  DisconnectReleasesReaders
  EveryReadReturns
CHECK_DEADLOCK FALSE
