SPECIFICATION Spec
CONSTANTS
  Windows = {w1, w2}
  MetadataCalls = {}
  ApprovalCalls = {a1}
  HistoryCalls = {h1}
  FollowerCalls = {}
  MaxBroadcasts = 2
  MaxMoves = 1
  None = None
SYMMETRY Symmetry
INVARIANTS
  NoLostWakeup
  ParkedMeansNothingNew
  HistoryIsCurrent
  FreshAfterFollow
  NamedOwnerSentIt
CHECK_DEADLOCK FALSE
