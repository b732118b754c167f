SPECIFICATION FairSpec
CONSTANTS
  Calls = {c1, c2}
  Sessions = {s1}
  QueueCap = 2
  None = None
INVARIANTS
  DefiniteFailureNotDelivered
  NoOrphanedWait
  OneReplyPerRequest
  NoPendingLeak
PROPERTIES
  DisconnectReleasesWaiters
  EveryCallReturns
CHECK_DEADLOCK FALSE
