SPECIFICATION Spec
CONSTANTS
  Calls = {c1, c2}
  Sessions = {s1, s2}
  QueueCap = 1
  None = None
SYMMETRY Symmetry
CONSTRAINT NoProbes
INVARIANTS
  AtMostOnce
  SingleLiveSession
  SurvivorsWereRegisteredLate
PROPERTY ImplementsWriteOutcome
CHECK_DEADLOCK FALSE
