SPECIFICATION RunSpec
CONSTANTS
  Builds = {b1, b2}
  Platforms = {mac, win}
  Corrupt = Corrupt
  None = None
  Polls = 2
  MaxAttempts = 3
INVARIANTS
  SubmittedIsOneBuild
  SuccessIsVerified
  RefusalsAreReal
PROPERTY EveryRunEnds
CHECK_DEADLOCK FALSE
