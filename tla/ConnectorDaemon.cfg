SPECIFICATION RunningSpec
CONSTANTS
  Commands = {c1, c2}
  Stops = {k1}
  None = None
  Invalid = Invalid
  MaxPid = 3
INVARIANTS
  TokenAgrees
  PidFileNamesHolder
PROPERTY EverythingSettles
CHECK_DEADLOCK FALSE
