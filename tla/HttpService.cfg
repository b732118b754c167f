SPECIFICATION HttpServiceSpec
CONSTANTS
  ReadSize = 3
  HeaderLimit = 9
  BodyLimit = 3
  HeadLengths = {3, 5}
  BodyLengths = {0, 2, 4}
  Projects = {p1}
  HttpCalls = {h1, h2}
  ShellCalls = {s1}
  Nobody = Nobody
  MaxServers = 2
INVARIANTS
  RefusedOnlyIfIncomplete
  OnlyWholeRequestsPerform
  AnswersNameTheProject
  TakesOverNoWorkInProgress
  CreatedByItsCall
PROPERTIES
  EveryConnectionEnds
  EveryDirectoryCallEnds
CHECK_DEADLOCK FALSE
