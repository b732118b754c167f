SPECIFICATION Spec
CONSTANTS
  Retained = 2
  QueueBound = 2
  MaxPage = 2
  MaxStreams = 2
  MaxEvents = 4
CONSTRAINT PollOrPublish
INVARIANTS
  LossIsReported
  GapsAreReal
  DeliveredInOrder
CHECK_DEADLOCK FALSE
