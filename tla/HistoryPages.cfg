SPECIFICATION PagedSpec
CONSTANTS
  Limit = 2
  OfItems = TRUE
  MaxRows = 5
  MaxGap = 1
INVARIANTS
  PagesInOrder
  OneHistory
PROPERTY EveryPaginationEnds
CHECK_DEADLOCK FALSE
