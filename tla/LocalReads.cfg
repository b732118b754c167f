SPECIFICATION LocalReadsSpec
CONSTANTS
  Chunk = 2
  Lengths = {0, 2, 5}
  MaxVersion = 2
  Rows = {r1, r2, r3, r4}
  PageLimits = {1, 2}
  MaxWrites = 3
INVARIANTS
  CatalogTypeOK
  OneText
  MissedOnlyForTheFallen
CHECK_DEADLOCK FALSE
