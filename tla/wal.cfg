SPECIFICATION FairSpec
CONSTANTS
  Clients = {c1, c2}
  Commands = {a, b}
  Size <- MCSize
  a = a
  b = b
  BatchSize = 3
  PowerLoss = TRUE
  MaxWrites = 4
  MaxCrashes = 1
INVARIANTS LogIsFileThenBuffer FullBatchIsFlushed BatchCommitted
PROPERTIES ReplayRestores EventuallyOnDisk
CHECK_DEADLOCK FALSE
