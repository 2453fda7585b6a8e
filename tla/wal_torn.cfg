SPECIFICATION FairSpec
CONSTANTS
  Clients = {c1}
  Commands = {a, b}
  Size <- MCSize
  a = a
  b = b
  BatchSize = 3
  PowerLoss = FALSE
  MaxWrites = 4
  MaxCrashes = 1
PROPERTIES ReplayReturns
CHECK_DEADLOCK FALSE
