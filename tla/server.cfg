SPECIFICATION FairSpec
CONSTANTS
  Conns = {c1, c2}
  Kinds = {"SET", "GET", "AUTH"}
  Configs <- MCConfigs
  ListenerFails = TRUE
  MaxCommands = 2
  MaxSent = 2
INVARIANTS TypeOK SlotsHeld LogIsAhead RepliesInOrder
PROPERTIES ShutdownFromListening
CHECK_DEADLOCK FALSE
