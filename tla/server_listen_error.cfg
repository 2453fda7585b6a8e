SPECIFICATION FairSpec
CONSTANTS
  Conns = {c1}
  Kinds = {"GET"}
  Configs <- MCOpen
  ListenerFails = TRUE
  MaxCommands = 1
  MaxSent = 1
PROPERTIES StopsOnError
CHECK_DEADLOCK FALSE
