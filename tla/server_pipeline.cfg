SPECIFICATION FairSpec
CONSTANTS
  Conns = {c1}
  Kinds = {"GET"}
  Configs <- MCOpen
  ListenerFails = FALSE
  MaxCommands = 2
  MaxSent = 2
PROPERTIES SentIsAnswered
CHECK_DEADLOCK FALSE
