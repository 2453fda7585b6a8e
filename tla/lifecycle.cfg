SPECIFICATION Spec
CONSTANTS
  None = None
  Error = Error
  Ended = Ended
  Torn = Torn
  Unopenable = {"", "locked"}
  Durations = {"0s", "1s"}
  Positive = {"1s"}
  Kilo = 4
  MaxInt64 = 127
  Yamls <- MCYamls
  Envs <- MCEnvs
  Commands <- MCCommands
  Keys <- MCKeys
  Fields <- MCFields
  Texts <- MCTexts
  Padded <- MCPadded
  Clients = {c1, c2}
  MaxCalls = 2
  MaxRestarts = 1
INVARIANTS NoLateFailure LiveIsLogged BackendsAgree SnapshotIsRead
PROPERTY LogIsKept
SYMMETRY MCSymmetry
CHECK_DEADLOCK FALSE
