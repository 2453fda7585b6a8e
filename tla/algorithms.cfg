SPECIFICATION AlgorithmsSpec
CONSTANTS
  Keys = {k1, k2, k3}
  EmptyKey = ""
  None = None
  MaxClock = 4
  MaxFreq = 3
  MaxTTL = 2
  Base = 2
  Names <- MCNames
  Arguments <- MCArguments
  MaxArgs = 3
  MaxCommands = 2
  Texts <- MCTexts
  Numbers <- MCNumbers
  MaxItems = 2
  MaxValues = 2
INVARIANTS
  RanksOrderAccess VictimsAreLoopResults
  RoundTrip CutIsNoticed MarshalledIsRead CutKeepsStep
CHECK_DEADLOCK FALSE
