SPECIFICATION StoresSpec
CONSTANTS
  k1 = k1
  k2 = k2
  k3 = k3
  Clients = {c1, c2}
  Keys <- MCKeys
  Fields = {f1}
  Values = {v1}
  None = None
  Slots = {1, 2}
  slotOf <- MCSlotOf
  MaxSwaps = 2
  OrdKeys <- MCOrdKeys
  OrdValues = {v1, v2}
  HashKeys <- MCHashKeys
  SkipMaxLevel = 2
  BpOrder = 3
  MaxByte = 3
  Cap <- MCCap
  shardCount = 3
  shardOf <- MCShardOf
  SyncKeys = {k1}
  Maps = {m1, m2, m3}
  CRDTKeys = {k1}
  CRDTValues = {v1, v2}
  Replicas = {a, b}
  Mergers = {p1, p2}
  MaxTS = 1
  MaxRLocks = 2
  Base = 8
  BitKeys <- MCBitKeys
  BitFields <- MCBitFields
  BitValues <- MCBitValues
  Magic <- MCMagic
  OpS = 7
  OpD = 6
  OpH = 5
  MaxRecords = 3
INVARIANTS
  NoStaleSwap GetIsMapGet ScansAreSorted WriteReachesHash MergedIsPast
  RecoverIsMemory CutLosesLastOnly
PROPERTIES ImplementsMapStore CallReturns ShardsAreOneMap LastWriterWins
CHECK_DEADLOCK FALSE
