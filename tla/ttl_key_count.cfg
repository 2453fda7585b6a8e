SPECIFICATION Spec
CONSTANTS
  Clients = {c1}
  Keys = {k1}
  Fields = {f1}
  Values = {v1}
  None = None
  EmptyKey = ""
  Policy = "allkeys-lru"
  MaxKeys = 1
  Ops = {"Set", "SetWithTTL"}
  TTLs = {0}
  MaxTime = 1
  MaxMeter = 3
INVARIANTS KeyCountExact
