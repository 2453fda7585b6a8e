SPECIFICATION Spec
CONSTANTS
  Clients = {c1}
  Keys = {k1, k2, k3}
  Fields = {f1}
  Values = {v1, v2}
  None = None
  EmptyKey = ""
  Policy = "allkeys-lru"
  MaxKeys = 2
  Ops = {"Set", "HSet", "Get", "HGet", "HGetAll", "Del"}
  TTLs = {}
  MaxTime = 1
  MaxMeter = 3
SYMMETRY Symmetry
INVARIANTS KeyLimit OwnWriteSurvives KeyCountExact
