SPECIFICATION Spec
CONSTANTS
  Clients = {c1, c2}
  Keys = {k1, k2, k3}
  Fields = {f1}
  Values = {v1}
  None = None
  EmptyKey = ""
  Policy = "allkeys-lru"
  MaxKeys = 1
  Ops = {"Set"}
  TTLs = {}
  MaxTime = 1
  MaxMeter = 3
SYMMETRY Symmetry
INVARIANTS KeyLimit
