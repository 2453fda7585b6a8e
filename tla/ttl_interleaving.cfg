SPECIFICATION FairSpec
CONSTANTS
  Clients = {c1, c2}
  Keys = {k1}
  Fields = {f1}
  Values = {v1}
  None = None
  EmptyKey = ""
  Policy = "allkeys-lru"
  MaxKeys = 1
  Ops = {"Set", "SetWithTTL", "HSet", "Get", "Del", "Expire", "TTL", "Close"}
  TTLs = {0}
  MaxTime = 1
  MaxMeter = 3
INVARIANTS NoUntrackedValue NoUnrecordedValue
PROPERTIES ExpiredValueRemoved
