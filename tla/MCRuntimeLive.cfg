SPECIFICATION RuntimeFairSpec
CONSTANTS
  a = a
  b = b
  g = g
  h = h
  k = k
  c = c
  d = d
  None = None
  Sid <- TwoSid
  Gen <- OneGen
  Key <- MCKey
  Call <- OneCall
  Outcomes <- GoodOrFailed
  Inventories <- MCInventories
  Semantics = "strict"
  Contribution = "auto"
  Explicit <- NoKey
  Previous <- NoKey
  Whitelist <- MCKey
  MaxEpoch = 2
  MaxJobs = 2
  MaxNow = 3
  MaxRestarts = 0
  Grace = 1
  Fresh = 1
  HardStale = 2
PROPERTY JobReleased
CHECK_DEADLOCK FALSE
