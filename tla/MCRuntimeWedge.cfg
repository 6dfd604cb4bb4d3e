SPECIFICATION RuntimeFairSpec
CONSTANTS
  a = a
  b = b
  g = g
  h = h
  k = k
  c = c
  d = d
  None = None
  Sid <- OneSid
  Gen <- TwoGen
  Key <- MCKey
  Call <- OneCall
  Outcomes <- GoodOnly
  Inventories <- MCInventories
  Semantics = "strict"
  Contribution = "auto"
  Explicit <- NoKey
  Previous <- NoKey
  Whitelist <- MCKey
  MaxEpoch = 1
  MaxJobs = 2
  MaxNow = 1
  MaxRestarts = 0
  Grace = 1
  Fresh = 1
  HardStale = 2
PROPERTY JobReleased
CHECK_DEADLOCK FALSE
