SPECIFICATION RuntimeSpec
CONSTANTS
  a = a
  b = b
  g = g
  h = h
  k = k
  c = c
  d = d
  None = None
  Sid <- TwoSid
  Gen <- TwoGen
  Key <- MCKey
  Call <- OneCall
  Outcomes <- GoodOrDenied
  Inventories <- MCInventories
  Semantics = "strict"
  Contribution = "auto"
  Explicit <- NoKey
  Previous <- NoKey
  Whitelist <- MCKey
  MaxEpoch = 2
  MaxJobs = 1
  MaxNow = 1
  MaxRestarts = 1
  Grace = 1
  Fresh = 1
  HardStale = 2
SYMMETRY Symmetry
INVARIANTS
  RuntimeTypeOK
  FetchMatchesToken
  ShownWasPublished
  DiskWasPublished
PROPERTY TombstoneOutlivesCrash
CHECK_DEADLOCK FALSE
