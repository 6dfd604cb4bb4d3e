SPECIFICATION LockFairSpec
CONSTANTS
  p = p
  q = q
  r = r
  None = None
  Process <- Three
  Ttl = 1
  MaxAge = 2
  MaxCrash = 2
INVARIANTS
  MutualExclusion
PROPERTIES
  NobodyElsesLock
  NeverWedged
