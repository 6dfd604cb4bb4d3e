SPECIFICATION LockSpec
CONSTANTS
  p = p
  q = q
  r = r
  None = None
  Process <- Three
  Ttl = 1
  MaxAge = 2
  MaxCrash = 1
PROPERTY OnlyStaleTaken
