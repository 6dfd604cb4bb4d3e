SPECIFICATION ConfigHookSpec
CONSTANTS
  p = p
  q = q
  m = m
  n = n
  x = x
  y = y
  u = u
  v = v
  r = r
  s = s
  t = t
  f = f
  g = g
  None = None
  Unset = Unset
  Provider <- TwoProvider
  Cached <- MCCached
  WithInfo <- MCWithInfo
  Model <- TwoModel
  Config <- MCConfig
  Url <- MCUrl
  Fingerprint <- MCFingerprint
  Reasoning <- MCReasoning
  FingerprintOf <- MCFingerprintOf
  Authored <- MCAuthored
  Answers <- MCAnswers
  Settings <- MCSettings
  Overridable <- MCOverridable
  MaxCalls = 2
INVARIANTS
  ConfigHookTypeOK
  AuthoredKept
  ShownIsFound
  VariantsCurrent
  FactsFromOwnEndpoint
PROPERTIES
  UntouchedAfterReturn
  HookEnds
CHECK_DEADLOCK FALSE
