SPECIFICATION Spec
CONSTANTS
  a = a
  b = b
  g = g
  h = h
  k = k
  None = None
  Sid <- MCSid
  Gen <- MCGen
  Key <- MCKey
  Semantics = "strict"
  Contribution = "auto"
  Explicit <- NoKey
  Previous <- MCKey
  Whitelist <- MCKey
  MaxEpoch = 3
  MaxJobs = 2
SYMMETRY Symmetry
INVARIANTS
  TypeOK
  EpochFence
  OneLiveToken
  AppliedOnce
  ShownIsOwned
  IdleCanRefresh
PROPERTIES
  NonCompleteKeepsShow
  DisposedIsFinal
  ImplementsGate
CHECK_DEADLOCK FALSE
