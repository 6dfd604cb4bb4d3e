SPECIFICATION Spec
CONSTANTS
  None = None
  Torn = Torn
  p1 = p1
  p2 = p2
  p3 = p3
  Proc = {p1, p2}
  Name <- MCName
  Docs <- MCDocs
  MaxDeletes = 50
  Cap = 2
  Identity = {"i", "j"}
  MaxTime <- MCTime
  MaxCrashes = 1
SYMMETRY Symmetry
CHECK_DEADLOCK FALSE
INVARIANTS
  LoadsAreSound
  QuarantineKeepsNewest
