SPECIFICATION SecretSpec
CONSTANTS
  p = p
  q = q
  r = r
  Absent = Absent
  Empty = Empty
  Process <- Three
  MaxFailures = 2
SYMMETRY Symmetry
INVARIANT
  OneSecret
PROPERTY
  AnsweredForGood
