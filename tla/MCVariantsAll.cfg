SPECIFICATION Spec
CONSTANTS
  None = None
  Drafts <- MCDrafts
  RouterObjects <- MCRouter
  Surfaces = {"chat", "unknown"}
  MaxRecords = 3
  Absent = Absent
  Questions <- MCQuestions
CHECK_DEADLOCK FALSE
INVARIANTS
  VariantsAreEarned
  ControlsAreNotGuessed
  BudgetsWithinCaps
PROPERTY
  EvidenceAccumulates
