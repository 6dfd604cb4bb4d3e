SPECIFICATION Spec
CONSTANTS
  None = None
  Key <- MCKey
  ApiId <- MCApiId
  UserWhitelist <- MCUserWhitelist
  Semantics = "strict"
  Contribution = "auto"
  Explicit <- MCExplicit
  Previous <- MCKey
  Revisions = {1, 2}
  MaxEpoch = 2
INVARIANTS
  ShownFollowsDraft
PROPERTY
  UsersEntriesSurvive
