SPECIFICATION Spec
CHECK_DEADLOCK FALSE
CONSTANTS
  None = None
  Loopback <- MCLoopback
  MaxBytes = 1
  MaxRedirects = 2
  Homes <- MCHomes
  Targets <- MCTargets
  Catalogues <- MCCatalogues
  Grants <- MCGrants
  Deployed <- MCDeployed
  PageLimit = 2
  MaxPages = 2
  MaxModels = 4
INVARIANTS
  InventoryTypeOK
  CompleteIsWhole
  TombstoneNeedsRejection
  CredentialStaysHome
PROPERTY
  FetchSettles
