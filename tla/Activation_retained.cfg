CONSTANTS
  Refs <- MCRefs
  MaxContent = 0
  MaxGen = 2
  MaxCand = 3
  MaxIntent = 3
  MaxCrash = 1
  MaxForeign = 0
  UnlockedScans = FALSE
SPECIFICATION Spec
PROPERTIES
  RollbackPointsAreRetained
