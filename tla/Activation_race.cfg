CONSTANTS
  Refs <- MCRefs
  MaxContent = 0
  MaxGen = 2
  MaxCand = 2
  MaxIntent = 2
  MaxCrash = 1
  MaxForeign = 0
  UnlockedScans = TRUE
SPECIFICATION Spec
PROPERTIES
  BindingMovesByCommit
