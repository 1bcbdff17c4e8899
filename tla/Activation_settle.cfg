CONSTANTS
  Refs <- MCRefs
  MaxContent = 0
  MaxGen = 3
  MaxCand = 2
  MaxIntent = 2
  MaxCrash = 1
  MaxForeign = 1
  UnlockedScans = TRUE
SPECIFICATION FairSpec

  
PROPERTIES
  EveryIntentSettles
  ImplementsLedger
