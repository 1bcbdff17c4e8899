CONSTANTS
  Refs <- MCRefs
  MaxContent = 1
  MaxGen = 3
  MaxCand = 2
  MaxIntent = 2
  MaxCrash = 1
  MaxForeign = 0
  UnlockedScans = FALSE
  Lines = {"x", "y", "o"}
  Unended = {"o"}
  Under <- MCUnder
  MaxDiffCells = 16
  Families <- MCFamilies
SPECIFICATION UpdateSpec
INVARIANTS
  UpdateTypeOK
  
  
  OneActiveGeneration
  MergesAreLawful
PROPERTIES
  CommitIsExact
  ImplementsLedger
