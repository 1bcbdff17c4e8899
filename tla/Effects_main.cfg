CONSTANTS
  p1 = p1
  f = f
  g = g
  Kinds <- MCKinds
  MaxAdoption = 2
  MaxContent = 2
  MaxCrash = 1
  MaxEdit <- MCEdits
  MaxScan = 1
  MaxText = 2
SPECIFICATION EffectsSpec
CHECK_DEADLOCK FALSE
INVARIANTS
  EffectsTypeOK
  
  RollbackIsWhole
  BlockedOnlyByOthers
  CapturesAreReal
  
PROPERTIES
  CommitIsWhole
  ImplementsLedger
  EveryAdoptionSettles
  
