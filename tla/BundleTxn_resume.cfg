CONSTANTS
  N = 2
  Hooks = {2}
  CanRollback = {1, 2}
  MaxVersion = 3
  Initial <- MCInitial
  PriorReceipts <- MCPriorReceipts
  Resolvable <- MCOneResolvable
  Clients = {c1}
  StrayScans = FALSE
  MaxTxn = 1
  MaxCrash = 1
SPECIFICATION Spec
PROPERTIES
  ResumedRollbackInstallsTarget
