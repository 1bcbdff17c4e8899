CONSTANTS
  N = 2
  Hooks = {2}
  CanRollback = {1, 2}
  MaxVersion = 3
  Initial <- MCInitial
  PriorReceipts <- MCPriorReceipts
  Resolvable <- MCResolvable
  Clients = {c1}
  StrayScans = TRUE
  MaxTxn = 1
  MaxCrash = 2
SPECIFICATION Spec
INVARIANTS
  TypeOK
  HolderFollowsJournal
  ReceiptMatchesStatus
  
  NoActivationBeforeAllStaged
PROPERTIES
  CommitInstallsTarget
  ImplementsLedger
