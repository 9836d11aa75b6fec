SPECIFICATION Spec
CONSTANTS
  Requests <- IdentityRequests
  Configs <- IdentityConfigs
  MaxTime = 2
  Micro = 1
  None = None
INVARIANTS
  CompletedOnlyFromRunning
