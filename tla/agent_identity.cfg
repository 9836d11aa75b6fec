SPECIFICATION Spec
CONSTANTS
  Requests <- IdentityRequests
  Configs <- IdentityConfigs
  MaxTime = 2
  Micro = 3
  None = None
INVARIANTS
  KeysIdentify
  AutoCompleteIdle
  MotionTimeFits
PROPERTIES
  TerminalIsFinal
