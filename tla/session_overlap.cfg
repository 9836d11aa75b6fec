SPECIFICATION Spec
CONSTANTS
  alice = alice
  bob = bob
  Callers <- TwoCallers
  Operations <- OnlySend
  Providers <- OnlyOllama
  Generations <- Endings
  Interruptible <- NoThreads
  MaxHistory = 2
  MaxTurns = 2
INVARIANT
  OneGenerationPerSession
