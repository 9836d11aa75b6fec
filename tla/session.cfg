SPECIFICATION FairSpec
CONSTANTS
  alice = alice
  bob = bob
  Callers <- TwoCallers
  Operations <- AllOperations
  Providers <- AllProviders
  Generations <- Endings
  Interruptible <- OneThread
  MaxHistory = 3
  MaxTurns = 2
INVARIANTS
  TypeOK
  InFlightIsExclusive
  ClosedStaysCancelled
  HistoryHoldsWholeTurns
PROPERTIES
  CancellationIsNeverLost
  ReturnsByDeadline
  ImplementsTurns
