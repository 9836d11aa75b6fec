SPECIFICATION FairSpec
CONSTANTS
  Environments <- SomeEnvironments
  Overrides <- SomeOverrides
  Lines <- SomeLines
  Calls <- SomeCalls
  MaxLines = 3
  LongestTimeout = 100
INVARIANTS
  TypeOK
  ContextIsTheNewestThatFits
  StaysWithinLimits
  MemoryIsTheEndOfTheScreen
  OnlyWholeRepliesAreAnswers
PROPERTY
  EveryLineIsAnswered
CHECK_DEADLOCK FALSE
