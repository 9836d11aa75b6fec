SPECIFICATION FairSpec
CONSTANTS
  Requests <- QueueRequests
  Configs <- QueueConfigs
  MaxTime = 2
  Micro = 1
  None = None
INVARIANTS
  TypeOK
  MotionResource
  LogTellsEachStoryOnce
  OneMotionInTheLog
  FirstInFirstStarted
  StopSettlesEverything
PROPERTIES
  NeverStartsStale
  AcceptedSettles
  ImplementsLifecycle
