SPECIFICATION FairSpec
CONSTANTS
  Texts <- SomeTexts
  Failures = {"timeout"}
  TurnIds <- SomeTurnIds
  Drawn <- TheDrawn
  Skews <- SomeSkews
  TenthsPerTick = 50
  MaxTurns = 2
  MaxCalls = 3
  Configs <- SomeConfigs
  MaxTime = 1
  Micro = 1
  None = None
  SessionId = "s1"
  FreshIds <- SomeFreshIds
INVARIANTS
  TypeOK
  OneActionPerAuthorization
  AnswersStayTrue
  MotionsStartInTime
PROPERTIES
  StopsTakeEffect
  AuthorizationsSettle
