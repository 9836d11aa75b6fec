SPECIFICATION Spec
CONSTANTS
  Texts <- AllTexts
  Wires <- AllWires
  TurnIds <- SomeTurnIds
  SessionId = "s1"
  FreshIds <- SomeFreshIds
  MaxRequests = 1
INVARIANTS
  TypeOK
  RequestsAreLegal
  RoundTrips
  AuthorizedIsBuildable
