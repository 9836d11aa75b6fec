------------------------ MODULE ActionContractProofs -------------------------
(***************************************************************************)
(* Theorems about ActionContract, for every text, every wire value and     *)
(* every turn id.                                                          *)
(***************************************************************************)
EXTENDS ActionContractProperties, TLAPS

LEMMA FirstToRaise ==
  ASSUME NEW e, NEW f
  PROVE  (e ?? f) = "none" <=> e = "none" /\ f = "none"
BY DEF ??

LEMMA FiniteIsANumber ==
  ASSUME NEW v, RequireFiniteFloat(v) = "none"
  PROVE  IsNumber(v)
BY DEF RequireFiniteFloat, IsNumber, Raise, ??

LEMMA WithinIsWithin ==
  ASSUME NEW v, NEW max, RequireFiniteFloat(v) = "none", RequireWithin(v, max) = "none"
  PROVE  IsWithin(v, max)
BY FiniteIsANumber DEF RequireWithin, IsWithin, Raise

LEMMA UuidIsUuid ==
  ASSUME NEW v, RequireUuid(v) = "none"
  PROVE  IsUuid(v)
BY DEF RequireUuid, IsUuid, Raise

LEMMA CheckedFieldsAreLegal ==
  ASSUME NEW v, CheckFields(v) = "none"
  PROVE  LegalFields(List(NamesIn(v)))
<1>1. /\ ToSet(NamesIn(v)) \subseteq {Str(f) : f \in ObserveFields}
      /\ IsInjective(NamesIn(v))
  BY DEF CheckFields, Raise, ??
<1>2. List(NamesIn(v)).type = "list" /\ List(NamesIn(v)).items = NamesIn(v)
  BY DEF List
<1>. QED
  BY <1>1, <1>2 DEF LegalFields

\* What parameters_from_dict builds is legal.
LEMMA CheckedParametersAreLegal ==
  ASSUME NEW c \in Capabilities, NEW p, CheckParameters(c, p) = "none"
  PROVE  Parameters(c, p).of = c /\ LegalParameters(Parameters(c, p))
<1>1. CASE c = "observe"
  <2>1. CheckObserve(p) = "none"
    BY <1>1, FirstToRaise DEF CheckParameters
  <2>2. Parameters(c, p) = [of |-> c, fields |-> IF FieldsGiven(p)
                              THEN List(NamesIn(Field(p, "fields"))) ELSE Null]
    BY <1>1 DEF Parameters
  <2>3. FieldsGiven(p) => CheckFields(Field(p, "fields")) = "none"
    BY <2>1, FirstToRaise DEF CheckObserve
  <2>4. LegalFields(Parameters(c, p).fields)
    <3>1. CASE FieldsGiven(p)
      BY <2>2, <2>3, <3>1, CheckedFieldsAreLegal
    <3>2. CASE ~FieldsGiven(p)
      BY <2>2, <3>2 DEF LegalFields
    <3>. QED
      BY <3>1, <3>2
  <2>. QED
    BY <1>1, <2>2, <2>4 DEF LegalParameters
<1>2. CASE c = "walk"
  <2>1. CheckWalk(p) = "none"
    BY <1>2, FirstToRaise DEF CheckParameters
  <2>2. /\ RequireFiniteFloat(Field(p, "distance_m")) = "none"
        /\ RequireFiniteFloat(Field(p, "speed")) = "none"
        /\ RequireWithin(Field(p, "distance_m"), MaxDistance) = "none"
        /\ RequireWithin(Field(p, "speed"), MaxSpeed) = "none"
    BY <2>1, FirstToRaise DEF CheckWalk
  <2>3. Parameters(c, p) = [of |-> c, distance_m |-> Field(p, "distance_m"),
                            speed |-> Field(p, "speed")]
    BY <1>2 DEF Parameters
  <2>. QED
    BY <1>2, <2>2, <2>3, WithinIsWithin DEF LegalParameters
<1>3. CASE c \in {"stop", "stand"}
  BY <1>3 DEF Parameters, LegalParameters
<1>. QED
  BY <1>1, <1>2, <1>3 DEF Capabilities

\* parameters_to_dict loses nothing that parameters_from_dict has built.
Survives(c, p) ==
  /\ Parameters(c, ParametersToDict(p)) = p
  /\ CheckParameters(c, ParametersToDict(p)) = "none"

LEMMA ParametersSurvive ==
  ASSUME NEW c \in Capabilities, NEW d, CheckParameters(c, d) = "none"
  PROVE  Survives(c, Parameters(c, d))
<1>. DEFINE p == Parameters(c, d)
            e == ParametersToDict(p)
<1>1. CASE c = "observe" /\ FieldsGiven(d)
  <2>. DEFINE names == NamesIn(Field(d, "fields"))
  <2>1. p = [of |-> c, fields |-> List(names)]
    BY <1>1 DEF Parameters
  <2>2. CheckFields(Field(d, "fields")) = "none"
    BY <1>1, FirstToRaise DEF CheckParameters, CheckObserve
  <2>3. /\ ToSet(names) \subseteq {Str(f) : f \in ObserveFields}
        /\ IsInjective(names)
    BY <2>2 DEF CheckFields, Raise, ??
  <2>. HIDE DEF names
  <2>4. List(names) # Null /\ List(names).type = "list" /\ NamesIn(List(names)) = names
    BY DEF List, Null, NamesIn
  <2>5. e = Object([fields |-> List(names)])
    BY <1>1, <2>1, <2>4 DEF ParametersToDict
  <2>6. /\ e.type = "object" /\ DOMAIN e.members = {"fields"}
        /\ Field(e, "fields") = List(names) /\ FieldsGiven(e)
    BY <2>4, <2>5 DEF Object, Field, FieldsGiven, Has
  <2>7. CheckFields(List(names)) = "none"
    BY <2>3, <2>4 DEF CheckFields, Raise, ??
  <2>8. CheckObserve(e) = "none"
    BY <2>6, <2>7 DEF CheckObserve, Raise, ??
  <2>9. CheckParameters(c, e) = "none"
    BY <1>1, <2>6, <2>8 DEF CheckParameters, Raise, ??
  <2>10. Parameters(c, e) = [of |-> c, fields |-> List(names)]
    BY <1>1, <2>4, <2>6 DEF Parameters
  <2>. QED
    BY <2>1, <2>9, <2>10 DEF Survives
<1>2. CASE c = "walk"
  <2>1. p = [of |-> c, distance_m |-> Field(d, "distance_m"), speed |-> Field(d, "speed")]
    BY <1>2 DEF Parameters
  <2>2. CheckWalk(d) = "none"
    BY <1>2, FirstToRaise DEF CheckParameters
  <2>3. e = Object([distance_m |-> p.distance_m, speed |-> p.speed])
    BY <1>2, <2>1 DEF ParametersToDict
  <2>4. /\ e.type = "object" /\ DOMAIN e.members = {"distance_m", "speed"}
        /\ Field(e, "distance_m") = Field(d, "distance_m")
        /\ Field(e, "speed") = Field(d, "speed")
    BY <2>1, <2>3 DEF Object, Field
  <2>5. CheckWalk(e) = "none"
    BY <2>2, <2>4, FirstToRaise DEF CheckWalk, Raise
  <2>6. CheckParameters(c, e) = "none"
    BY <1>2, <2>4, <2>5 DEF CheckParameters, Raise, ??
  <2>7. Parameters(c, e) = p
    BY <1>2, <2>1, <2>4 DEF Parameters
  <2>. QED
    BY <2>6, <2>7 DEF Survives
<1>3. CASE c \in {"stop", "stand"} \/ (c = "observe" /\ ~FieldsGiven(d))
  <2>1. p = IF c = "observe" THEN [of |-> c, fields |-> Null] ELSE [of |-> c]
    BY <1>3 DEF Parameters
  <2>2. e = Object(NoMembers)
    BY <1>3, <2>1 DEF ParametersToDict
  <2>3. e.type = "object" /\ DOMAIN e.members = {} /\ ~FieldsGiven(e)
    BY <2>2 DEF Object, NoMembers, FieldsGiven, Has
  <2>4. CheckParameters(c, e) = "none"
    BY <1>3, <2>3 DEF CheckParameters, CheckObserve, Raise, ??
  <2>5. Parameters(c, e) = p
    BY <1>3, <2>1, <2>3 DEF Parameters
  <2>. QED
    BY <2>4, <2>5 DEF Survives
<1>. QED
  BY <1>1, <1>2, <1>3 DEF Capabilities

\* The record of an ActionRequest has these fields and no other.
RequestShape(r) ==
  r = [schema_version |-> r.schema_version, request_id |-> r.request_id,
       session_id |-> r.session_id, turn_id |-> r.turn_id,
       idempotency_key |-> r.idempotency_key, capability |-> r.capability,
       parameters |-> r.parameters, created_at |-> r.created_at,
       ttl_seconds |-> r.ttl_seconds, priority |-> r.priority]

LEMMA RequestSurvives ==
  ASSUME NEW r, RequestShape(r), r.capability \in Capabilities, r.priority \in Priorities,
         Survives(r.capability, r.parameters), CheckRequest(r) = "none"
  PROVE  RequestError(ToDict(r)) = "none" /\ RequestIn(ToDict(r)) = r
<1>. DEFINE d == ToDict(r)
<1>1. /\ d.type = "object" /\ DOMAIN d.members = RequestFields
      /\ Field(d, "schema_version") = r.schema_version
      /\ Field(d, "request_id") = r.request_id
      /\ Field(d, "session_id") = r.session_id
      /\ Field(d, "turn_id") = r.turn_id
      /\ Field(d, "idempotency_key") = r.idempotency_key
      /\ Field(d, "capability") = Str(r.capability)
      /\ Field(d, "parameters") = ParametersToDict(r.parameters)
      /\ Field(d, "created_at") = r.created_at
      /\ Field(d, "ttl_seconds") = r.ttl_seconds
      /\ Field(d, "priority") = Str(r.priority)
  BY DEF ToDict, Object, Field, RequestFields
<1>. HIDE DEF d
<1>2. \A s : Str(s).type = "string" /\ Str(s).text = s
  BY DEF Str
<1>3. RequestIn(d) = r
  BY <1>1, <1>2 DEF RequestIn, RequestShape, Survives
<1>4. /\ Raise("SchemaValidationError", d.type # "object") = "none"
      /\ Raise("UnknownFieldError", ~(DOMAIN d.members \subseteq RequestFields)) = "none"
      /\ Raise("SchemaValidationError", ~(RequestFields \subseteq DOMAIN d.members)) = "none"
  BY <1>1 DEF Raise
<1>5. /\ CoerceCapability(Field(d, "capability")) = "none"
      /\ CoercePriority(Field(d, "priority")) = "none"
  BY <1>1, <1>2 DEF CoerceCapability, CoercePriority, Raise
<1>6. CheckParameters(Field(d, "capability").text, Field(d, "parameters")) = "none"
  BY <1>1, <1>2 DEF Survives
<1>7. CheckRequest(RequestIn(d)) = "none"
  BY <1>3
<1>8. RequestError(d) = "none"
  BY <1>4, <1>5, <1>6, <1>7, FirstToRaise DEF RequestError
<1>. QED
  BY <1>3, <1>8 DEF d

\* What __post_init__ accepts is legal.
LEMMA CheckedRequestIsLegal ==
  ASSUME NEW r, r.capability \in Capabilities, LegalParameters(r.parameters),
         CheckRequest(r) = "none"
  PROVE  Legal(r)
<1>1. /\ Raise("SchemaVersionError", r.schema_version # Str(SchemaVersion)) = "none"
      /\ RequireUuid(r.request_id) = "none" /\ RequireUuid(r.session_id) = "none"
      /\ RequireUuid(r.turn_id) = "none" /\ RequireUuid(r.idempotency_key) = "none"
      /\ Raise("InvalidParametersError", r.parameters.of # r.capability) = "none"
      /\ RequireFiniteFloat(r.created_at) = "none"
      /\ RequireFiniteFloat(r.ttl_seconds) = "none"
      /\ RequireWithin(r.ttl_seconds, MaxTtl) = "none"
      /\ CheckPriority(r) = "none"
  BY FirstToRaise DEF CheckRequest
<1>2. r.priority = IF r.capability = "stop" THEN "emergency" ELSE "normal"
  BY <1>1 DEF CheckPriority, Raise
<1>3. r.priority = "emergency" <=> r.capability = "stop"
  BY <1>2
<1>. QED
  BY <1>1, <1>3, UuidIsUuid, FiniteIsANumber, WithinIsWithin DEF Legal, Raise
-----------------------------------------------------------------------------
(* The inductive invariant: what has been authorized is legal already. *)

InHand ==
  /\ proposal # Nothing => proposal.capability \in Capabilities
  /\ authorized # Nothing => /\ authorized.capability \in Capabilities
                             /\ authorized.parameters.of = authorized.capability
                             /\ LegalParameters(authorized.parameters)
                             /\ Survives(authorized.capability, authorized.parameters)
ContractInv == InHand /\ RequestsAreLegal /\ RoundTrips

LEMMA CoercedCapability ==
  ASSUME NEW v, CoerceCapability(v) = "none"
  PROVE  v.text \in Capabilities
BY DEF CoerceCapability, Raise

LEMMA ParsePreserves ==
  ASSUME ContractInv, NEW text \in Texts, ParseProposal(text)
  PROVE  ContractInv'
<1>1. proposal' # Nothing => proposal'.capability \in Capabilities
  BY CoercedCapability DEF ParseProposal, ProposalIn, IsProposal, ContractInv, InHand
<1>. QED
  BY <1>1 DEF ParseProposal, ContractInv, InHand, RequestsAreLegal, RoundTrips

LEMMA AuthorizePreserves ==
  ASSUME ContractInv, Authorize
  PROVE  ContractInv'
<1>1. proposal.capability \in Capabilities
  BY DEF Authorize, ContractInv, InHand
<1>2. CASE CheckParameters(proposal.capability, proposal.parameters) = "none"
  <2>1. authorized' = [capability |-> proposal.capability,
                       parameters |-> Parameters(proposal.capability, proposal.parameters)]
    BY <1>2 DEF Authorize
  <2>. QED
    BY <1>1, <1>2, <2>1, CheckedParametersAreLegal, ParametersSurvive
    DEF Authorize, ContractInv, InHand, RequestsAreLegal, RoundTrips
<1>3. CASE CheckParameters(proposal.capability, proposal.parameters) # "none"
  BY <1>3 DEF Authorize, ContractInv, InHand, RequestsAreLegal, RoundTrips
<1>. QED
  BY <1>2, <1>3

LEMMA BuildPreserves ==
  ASSUME ContractInv, NEW turn \in TurnIds, BuildRequest(turn)
  PROVE  ContractInv'
<1>1. PICK id \in FreshIds, key \in FreshIds :
        requests' = IF CheckRequest(Built(authorized, id, key, turn, 0)) = "none"
                      THEN requests \cup {Built(authorized, id, key, turn, 0)}
                      ELSE requests
  BY DEF BuildRequest
<1>. DEFINE r == Built(authorized, id, key, turn, 0)
<1>2. /\ r.capability \in Capabilities /\ LegalParameters(r.parameters)
      /\ Survives(r.capability, r.parameters)
  BY DEF BuildRequest, ContractInv, InHand, Built
<1>3. RequestShape(r) /\ r.priority \in Priorities
  BY DEF Built, RequestShape, DefaultPriority, Priorities
<1>. HIDE DEF r
<1>4. CheckRequest(r) = "none" =>
        Legal(r) /\ RequestError(ToDict(r)) = "none" /\ RequestIn(ToDict(r)) = r
  BY <1>2, <1>3, CheckedRequestIsLegal, RequestSurvives
<1>5. RequestsAreLegal' /\ RoundTrips'
  BY <1>1, <1>4 DEF ContractInv, RequestsAreLegal, RoundTrips, r
<1>. QED
  BY <1>5 DEF BuildRequest, ContractInv, InHand

LEMMA FromDictPreserves ==
  ASSUME ContractInv, NEW d \in Wires, RequestFromDict(d)
  PROVE  ContractInv'
<1>1. ASSUME RequestError(d) = "none"
      PROVE  /\ Legal(RequestIn(d))
             /\ RequestError(ToDict(RequestIn(d))) = "none"
             /\ RequestIn(ToDict(RequestIn(d))) = RequestIn(d)
  <2>. DEFINE c == Field(d, "capability").text
  <2>1. /\ CoerceCapability(Field(d, "capability")) = "none"
        /\ CheckParameters(c, Field(d, "parameters")) = "none"
        /\ CheckRequest(RequestIn(d)) = "none"
        /\ CoercePriority(Field(d, "priority")) = "none"
    BY <1>1, FirstToRaise DEF RequestError
  <2>2. c \in Capabilities /\ Field(d, "priority").text \in Priorities
    BY <2>1, CoercedCapability DEF CoercePriority, Raise
  <2>3. /\ RequestIn(d).capability = c
        /\ RequestIn(d).parameters = Parameters(c, Field(d, "parameters"))
        /\ RequestIn(d).priority = Field(d, "priority").text
        /\ RequestShape(RequestIn(d))
    BY DEF RequestIn, RequestShape
  <2>4. LegalParameters(RequestIn(d).parameters) /\ Survives(c, RequestIn(d).parameters)
    BY <2>1, <2>2, <2>3, CheckedParametersAreLegal, ParametersSurvive
  <2>. QED
    BY <2>1, <2>2, <2>3, <2>4, CheckedRequestIsLegal, RequestSurvives
<1>2. RequestsAreLegal' /\ RoundTrips'
  BY <1>1 DEF RequestFromDict, ContractInv, RequestsAreLegal, RoundTrips
<1>. QED
  BY <1>2 DEF RequestFromDict, ContractInv, InHand

LEMMA ContractInvariant == Spec => []ContractInv
<1>1. Init => ContractInv
  BY DEF Init, ContractInv, InHand, RequestsAreLegal, RoundTrips
<1>2. ContractInv /\ [Next]_vars => ContractInv'
  <2>. SUFFICES ASSUME ContractInv, [Next]_vars PROVE ContractInv'
    OBVIOUS
  <2>1. CASE \E text \in Texts : ParseProposal(text)
    BY <2>1, ParsePreserves
  <2>2. CASE Authorize
    BY <2>2, AuthorizePreserves
  <2>3. CASE \E turn \in TurnIds : BuildRequest(turn)
    BY <2>3, BuildPreserves
  <2>4. CASE \E d \in Wires : RequestFromDict(d)
    BY <2>4, FromDictPreserves
  <2>5. CASE UNCHANGED vars
    BY <2>5 DEF vars, ContractInv, InHand, RequestsAreLegal, RoundTrips
  <2>. QED
    BY <2>1, <2>2, <2>3, <2>4, <2>5 DEF Next
<1>. QED
  BY <1>1, <1>2, PTL DEF Spec

\* Whatever the model answers and whatever comes off the wire, every request that
\* exists has parameters within their limits, ids, a version, a lifetime and the
\* priority of its capability.
THEOREM LegalityCorrect == Spec => []RequestsAreLegal
<1>1. ContractInv => RequestsAreLegal
  BY DEF ContractInv
<1>. QED
  BY <1>1, ContractInvariant, PTL

\* No request is refused or changed by to_dict and request_from_dict.
THEOREM RoundTripCorrect == Spec => []RoundTrips
<1>1. ContractInv => RoundTrips
  BY DEF ContractInv
<1>. QED
  BY <1>1, ContractInvariant, PTL

LEMMA LegalActionBuilds ==
  ASSUME NEW a, a.capability \in Capabilities, a.parameters.of = a.capability,
         NEW turn, IsUuid(turn), NEW id \in FreshIds, NEW key \in FreshIds
  PROVE  CheckRequest(Built(a, id, key, turn, 0)) = "none"
<1>. DEFINE r == Built(a, id, key, turn, 0)
<1>1. /\ r.schema_version = Str(SchemaVersion)
      /\ r.request_id = Uuid(id) /\ r.session_id = Uuid(SessionId)
      /\ r.turn_id = turn /\ r.idempotency_key = Uuid(key)
      /\ r.capability = a.capability /\ r.parameters = a.parameters
      /\ r.created_at = Num(0) /\ r.ttl_seconds = Num(DefaultTtl)
      /\ r.priority = DefaultPriority(a.capability)
  BY DEF Built
<1>. HIDE DEF r
<1>2. /\ RequireUuid(r.request_id) = "none" /\ RequireUuid(r.session_id) = "none"
      /\ RequireUuid(r.turn_id) = "none" /\ RequireUuid(r.idempotency_key) = "none"
  BY <1>1 DEF RequireUuid, Raise, Uuid, UuidTexts, IsUuid
<1>3. /\ RequireFiniteFloat(r.created_at) = "none"
      /\ RequireFiniteFloat(r.ttl_seconds) = "none"
      /\ RequireWithin(r.ttl_seconds, MaxTtl) = "none"
  BY <1>1 DEF RequireFiniteFloat, RequireWithin, Raise, ??, Num, DefaultTtl, MaxTtl
<1>4. CheckPriority(r) = "none"
  BY <1>1 DEF CheckPriority, DefaultPriority, Raise
<1>5. /\ Raise("SchemaVersionError", r.schema_version # Str(SchemaVersion)) = "none"
      /\ Raise("InvalidParametersError", r.parameters.of # r.capability) = "none"
  BY <1>1 DEF Raise
<1>6. CheckRequest(r) = "none"
  BY <1>2, <1>3, <1>4, <1>5, FirstToRaise DEF CheckRequest
<1>. QED
  BY <1>6 DEF r

\* An authorized action never fails to become a request of a turn with a UUID.
THEOREM BuildableCorrect == Spec => []AuthorizedIsBuildable
<1>1. ContractInv => AuthorizedIsBuildable
  BY LegalActionBuilds DEF ContractInv, InHand, AuthorizedIsBuildable
<1>. QED
  BY <1>1, ContractInvariant, PTL
-----------------------------------------------------------------------------
(* Type correctness: what the calls can raise. *)

Raisable == SchemaErrors \cup PythonErrors \cup {"none"}

LEMMA FirstIsRaisable ==
  ASSUME NEW e \in Raisable, NEW f \in Raisable
  PROVE  (e ?? f) \in Raisable
BY DEF ??

LEMMA RaisableNames ==
  {"SchemaValidationError", "SchemaVersionError", "UnknownFieldError",
   "InvalidParametersError", "InvalidIdentifierError", "TypeError", "OverflowError",
   "RecursionError", "none"} \subseteq Raisable
BY DEF Raisable, SchemaErrors, PythonErrors

LEMMA ValueChecksRaise ==
  ASSUME NEW v, NEW max
  PROVE  /\ RequireUuid(v) \in Raisable
         /\ RequireFiniteFloat(v) \in Raisable
         /\ RequireWithin(v, max) \in Raisable
         /\ CheckFields(v) \in Raisable
         /\ CoerceCapability(v) \in Raisable
         /\ CoercePriority(v) \in Raisable
         /\ ParseError(v) \in Raisable
<1>1. RequireUuid(v) \in Raisable
  BY RaisableNames DEF RequireUuid, Raise
<1>2. RequireFiniteFloat(v) \in Raisable
  BY RaisableNames DEF RequireFiniteFloat, Raise, ??
<1>3. RequireWithin(v, max) \in Raisable
  BY RaisableNames DEF RequireWithin, Raise
<1>4. CheckFields(v) \in Raisable
  BY RaisableNames DEF CheckFields, Raise, ??
<1>5. CoerceCapability(v) \in Raisable /\ CoercePriority(v) \in Raisable
  BY RaisableNames DEF CoerceCapability, CoercePriority, Raise
<1>6. ParseError(v) \in Raisable
  BY RaisableNames DEF ParseError, Raise
<1>. QED
  BY <1>1, <1>2, <1>3, <1>4, <1>5, <1>6

LEMMA ParameterChecksRaise ==
  ASSUME NEW c, NEW p
  PROVE  CheckParameters(c, p) \in Raisable
<1>1. CheckObserve(p) \in Raisable
  <2>1. (IF FieldsGiven(p) THEN CheckFields(Field(p, "fields")) ELSE "none") \in Raisable
    BY ValueChecksRaise, RaisableNames
  <2>2. Raise("UnknownFieldError", ~(DOMAIN p.members \subseteq {"fields"})) \in Raisable
    BY RaisableNames DEF Raise
  <2>. QED
    BY <2>1, <2>2, FirstIsRaisable DEF CheckObserve
<1>2. CheckWalk(p) \in Raisable
  <2>. DEFINE wanted == {"distance_m", "speed"}
  <2>1. /\ Raise("UnknownFieldError", ~(DOMAIN p.members \subseteq wanted)) \in Raisable
        /\ Raise("InvalidParametersError", ~(wanted \subseteq DOMAIN p.members)) \in Raisable
    BY RaisableNames DEF Raise
  <2>. QED
    BY <2>1, ValueChecksRaise, FirstIsRaisable DEF CheckWalk
<1>3. /\ Raise("InvalidParametersError", p.type # "object") \in Raisable
      /\ Raise("UnknownFieldError", DOMAIN p.members # {}) \in Raisable
  BY RaisableNames DEF Raise
<1>. QED
  BY <1>1, <1>2, <1>3, FirstIsRaisable DEF CheckParameters

LEMMA RequestChecksRaise ==
  ASSUME NEW r
  PROVE  CheckRequest(r) \in Raisable
<1>1. /\ Raise("SchemaVersionError", r.schema_version # Str(SchemaVersion)) \in Raisable
      /\ Raise("InvalidParametersError", r.parameters.of # r.capability) \in Raisable
      /\ CheckPriority(r) \in Raisable
  BY RaisableNames DEF Raise, CheckPriority
<1>. QED
  BY <1>1, ValueChecksRaise, FirstIsRaisable DEF CheckRequest

LEMMA WireChecksRaise ==
  ASSUME NEW d
  PROVE  RequestError(d) \in Raisable
<1>1. /\ Raise("SchemaValidationError", d.type # "object") \in Raisable
      /\ Raise("UnknownFieldError", ~(DOMAIN d.members \subseteq RequestFields)) \in Raisable
      /\ Raise("SchemaValidationError", ~(RequestFields \subseteq DOMAIN d.members)) \in Raisable
  BY RaisableNames DEF Raise
<1>. QED
  BY <1>1, ValueChecksRaise, ParameterChecksRaise, RequestChecksRaise, FirstIsRaisable
  DEF RequestError

\* A request that was checked has the priority of its capability, so a known one.
LEMMA CheckedPriority ==
  ASSUME NEW r, CheckRequest(r) = "none"
  PROVE  r.priority \in Priorities
<1>1. CheckPriority(r) = "none"
  BY FirstToRaise DEF CheckRequest
<1>. QED
  BY <1>1 DEF CheckPriority, Raise, Priorities

\* A call ends with one of the five schema errors or of the three errors of Python
\* that escape them, and what is in hand has a known capability and priority.
THEOREM TypeCorrect == Spec => []TypeOK
<1>1. Init => TypeOK
  BY DEF Init, TypeOK
<1>2. ContractInv /\ ContractInv' /\ TypeOK /\ [Next]_vars => TypeOK'
  <2>. SUFFICES ASSUME ContractInv, ContractInv', TypeOK, [Next]_vars PROVE TypeOK'
    OBVIOUS
  <2>1. /\ proposal' # Nothing => proposal'.capability \in Capabilities
        /\ authorized' # Nothing => authorized'.capability \in Capabilities
        /\ \A r \in requests' : r.capability \in Capabilities
    BY DEF ContractInv, InHand, RequestsAreLegal, Legal
  <2>2. raised' \in Raisable
    BY ValueChecksRaise, ParameterChecksRaise, RequestChecksRaise, WireChecksRaise
    DEF Next, vars, ParseProposal, Authorize, BuildRequest, RequestFromDict, TypeOK, Raisable
  <2>3. \A r \in requests' : r \in requests \/ CheckRequest(r) = "none"
    <3>1. ASSUME NEW d, RequestError(d) = "none" PROVE CheckRequest(RequestIn(d)) = "none"
      BY <3>1, FirstToRaise DEF RequestError
    <3>. QED
      BY <3>1 DEF Next, vars, ParseProposal, Authorize, BuildRequest, RequestFromDict
  <2>4. \A r \in requests' : r.priority \in Priorities
    BY <2>3, CheckedPriority DEF TypeOK
  <2>. QED
    BY <2>1, <2>2, <2>4 DEF TypeOK, Raisable
<1>. QED
  BY <1>1, <1>2, ContractInvariant, PTL DEF Spec
=============================================================================
