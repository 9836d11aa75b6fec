---------------------------- MODULE ActionSchema ----------------------------
(***************************************************************************)
(* The action contract (action/) as values and functions: the strict       *)
(* parsers of proposals and requests and what they build.  ActionContract  *)
(* is the machine that calls them one after the other, ActionSession       *)
(* calls them between a conversation and an agent.                         *)
(*                                                                         *)
(* A JSON value is a record tagged with its type.  Numbers count tenths    *)
(* (0.1 m, 0.1 m/s, 0.1 s); the JSON reader of Python also reads NaN and   *)
(* Infinity ("nonfinite") and integers too large for a float ("huge").  A  *)
(* string is known by its spelling, a UUID string by the id it spells and  *)
(* whether the spelling is the canonical one.                              *)
(*                                                                         *)
(* A validator is an operator that gives the exception it raises, or       *)
(* "none"; e ?? f is the first of the two checks to raise.  An operator    *)
(* named Wrong... is a mistake one could make in the operator after it;    *)
(* nothing uses it.                                                        *)
(***************************************************************************)
EXTENDS Integers, SequencesExt

CONSTANTS
  SessionId,      \* the session's own id, a uuid4
  FreshIds        \* the uuid4 values drawn for turns and requests
-----------------------------------------------------------------------------
(* JSON values *)

Null == [type |-> "null"]
Bool(b) == [type |-> "bool", truth |-> b]
Num(n) == [type |-> "number", tenths |-> n]
NonFinite == [type |-> "nonfinite"]
Huge == [type |-> "huge"]
Str(s) == [type |-> "string", text |-> s, canonical |-> FALSE]
Uuid(s) == [type |-> "string", text |-> s, canonical |-> TRUE]
List(items) == [type |-> "list", items |-> items]
Object(members) == [type |-> "object", members |-> members]

NoMembers == [field \in {} |-> Null]
Has(object, field) == field \in DOMAIN object.members
Field(object, field) == object.members[field]
Prose == [type |-> "prose"]                  \* a text json.loads refuses
TooDeep == [type |-> "toodeep"]              \* JSON nested deeper than it can recurse
Nothing == [type |-> "nothing"]              \* no value

Capabilities == {"observe", "stop", "stand", "walk"}
Priorities == {"emergency", "normal"}
ObserveFields == {"battery_pct", "posture", "fall_state"}
UuidTexts == {SessionId} \cup FreshIds
SchemaVersion == "1.0"
MaxDistance == 10
MaxSpeed == 5
MaxTtl == 600
DefaultTtl == 50

\* The subclasses of SchemaValidationError, and the class itself.
SchemaErrors ==
  {"SchemaValidationError", "SchemaVersionError", "UnknownFieldError",
   "InvalidParametersError", "InvalidIdentifierError"}
-----------------------------------------------------------------------------
(* Checks, in the order the code makes them *)

e ?? f == IF e = "none" THEN f ELSE e
Raise(error, when) == IF when THEN error ELSE "none"

\* require_uuid: the pattern also takes capitals and a final newline, so it is
\* what is spelled that counts, not how.
RequireUuid(v) ==
  Raise("InvalidIdentifierError", v.type # "string" \/ v.text \notin UuidTexts)

\* float(value) raises its own error for an integer it cannot hold.
RequireFiniteFloat(v) ==
  Raise("OverflowError", v.type = "huge")
    ?? Raise("InvalidParametersError", v.type # "number")

\* 0 < n <= max; a value that is not a number has not got this far.
RequireWithin(v, max) ==
  Raise("InvalidParametersError", ~(0 < v.tenths /\ v.tenths <= max))

\* ObserveParameters: tuple(fields) iterates over a list, or over the keys of an
\* object, and raises TypeError for anything else but a string.
NamesIn(v) == IF v.type = "list" THEN v.items ELSE SetToSeq({Str(k) : k \in DOMAIN v.members})

CheckFields(v) ==
  Raise("InvalidParametersError", v.type = "string")
    ?? Raise("TypeError", v.type \notin {"list", "object"})
    ?? Raise("InvalidParametersError",
                 \/ ~(ToSet(NamesIn(v)) \subseteq {Str(f) : f \in ObserveFields})
                 \/ ~IsInjective(NamesIn(v)))

FieldsGiven(p) == Has(p, "fields") /\ Field(p, "fields") # Null

CheckObserve(p) ==
  Raise("UnknownFieldError", ~(DOMAIN p.members \subseteq {"fields"}))
    ?? IF FieldsGiven(p) THEN CheckFields(Field(p, "fields")) ELSE "none"

CheckWalk(p) ==
  LET wanted == {"distance_m", "speed"}
  IN  Raise("UnknownFieldError", ~(DOMAIN p.members \subseteq wanted))
        ?? Raise("InvalidParametersError", ~(wanted \subseteq DOMAIN p.members))
        ?? RequireFiniteFloat(Field(p, "distance_m"))
        ?? RequireFiniteFloat(Field(p, "speed"))
        ?? RequireWithin(Field(p, "distance_m"), MaxDistance)
        ?? RequireWithin(Field(p, "speed"), MaxSpeed)

\* parameters_from_dict: what it raises, and what it builds when it does not.
CheckParameters(capability, p) ==
  Raise("InvalidParametersError", p.type # "object")
    ?? CASE capability = "observe" -> CheckObserve(p)
             [] capability = "walk"    -> CheckWalk(p)
             [] OTHER                  -> Raise("UnknownFieldError", DOMAIN p.members # {})

Parameters(capability, p) ==
  CASE capability = "observe" ->
         [of |-> capability,
          fields |-> IF FieldsGiven(p) THEN List(NamesIn(Field(p, "fields"))) ELSE Null]
    [] capability = "walk" ->
         [of |-> capability, distance_m |-> Field(p, "distance_m"),
          speed |-> Field(p, "speed")]
    [] OTHER -> [of |-> capability]

WrongDefaultPriority(capability) == "normal"
DefaultPriority(capability) == IF capability = "stop" THEN "emergency" ELSE "normal"

WrongCoerceCapability(v) == Raise("InvalidParametersError", v.type # "string")
CoerceCapability(v) ==
  Raise("InvalidParametersError", v.type # "string" \/ v.text \notin Capabilities)
CoercePriority(v) ==
  Raise("InvalidParametersError", v.type # "string" \/ v.text \notin Priorities)

WrongCheckPriority(r) ==
  Raise("InvalidParametersError", r.capability = "stop" /\ r.priority # "emergency")
CheckPriority(r) ==
  Raise("InvalidParametersError",
        r.priority # IF r.capability = "stop" THEN "emergency" ELSE "normal")

\* ActionRequest.__post_init__, on fields the callers have already coerced.
CheckRequest(r) ==
  Raise("SchemaVersionError", r.schema_version # Str(SchemaVersion))
    ?? RequireUuid(r.request_id) ?? RequireUuid(r.session_id)
    ?? RequireUuid(r.turn_id) ?? RequireUuid(r.idempotency_key)
    ?? Raise("InvalidParametersError", r.parameters.of # r.capability)
    ?? RequireFiniteFloat(r.created_at)
    ?? RequireFiniteFloat(r.ttl_seconds)
    ?? RequireWithin(r.ttl_seconds, MaxTtl)
    ?? CheckPriority(r)
-----------------------------------------------------------------------------
(* request_from_dict and to_dict *)

RequestFields ==
  {"schema_version", "request_id", "session_id", "turn_id", "capability", "parameters",
   "created_at", "ttl_seconds", "priority", "idempotency_key"}

RequestIn(d) ==
  [schema_version |-> Field(d, "schema_version"),
   request_id |-> Field(d, "request_id"), session_id |-> Field(d, "session_id"),
   turn_id |-> Field(d, "turn_id"), idempotency_key |-> Field(d, "idempotency_key"),
   capability |-> Field(d, "capability").text,
   parameters |-> Parameters(Field(d, "capability").text, Field(d, "parameters")),
   created_at |-> Field(d, "created_at"), ttl_seconds |-> Field(d, "ttl_seconds"),
   priority |-> Field(d, "priority").text]

RequestError(d) ==
  Raise("SchemaValidationError", d.type # "object")
    ?? Raise("UnknownFieldError", ~(DOMAIN d.members \subseteq RequestFields))
    ?? Raise("SchemaValidationError", ~(RequestFields \subseteq DOMAIN d.members))
    ?? CoerceCapability(Field(d, "capability"))
    ?? CheckParameters(Field(d, "capability").text, Field(d, "parameters"))
    ?? CoercePriority(Field(d, "priority"))
    ?? CheckRequest(RequestIn(d))

WrongParametersToDict(p) ==
  IF p.of = "walk" THEN Object([distance_m |-> p.distance_m, speed |-> p.speed])
                   ELSE Object(NoMembers)
ParametersToDict(p) ==
  CASE p.of = "observe" /\ p.fields # Null -> Object([fields |-> p.fields])
    [] p.of = "walk" -> Object([distance_m |-> p.distance_m, speed |-> p.speed])
    [] OTHER -> Object(NoMembers)

ToDict(r) ==
  Object([schema_version |-> r.schema_version, request_id |-> r.request_id,
          session_id |-> r.session_id, turn_id |-> r.turn_id,
          idempotency_key |-> r.idempotency_key,
          capability |-> Str(r.capability), parameters |-> ParametersToDict(r.parameters),
          created_at |-> r.created_at, ttl_seconds |-> r.ttl_seconds,
          priority |-> Str(r.priority)])
-----------------------------------------------------------------------------
(* From a text to a request *)

\* parse_proposal: an object with exactly two members, a known capability and an
\* object of raw parameters.  Everything else is conversation, but for a text too
\* deep to read: the RecursionError of json.loads is not caught.
IsProposal(text) ==
  /\ text.type = "object"
  /\ DOMAIN text.members = {"capability", "parameters"}
  /\ CoerceCapability(Field(text, "capability")) = "none"
  /\ Field(text, "parameters").type = "object"

ParseError(text) == Raise("RecursionError", text = TooDeep)

ProposalIn(text) ==
  IF IsProposal(text)
    THEN [capability |-> Field(text, "capability").text,
          parameters |-> Field(text, "parameters")]
    ELSE Nothing

\* build_request, with the defaults build_request_from_authorized leaves to it; the
\* two ids are drawn by uuid4.
Built(action, id, key, turn, now) ==
  [schema_version |-> Str(SchemaVersion), request_id |-> Uuid(id),
   session_id |-> Uuid(SessionId), turn_id |-> turn, idempotency_key |-> Uuid(key),
   capability |-> action.capability, parameters |-> action.parameters,
   created_at |-> Num(now), ttl_seconds |-> Num(DefaultTtl),
   priority |-> DefaultPriority(action.capability)]
=============================================================================
