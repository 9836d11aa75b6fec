---------------------- MODULE ActionContractProperties -----------------------
(***************************************************************************)
(* What the action contract promises whoever executes a request.           *)
(***************************************************************************)
EXTENDS ActionContract

\* The exceptions that escape the typed ones: tuple() of a value that cannot be
\* iterated over, float() of an integer that is too large, json.loads of a text that
\* is nested too deep.
PythonErrors == {"TypeError", "OverflowError", "RecursionError"}

\* What is in hand has a known capability, and a call ends with one of the
\* exceptions its checks can raise.
TypeOK ==
  /\ proposal # Nothing => proposal.capability \in Capabilities
  /\ authorized # Nothing => authorized.capability \in Capabilities
  /\ \A r \in requests : r.capability \in Capabilities /\ r.priority \in Priorities
  /\ raised \in SchemaErrors \cup PythonErrors \cup {"none"}
-----------------------------------------------------------------------------
(* A legal request, field by field: the table of the Phase 2 document, section 3,
   and that of the parameters, section 4. *)

IsUuid(v) == v.type = "string" /\ v.text \in UuidTexts
IsNumber(v) == v.type = "number"
IsWithin(v, max) == IsNumber(v) /\ 0 < v.tenths /\ v.tenths <= max

LegalFields(v) ==
  v = Null \/ /\ v.type = "list"
              /\ ToSet(v.items) \subseteq {Str(f) : f \in ObserveFields}
              /\ IsInjective(v.items)

LegalParameters(p) ==
  \/ p.of = "observe" /\ LegalFields(p.fields)
  \/ p.of = "walk" /\ IsWithin(p.distance_m, MaxDistance) /\ IsWithin(p.speed, MaxSpeed)
  \/ p.of \in {"stop", "stand"}

Legal(r) ==
  /\ r.schema_version = Str(SchemaVersion)
  /\ IsUuid(r.request_id) /\ IsUuid(r.session_id)
  /\ IsUuid(r.turn_id) /\ IsUuid(r.idempotency_key)
  /\ r.capability \in Capabilities
  /\ r.parameters.of = r.capability /\ LegalParameters(r.parameters)
  /\ IsNumber(r.created_at) /\ IsWithin(r.ttl_seconds, MaxTtl)
  /\ r.priority = "emergency" <=> r.capability = "stop"

\* No request exists that breaks the contract, from whichever side it came: out of
\* the model's text by way of authorize, or off the wire.  The agent executes what
\* it is given without looking at the parameters again.
RequestsAreLegal == \A r \in requests : Legal(r)

\* to_dict followed by request_from_dict gives back the request: a request that is
\* sent and parsed is neither refused nor changed.
RoundTrips ==
  \A r \in requests : RequestError(ToDict(r)) = "none" /\ RequestIn(ToDict(r)) = r

\* What authorize lets through can be built into a request for any UUID turn.
\* ActionSession.authorize rests on it: it builds outside the try block that turns
\* errors into a rejection.
AuthorizedIsBuildable ==
  authorized # Nothing =>
    \A turn \in TurnIds, id, key \in FreshIds :
      IsUuid(turn) => CheckRequest(Built(authorized, id, key, turn, 0)) = "none"
-----------------------------------------------------------------------------
(* What the documentation says and the code does not do *)

\* validation.py: "Validation is deterministic and raises typed
\* SchemaValidationError subclasses."  (A RecursionError is parse_proposal's, which is
\* not part of validation.)
RefusalsAreTyped == raised \in SchemaErrors \cup {"none", "RecursionError"}

\* Phase 2 document, section 3: "UUIDs must be canonical".
IdentifiersAreCanonical ==
  \A r \in requests : /\ r.request_id.canonical /\ r.session_id.canonical
                      /\ r.turn_id.canonical /\ r.idempotency_key.canonical
=============================================================================
