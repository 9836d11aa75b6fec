--------------------------- MODULE OllamaProvider ----------------------------
(***************************************************************************)
(* OllamaProvider.generate (model/ollama.py): what a call of Ollama's chat *)
(* endpoint becomes.  A call is a record:                                  *)
(*   connection  "unresolved" (no address for the host), "refused" (or     *)
(*               unreachable, or no answer within the connect timeout),    *)
(*               "up"                                                      *)
(*   exchange    "broken" (a read that times out, a reset, a close without *)
(*               an answer: an OSError), "garbled" (not HTTP, or cut       *)
(*               short), "answered"                                        *)
(*   status      the HTTP status                                           *)
(*   body        what the body reads as: "not_json" (or not UTF-8),        *)
(*               "too_deep" (the JSON reader exceeds its recursion limit), *)
(*               or a JSON value.                                          *)
(***************************************************************************)
EXTENDS TurnResults, Configuration

CONSTANT LongestTimeout   \* the longest timeout a socket takes: 2^63 nanoseconds

JsonText(chars) == [type |-> "string", chars |-> chars]
JsonObject(members) == [type |-> "object", members |-> members]
JsonNumber == [type |-> "number"]
NotJson == [type |-> "not_json"]
TooDeep == [type |-> "too_deep"]

HasMember(value, name, type) ==
  name \in DOMAIN value.members /\ value.members[name].type = type

\* A socket refuses a timeout that is nan, inf or too long with a ValueError or an
\* OverflowError, which are no OSErrors.
Usable(timeout) == timeout.kind = "number" /\ timeout.value <= LongestTimeout

WrongTransport(config, call) ==
  IF call.connection = "unresolved" THEN "unavailable"
  ELSE IF ~Usable(config.connect_timeout) THEN "unexpected"
  ELSE IF call.connection = "refused" THEN "unavailable"
  ELSE IF ~Usable(config.generation_timeout) THEN "unexpected"
  ELSE IF call.exchange = "broken" THEN "generation_timeout"
  ELSE IF call.exchange = "garbled" THEN "unexpected"
  ELSE "body"
\* _default_transport: the kind of TransportError it raises, "unexpected" for any
\* other exception, "body" when it returns.
Transport(config, call) ==
  IF call.connection = "unresolved" THEN "unavailable"
  ELSE IF ~Usable(config.connect_timeout) THEN "unexpected"
  ELSE IF call.connection = "refused" THEN "unavailable"
  ELSE IF ~Usable(config.generation_timeout) THEN "unexpected"
  ELSE IF call.exchange = "broken" THEN "generation_timeout"
  ELSE IF call.exchange = "garbled" THEN "unexpected"
  ELSE IF call.status >= 400 THEN "http"
  ELSE "body"

\* _map_transport_error.
TransportFailure(kind) ==
  CASE kind = "generation_timeout"    -> "timeout"
    [] kind = "unavailable"           -> "provider_unavailable"
    [] kind \in {"http", "unexpected"} -> "protocol_error"

ParseResponse(data) ==
  IF data.type # "object" THEN "invalid_result"
  ELSE IF "error" \in DOMAIN data.members THEN "provider_unavailable"
  ELSE IF ~HasMember(data, "message", "object") THEN "invalid_result"
  ELSE IF ~HasMember(data.members.message, "content", "string") THEN "invalid_result"
  ELSE "success"

\* json.loads lets a RecursionError escape, which the session's worker catches.
Generate(config, call) ==
  LET kind == Transport(config, call)
  IN  IF kind # "body" THEN TransportFailure(kind)
      ELSE IF call.body.type = "not_json" THEN "invalid_result"
      ELSE IF call.body.type = "too_deep" THEN "raised"
      ELSE ParseResponse(call.body)

\* The payload of a success.
ContentChars(call) == call.body.members.message.members.content.chars
=============================================================================
