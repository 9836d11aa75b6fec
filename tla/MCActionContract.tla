-------------------------- MODULE MCActionContract ---------------------------
(***************************************************************************)
(* The inputs: texts and wire requests that are right, and those that are  *)
(* wrong in one or two places, each limit met from both sides.             *)
(***************************************************************************)
EXTENDS ActionContractProperties

\* The value a field is right with, and those it is tried with.
OddValues == {Null, Bool(TRUE), Str("x"), NonFinite, Huge, List(<<>>)}
Distances == {Num(n) : n \in {0, 1, MaxDistance, MaxDistance + 1}} \cup OddValues
Speeds == {Num(n) : n \in {-1, 0, 1, MaxSpeed, MaxSpeed + 1}} \cup OddValues
FieldLists ==
  {List(<<Str("posture")>>), List(<<Str("posture"), Str("posture")>>),
   List(<<Str("posture"), Str("battery_pct")>>), List(<<Str("posture"), Str("colour")>>),
   List(<<Num(1)>>), Object([posture |-> Num(1)]), Object([colour |-> Null]), Num(5)}
     \cup OddValues

WalkParameters ==
  {Object([distance_m |-> d, speed |-> Num(1)]) : d \in Distances}
    \cup {Object([distance_m |-> Num(1), speed |-> v]) : v \in Speeds}
    \cup {Object([distance_m |-> Num(1)]),
          Object([distance_m |-> Num(1), speed |-> Num(1), colour |-> Null])}
RawParameters(c) ==
  {Object(NoMembers), Object([colour |-> Null]), Null} \cup
  CASE c = "observe" -> {Object([fields |-> v]) : v \in FieldLists}
    [] c = "walk"    -> WalkParameters
    [] OTHER         -> {}

AllTexts ==
  UNION {{Object([capability |-> Str(c), parameters |-> p]) : p \in RawParameters(c)} :
           c \in Capabilities \cup {"jump"}}
    \cup {Prose, TooDeep, Null, Object([capability |-> Str("stop")]),
          Object([capability |-> Null, parameters |-> Object(NoMembers)]),
          Object([capability |-> Str("stop"), parameters |-> Object(NoMembers),
                  reason |-> Null])}

\* Right requests off the wire, one for each capability, and their faults.
Right(c, p) ==
  [schema_version |-> Str(SchemaVersion), request_id |-> Uuid("w1"),
   session_id |-> Uuid(SessionId), turn_id |-> Str("w2"), idempotency_key |-> Uuid("w2"),
   capability |-> Str(c), parameters |-> p, created_at |-> Num(0), ttl_seconds |-> Num(1),
   priority |-> Str(IF c = "stop" THEN "emergency" ELSE "normal")]
RightMembers ==
  {Right("observe", Object(NoMembers)), Right("stop", Object(NoMembers)),
   Right("stand", Object(NoMembers)),
   Right("walk", Object([distance_m |-> Num(MaxDistance), speed |-> Num(MaxSpeed)]))}

FaultsOf(m, field) ==
  CASE field = "schema_version" -> {Str("1.1"), Null}
    [] field = "capability" -> {Str("walk"), Str("jump"), Null}
    [] field = "parameters" -> RawParameters(m.capability.text)
    [] field = "priority" -> {Str("emergency"), Str("normal"), Str("x"), Null}
    [] field = "created_at" -> {Num(-1)} \cup OddValues
    [] field = "ttl_seconds" -> {Num(0), Num(MaxTtl), Num(MaxTtl + 1)} \cup OddValues
    [] OTHER -> {Str("w1"), Str("x"), Null}

Spread(m, field) == {Object([m EXCEPT ![field] = v]) : v \in FaultsOf(m, field)}
AllWires ==
  {Object(m) : m \in RightMembers} \cup {Null}
    \cup UNION {Spread(m, f) : m \in RightMembers,
                              f \in {"capability", "parameters", "priority"}}
    \cup UNION {LET m == CHOOSE n \in RightMembers : n.capability = Str("walk")
                IN  Spread(m, f) \cup {Object([g \in RequestFields \ {f} |-> m[g]])} :
                  f \in RequestFields}
    \cup {Object([f \in RequestFields \cup {"reason"} |-> IF f = "reason" THEN Null ELSE m[f]]) :
            m \in RightMembers}

SomeTurnIds == {Uuid("t1"), Str("w1"), Str("turn-1"), Null}
SomeFreshIds == {"t1", "w1", "w2"}
=============================================================================
