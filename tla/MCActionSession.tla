--------------------------- MODULE MCActionSession ---------------------------
(* Instances of ActionSession for TLC. *)
EXTENDS ActionSessionProperties

Proposes(capability, members) ==
  Object([capability |-> Str(capability), parameters |-> Object(members)])

\* A motion, a stop, a motion that is refused, parameters that raise what nobody catches,
\* and a text that cannot be read.  (A turn that failed has no proposal: it stands for
\* prose.)
SomeTexts ==
  {Proposes("walk", [distance_m |-> Num(3), speed |-> Num(2)]),
   Proposes("stop", NoMembers),
   Proposes("walk", [distance_m |-> Num(99), speed |-> Num(2)]),
   Proposes("observe", [fields |-> Num(5)]),
   TooDeep}

SomeTurnIds == {Uuid("t1"), Str("turn-1")}
TheDrawn == <<"r1", "k1", "r2", "k2", "r3", "k3">>
SomeFreshIds == {"t1", "r1", "k1", "r2", "k2", "r3", "k3"}
\* One tick is the time to live.
SomeSkews == {-1, 1}

SomeConfigs ==
  {[queue_capacity |-> 1, auto_complete |-> FALSE, target_available |-> TRUE, clock |-> "fake"]}
=============================================================================
