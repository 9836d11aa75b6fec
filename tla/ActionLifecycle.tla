-------------------------- MODULE ActionLifecycle ---------------------------
(***************************************************************************)
(* What the execution agent promises about the requests it is given, with  *)
(* no queue, clock or event log: the life cycle of every request and the   *)
(* one motion resource they share.  One step may move several requests,    *)
(* because a call of the agent settles all the requests it concerns before *)
(* it returns.  FakeAgent is shown to implement this specification.        *)
(***************************************************************************)
EXTENDS FiniteSets

CONSTANTS Ids,         \* the request ids callers may use
          Motions      \* the ids whose request moves the robot: stand, walk

VARIABLE status        \* the status of every id, "new" until it is recorded

Terminal == {"completed", "rejected", "expired", "cancelled", "failed"}
Statuses == {"new", "accepted", "running"} \cup Terminal

\* Where a single call may take a request.  Observe and stop go from new
\* straight to completed; so does a motion when completion is automatic.
Successors(s) ==
  CASE s = "new"      -> {"accepted", "running", "completed", "rejected", "expired"}
    [] s = "accepted" -> {"running", "expired", "cancelled"}
    [] s = "running"  -> {"completed", "cancelled", "failed"}
    [] s \in Terminal -> {}

Active(st, s) == {i \in Ids : st[i] = s}

\* The motion resource: one motion at a time, motions only, and no motion is
\* kept waiting while the resource is free.
ResourceRule(st) ==
  /\ \A i, j \in Active(st, "running") : i = j
  /\ Active(st, "running") \cup Active(st, "accepted") \subseteq Motions
  /\ Active(st, "accepted") # {} => Active(st, "running") # {}

Init == status = [i \in Ids |-> "new"]

Advance ==
  /\ status' \in [Ids -> Statuses]
  /\ \A i \in Ids : status'[i] # status[i] => status'[i] \in Successors(status[i])
  /\ ResourceRule(status')

Spec == Init /\ [][Advance]_status
=============================================================================
