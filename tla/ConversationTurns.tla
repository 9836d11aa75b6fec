-------------------------- MODULE ConversationTurns --------------------------
(***************************************************************************)
(* What a conversation session promises, with no threads, provider, worker *)
(* or clock: turns are admitted one at a time, every turn is answered once *)
(* or ends with an exception, and the memory holds turns that were         *)
(* answered ok.  ConversationSession is shown to implement it, and         *)
(* ActionSession is built on it.                                           *)
(***************************************************************************)
EXTENDS TurnResults

VARIABLES
  closed,        \* no turn is admitted any more
  busy,          \* a turn is being worked on: the one admitted last
  outcome,       \* how every admitted turn ended, "pending" until it has
  remembered     \* the turns the next question is asked in the light of

vars == <<closed, busy, outcome, remembered>>

Turns == 1..Len(outcome)
Current == Len(outcome)

Admit ==
  /\ ~closed /\ ~busy
  /\ busy' = TRUE
  /\ outcome' = Append(outcome, "pending")
  /\ UNCHANGED <<closed, remembered>>

\* The work on the newest turn is over; its answer is still to be given, and the
\* next turn may be admitted, even answered, before it is.
Release ==
  /\ busy /\ outcome[Current] = "pending"
  /\ busy' = FALSE
  /\ UNCHANGED <<closed, outcome, remembered>>

Answer(n, status) ==
  /\ outcome[n] = "pending" /\ ~(busy /\ n = Current)
  /\ outcome' = [outcome EXCEPT ![n] = status]
  /\ IF status = "ok" THEN remembered' \in SUBSET (remembered \cup {n})
                      ELSE UNCHANGED remembered
  /\ UNCHANGED <<closed, busy>>

\* An exception ends the turn without an answer.  Whether the next turn may be admitted
\* after it is left to the implementation.
Break ==
  /\ busy /\ outcome[Current] = "pending"
  /\ outcome' = [outcome EXCEPT ![Current] = "raised"]
  /\ busy' \in BOOLEAN
  /\ UNCHANGED <<closed, remembered>>

Close ==
  /\ closed' = TRUE
  /\ UNCHANGED <<busy, outcome, remembered>>

Clear ==
  /\ remembered' = {}
  /\ UNCHANGED <<closed, busy, outcome>>

Init ==
  /\ closed = FALSE
  /\ busy = FALSE
  /\ outcome = <<>>
  /\ remembered = {}

Next ==
  \/ Admit \/ Release \/ Break \/ Close \/ Clear
  \/ \E n \in Turns, status \in TurnStatuses : Answer(n, status)

Spec == Init /\ [][Next]_vars
=============================================================================
