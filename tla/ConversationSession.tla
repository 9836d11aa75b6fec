------------------------ MODULE ConversationSession -------------------------
(***************************************************************************)
(* ConversationSession (conversation/session.py) with the provider threads *)
(* it starts.  Caller threads call send, cancel, close and clear on one    *)
(* session; every admitted send starts a daemon thread that runs           *)
(* provider.generate and is never joined.                                  *)
(*                                                                         *)
(* One step is one critical section of _lock, one read or write of the     *)
(* state shared without it (_cancel_event, _in_flight in cancel, the done  *)
(* event of the worker), or one call of the provider.                      *)
(*                                                                         *)
(* Left out: texts and their sizes (DesktopChat has them), logging, and    *)
(* the ids a turn is logged with.                                          *)
(*                                                                         *)
(* An operator named Wrong... is a mistake one could make in the operator  *)
(* after it; nothing uses it.                                              *)
(***************************************************************************)
EXTENDS TurnResults, SequencesExt

CONSTANTS
  Callers,        \* threads that share the session
  Operations,     \* which of send, cancel, close and clear they call
  Providers,      \* "fake" (FakeModelProvider), "ollama" (OllamaProvider)
  Generations,    \* what generate may end with when it is not cancelled
  Interruptible,  \* the callers a KeyboardInterrupt can reach: the main thread
  MaxHistory,     \* limits.max_history_messages
  MaxTurns        \* bound on the sends that are admitted

VARIABLES
  provider,       \* the session's provider
  closed,         \* _closed
  inFlight,       \* _in_flight
  cancelEvent,    \* _cancel_event
  messages,       \* _messages, each with the turn it belongs to
  pc, turn,       \* per caller: where it is, and the turn it has in hand
  verdict,        \* per caller: the model result _await returned
  outcome,        \* per admitted turn: the status send returned, or "raised"
  overdue,        \* per admitted turn: its generation timeout has passed
  holder,         \* per admitted turn: the worker thread and what it left
  stopAsked       \* FakeModelProvider._cancel_event

callerVars == <<pc, turn, verdict>>
turnVars == <<outcome, overdue, holder>>
vars == <<provider, closed, inFlight, cancelEvent, messages, pc, turn, verdict,
          outcome, overdue, holder, stopAsked>>
-----------------------------------------------------------------------------
ASSUME SessionAssumption ==
  /\ Operations \subseteq {"send", "cancel", "close", "clear"}
  /\ Providers \subseteq {"fake", "ollama"}
  /\ Generations \subseteq GenerationResults
  /\ Interruptible \subseteq Callers
  /\ MaxHistory \in Nat
  /\ MaxTurns \in Nat

NoTurn == 0
Turns == 1..Len(outcome)

\* Where a caller may be.  The pc of an admitted send runs through Section while
\* _in_flight is set on its behalf, then through finalize.
Section == {"build", "submit", "poll_done", "poll_cancel", "poll_deadline",
            "give_up", "release"}
Places == Section \cup {"idle", "finalize", "cancel_check", "cancel_provider"}

At(c, place) == pc[c] = place
Goto(c, place) == pc' = [pc EXCEPT ![c] = place]
Decide(c, result) == verdict' = [verdict EXCEPT ![c] = result]

\* provider.cancel(): the fake sets an event that nothing clears, Ollama's
\* blocking call cannot be stopped.
ProviderCancel ==
  stopAsked' = (stopAsked \/ provider = "fake")
-----------------------------------------------------------------------------
(* send *)

\* Closed, busy, empty or too large: answered under the lock, nothing changes.
SendRefused(c) ==
  /\ At(c, "idle") /\ "send" \in Operations
  /\ UNCHANGED vars

WrongAdmitsWhileBusy == ~closed
WrongAdmitsWhenClosed == ~inFlight
CanAdmit == ~closed /\ ~inFlight

SendAdmitted(c) ==
  /\ At(c, "idle") /\ "send" \in Operations
  /\ CanAdmit /\ Len(outcome) < MaxTurns
  /\ inFlight' = TRUE
  /\ cancelEvent' = FALSE
  /\ turn' = [turn EXCEPT ![c] = Len(outcome) + 1]
  /\ outcome' = Append(outcome, "pending")
  /\ overdue' = Append(overdue, FALSE)
  /\ holder' = Append(holder, "none")
  /\ Goto(c, "build")
  /\ UNCHANGED <<provider, closed, messages, verdict, stopAsked>>

\* _build_request copies the messages under the lock.
WrongBuildClears(c) ==
  /\ At(c, "build")
  /\ Goto(c, "submit")
  /\ cancelEvent' = FALSE
  /\ UNCHANGED <<provider, closed, inFlight, messages, turn, verdict,
                 stopAsked>>
  /\ UNCHANGED turnVars
Build(c) ==
  /\ At(c, "build")
  /\ Goto(c, "submit")
  /\ UNCHANGED <<provider, closed, inFlight, cancelEvent, messages, turn, verdict,
                 stopAsked>>
  /\ UNCHANGED turnVars

\* _submit starts the worker; the deadline of _await counts from here.
Submit(c) ==
  /\ At(c, "submit")
  /\ holder' = [holder EXCEPT ![turn[c]] = "generating"]
  /\ Goto(c, "poll_done")
  /\ UNCHANGED <<provider, closed, inFlight, cancelEvent, messages, turn, verdict,
                 outcome, overdue, stopAsked>>

Polls == UNCHANGED <<provider, closed, inFlight, cancelEvent, messages, turn, stopAsked>>

\* The three tests of _await, in order, each a read of its own.
Finished(n) == holder[n] \notin {"none", "generating"}

PollDone(c) ==
  /\ At(c, "poll_done")
  /\ IF Finished(turn[c])
       THEN Decide(c, holder[turn[c]]) /\ Goto(c, "release")
       ELSE Goto(c, "poll_cancel") /\ UNCHANGED verdict
  /\ Polls /\ UNCHANGED turnVars

PollCancel(c) ==
  /\ At(c, "poll_cancel")
  /\ IF cancelEvent
       THEN Decide(c, "cancelled") /\ Goto(c, "give_up")
       ELSE Goto(c, "poll_deadline") /\ UNCHANGED verdict
  /\ Polls /\ UNCHANGED turnVars

\* Not overdue: the wait on the done event returns within 50 ms, done or not.
PollDeadline(c) ==
  /\ At(c, "poll_deadline")
  /\ IF overdue[turn[c]]
       THEN Decide(c, "timeout") /\ Goto(c, "give_up")
       ELSE Goto(c, "poll_done") /\ UNCHANGED verdict
  /\ Polls /\ UNCHANGED turnVars

WrongGiveUpJoins(c) ==
  /\ At(c, "give_up") /\ Finished(turn[c])
  /\ ProviderCancel
  /\ Goto(c, "release")
  /\ UNCHANGED <<provider, closed, inFlight, cancelEvent, messages, turn, verdict>>
  /\ UNCHANGED turnVars
\* The provider is asked to stop; the worker is abandoned, not waited for.
GiveUp(c) ==
  /\ At(c, "give_up")
  /\ ProviderCancel
  /\ Goto(c, "release")
  /\ UNCHANGED <<provider, closed, inFlight, cancelEvent, messages, turn, verdict>>
  /\ UNCHANGED turnVars

Release(c) ==
  /\ At(c, "release")
  /\ inFlight' = FALSE
  /\ Goto(c, "finalize")
  /\ UNCHANGED <<provider, closed, cancelEvent, messages, turn, verdict, stopAsked>>
  /\ UNCHANGED turnVars

\* _record_turn: both messages of the turn, then the oldest beyond the limit go.
Message(role, n) == [role |-> role, turn |-> n]
WrongRecorded(n) ==
  Newest(messages, MaxHistory - 1) \o <<Message("user", n), Message("assistant", n)>>
Recorded(n) ==
  Newest(messages \o <<Message("user", n), Message("assistant", n)>>, MaxHistory)

WrongFinalizeRereads(c) ==
  /\ At(c, "finalize")
  /\ messages' = IF holder[turn[c]] = "success" THEN Recorded(turn[c]) ELSE messages
  /\ outcome' = [outcome EXCEPT ![turn[c]] = StatusOf(verdict[c])]
  /\ turn' = [turn EXCEPT ![c] = NoTurn]
  /\ verdict' = [verdict EXCEPT ![c] = "none"]
  /\ Goto(c, "idle")
  /\ UNCHANGED <<provider, closed, inFlight, cancelEvent, overdue, holder, stopAsked>>
Finalize(c) ==
  /\ At(c, "finalize")
  /\ messages' = IF verdict[c] = "success" THEN Recorded(turn[c]) ELSE messages
  /\ outcome' = [outcome EXCEPT ![turn[c]] = StatusOf(verdict[c])]
  /\ turn' = [turn EXCEPT ![c] = NoTurn]
  /\ verdict' = [verdict EXCEPT ![c] = "none"]
  /\ Goto(c, "idle")
  /\ UNCHANGED <<provider, closed, inFlight, cancelEvent, overdue, holder, stopAsked>>

\* An exception between the admission and the release leaves send: there is no
\* handler, so _in_flight stays set and a worker that was started goes on.
Escape(c) ==
  /\ outcome' = [outcome EXCEPT ![turn[c]] = "raised"]
  /\ turn' = [turn EXCEPT ![c] = NoTurn]
  /\ verdict' = [verdict EXCEPT ![c] = "none"]
  /\ Goto(c, "idle")
  /\ UNCHANGED <<provider, closed, inFlight, cancelEvent, messages, overdue, holder,
                 stopAsked>>

\* thread.start(): "can't start new thread".
SubmitFails(c) == At(c, "submit") /\ Escape(c)

\* A KeyboardInterrupt; one that comes after the release leaves nothing set and is
\* left out.
Interrupted(c) == c \in Interruptible /\ pc[c] \in Section /\ Escape(c)
-----------------------------------------------------------------------------
(* cancel, close, clear *)

\* cancel() takes no lock: it sets the event, reads the flag, calls the provider.
CancelSet(c) ==
  /\ At(c, "idle") /\ "cancel" \in Operations
  /\ cancelEvent' = TRUE
  /\ Goto(c, "cancel_check")
  /\ UNCHANGED <<provider, closed, inFlight, messages, turn, verdict, stopAsked>>
  /\ UNCHANGED turnVars

CancelCheck(c) ==
  /\ At(c, "cancel_check")
  /\ Goto(c, IF inFlight THEN "cancel_provider" ELSE "idle")
  /\ UNCHANGED <<provider, closed, inFlight, cancelEvent, messages, turn, verdict,
                 stopAsked>>
  /\ UNCHANGED turnVars

CancelProvider(c) ==
  /\ At(c, "cancel_provider")
  /\ ProviderCancel
  /\ Goto(c, "idle")
  /\ UNCHANGED <<provider, closed, inFlight, cancelEvent, messages, turn, verdict>>
  /\ UNCHANGED turnVars

\* close() decides under the lock and calls the provider after it.
Close(c) ==
  /\ At(c, "idle") /\ "close" \in Operations /\ ~closed
  /\ closed' = TRUE
  /\ cancelEvent' = TRUE
  /\ Goto(c, IF inFlight THEN "cancel_provider" ELSE "idle")
  /\ UNCHANGED <<provider, inFlight, messages, turn, verdict, stopAsked>>
  /\ UNCHANGED turnVars

Clear(c) ==
  /\ At(c, "idle") /\ "clear" \in Operations
  /\ messages' = <<>>
  /\ UNCHANGED <<provider, closed, inFlight, cancelEvent, stopAsked>>
  /\ UNCHANGED callerVars /\ UNCHANGED turnVars
-----------------------------------------------------------------------------
(* The workers and time *)

Leave(n, result) ==
  /\ holder' = [holder EXCEPT ![n] = result]
  /\ UNCHANGED <<provider, closed, inFlight, cancelEvent, messages, outcome, overdue,
                 stopAsked>>
  /\ UNCHANGED callerVars

\* generate returns or raises; Ollama's may do so long after it was abandoned.
WorkerEnds(n) ==
  /\ holder[n] = "generating"
  /\ \E result \in Generations : Leave(n, result)

\* FakeModelProvider._wait sees its cancel event.
WorkerStops(n) ==
  /\ holder[n] = "generating"
  /\ provider = "fake" /\ stopAsked
  /\ Leave(n, "cancelled")

DeadlinePasses(n) ==
  /\ holder[n] # "none" /\ outcome[n] = "pending" /\ ~overdue[n]
  /\ overdue' = [overdue EXCEPT ![n] = TRUE]
  /\ UNCHANGED <<provider, closed, inFlight, cancelEvent, messages, outcome, holder,
                 stopAsked>>
  /\ UNCHANGED callerVars
-----------------------------------------------------------------------------
Init ==
  /\ provider \in Providers
  /\ closed = FALSE
  /\ inFlight = FALSE
  /\ cancelEvent = FALSE
  /\ messages = <<>>
  /\ pc = [c \in Callers |-> "idle"]
  /\ turn = [c \in Callers |-> NoTurn]
  /\ verdict = [c \in Callers |-> "none"]
  /\ outcome = <<>>
  /\ overdue = <<>>
  /\ holder = <<>>
  /\ stopAsked = FALSE

\* The steps of a call that has begun.
Continue(c) ==
  \/ Build(c) \/ Submit(c)
  \/ PollDone(c) \/ PollCancel(c) \/ PollDeadline(c)
  \/ GiveUp(c) \/ Release(c) \/ Finalize(c)
  \/ CancelCheck(c) \/ CancelProvider(c)

Begin(c) ==
  \/ SendRefused(c) \/ SendAdmitted(c)
  \/ CancelSet(c) \/ Close(c) \/ Clear(c)

Next ==
  \/ \E c \in Callers : Begin(c) \/ Continue(c) \/ SubmitFails(c) \/ Interrupted(c)
  \/ \E n \in Turns : WorkerEnds(n) \/ WorkerStops(n) \/ DeadlinePasses(n)

Spec == Init /\ [][Next]_vars

\* Threads that are inside a call keep running; nothing is assumed of the
\* provider, of the callers' choice to begin a call, of exceptions, or of time.
FairSpec == Spec /\ \A c \in Callers : WF_vars(Continue(c))
=============================================================================
