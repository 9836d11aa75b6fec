-------------------- MODULE ConversationSessionProperties --------------------
(***************************************************************************)
(* What a conversation session promises the threads that share it.         *)
(***************************************************************************)
EXTENDS ConversationSession

Messages == [role : {"user", "assistant"}, turn : Nat \ {0}]

\* Every variable has its type; a turn that has returned has one of the statuses
\* of TurnStatus, and every sequence has one entry per admitted turn.
TypeOK ==
  /\ provider \in Providers
  /\ closed \in BOOLEAN /\ inFlight \in BOOLEAN
  /\ cancelEvent \in BOOLEAN /\ stopAsked \in BOOLEAN
  /\ messages \in Seq(Messages)
  /\ outcome \in Seq(TurnStatuses \cup {"pending", "raised"})
  /\ overdue \in Seq(BOOLEAN) /\ Len(overdue) = Len(outcome)
  /\ holder \in Seq(GenerationResults \cup {"none", "generating"})
  /\ Len(holder) = Len(outcome)
  /\ pc \in [Callers -> Places]
  /\ turn \in [Callers -> Turns \cup {NoTurn}]
  /\ verdict \in [Callers -> GenerationResults \cup {"none"}]

InSection(c) == pc[c] \in Section
-----------------------------------------------------------------------------
(* Safety *)

Wedged == \E n \in Turns : outcome[n] = "raised"

\* _in_flight stands for one caller: at most one send is between its admission and
\* its release, and the flag is set exactly while there is one.  (The flag is
\* cleared by whoever leaves _await, without a check that it is the owner's.)  The
\* exception is a send that ended with one: the flag it leaves set is never
\* cleared, so it was the last send the session admitted.
InFlightIsExclusive ==
  /\ inFlight <=> Wedged \/ \E c \in Callers : InSection(c)
  /\ \A c, d \in Callers : InSection(c) /\ InSection(d) => c = d
  /\ \A n \in Turns : outcome[n] = "raised" => n = Len(outcome)
  /\ Wedged => \A c \in Callers : ~InSection(c)

\* A closed session stays cancelled.  send clears the event that close has set, so
\* this rests on the two of them deciding under one lock.
ClosedStaysCancelled == closed => cancelEvent

\* What _record_turn and its trimming leave is the end of a sequence of whole turns:
\* every question is followed by its own answer, the last message is an answer, and
\* only an odd max_history_messages may leave an answer without its question, in
\* front.  All are of turns that returned ok, each once, and no more than the limit.
\* The answer a worker gives after its turn was abandoned is never in it.
HistoryHoldsWholeTurns ==
  LET last == Len(messages)
  IN  /\ last <= MaxHistory
      /\ \A i \in 1..last :
           /\ outcome[messages[i].turn] = "ok"
           /\ messages[i].role = IF (last - i) % 2 = 0 THEN "assistant" ELSE "user"
           /\ messages[i].role = "user" => messages[i + 1].turn = messages[i].turn
      /\ \A i, j \in 1..last : messages[i] = messages[j] => i = j
-----------------------------------------------------------------------------
(* Liveness, under FairSpec *)

\* A cancellation that finds a send in flight ends it, whatever the provider does:
\* cancel() sets the event without the lock and nothing erases it before _await has
\* read it.  Only an exception in that send keeps the session from being free again.
CancellationIsNeverLost == inFlight /\ cancelEvent ~> ~inFlight \/ Wedged

\* send ends once its generation timeout has passed, even if the worker thread
\* never does.
ReturnsByDeadline ==
  \A n \in 1..MaxTurns :
    (n \in Turns /\ overdue[n]) ~> (n \in Turns /\ outcome[n] # "pending")
-----------------------------------------------------------------------------
(* The abstract specification *)

Remembered == {messages[i].turn : i \in 1..Len(messages)}

Conversation == INSTANCE ConversationTurns WITH
  busy <- inFlight, remembered <- Remembered

\* The session, with its threads, workers and deadlines, is a conversation: turns are
\* admitted one by one and answered once, what is remembered was answered ok, and
\* what was forgotten does not come back.
ImplementsTurns == Conversation!Spec
-----------------------------------------------------------------------------
(* What the documents say and the code does not do *)

Generating == {n \in Turns : holder[n] = "generating"}

\* Runbook, section 6 "Timeout and cancellation semantics": at most MAX_CONCURRENT (1)
\* generations run per session.
OneGenerationPerSession == \A m, n \in Generating : m = n

\* Runbook: cancel() "signals the in-flight generation to stop".  It would follow
\* that a session nobody cancels or closes never answers "cancelled".
CancelledOnlyIfAsked ==
  Operations \cap {"cancel", "close"} = {} =>
    \A n \in Turns : outcome[n] # "cancelled"
=============================================================================
