------------------------- MODULE ActionSessionProofs -------------------------
(***************************************************************************)
(* Theorems about ActionSession, for every set of texts, every agent and   *)
(* every distance of the two clocks.  What FakeAgentProofs shows of every  *)
(* agent is used for the one in the composition.                           *)
(***************************************************************************)
EXTENDS ActionSessionProperties, SequenceTheorems, TLAPS

AgentProofs == INSTANCE FakeAgentLogProofs WITH Requests <- AgentRequests
-----------------------------------------------------------------------------
(* The agent of the composition is the one of the proofs *)

LEMMA SameSubmit ==
  ASSUME NEW r
  PROVE  Agent!Submit(r) <=> AgentProofs!Submit(r)
BY DEF Agent!Submit, Agent!Replay, Agent!RejectConflict, Agent!RejectUnavailable, Agent!ExpireOnSubmit,
   Agent!Observe, Agent!Stop, Agent!StartNow, Agent!RejectBusy, Agent!Enqueue,
   Agent!OnlyAnswers, Agent!vars, Agent!KeyOf, Agent!IsNew, Agent!TargetAvailable, Agent!IsStale,
   Agent!Admissible, Agent!Immediate, Agent!Register, Agent!NewRecord, Agent!Event,
   Agent!Preempted, Agent!PreemptEvents, Agent!FinishedRecord, Agent!DroppedRecord,
   Agent!Elapsed, Agent!Rounded, Agent!IsMotion, Agent!MotionCapabilities, Agent!StartedRecord,
   Agent!StartEvents, Agent!AutoComplete, Agent!MotionBusy, Agent!QueueFull,
   Agent!QueueCapacity, Agent!QueuedBehind,
   AgentProofs!Submit, AgentProofs!Replay, AgentProofs!RejectConflict,
   AgentProofs!RejectUnavailable, AgentProofs!ExpireOnSubmit,
   AgentProofs!Observe, AgentProofs!Stop, AgentProofs!StartNow, AgentProofs!RejectBusy,
   AgentProofs!Enqueue,
   AgentProofs!OnlyAnswers, AgentProofs!vars, AgentProofs!KeyOf, AgentProofs!IsNew,
   AgentProofs!TargetAvailable, AgentProofs!IsStale,
   AgentProofs!Admissible, AgentProofs!Immediate, AgentProofs!Register,
   AgentProofs!NewRecord, AgentProofs!Event,
   AgentProofs!Preempted, AgentProofs!PreemptEvents, AgentProofs!FinishedRecord,
   AgentProofs!DroppedRecord, AgentProofs!Elapsed, AgentProofs!Rounded, AgentProofs!IsMotion,
   AgentProofs!MotionCapabilities, AgentProofs!StartedRecord, AgentProofs!StartEvents,
   AgentProofs!AutoComplete, AgentProofs!MotionBusy, AgentProofs!QueueFull,
   AgentProofs!QueueCapacity, AgentProofs!QueuedBehind

LEMMA SameDrive ==
  ASSUME NEW id
  PROVE  /\ Agent!Complete(id) <=> AgentProofs!Complete(id)
         /\ Agent!Fail(id) <=> AgentProofs!Fail(id)
         /\ Agent!Cancel(id) <=> AgentProofs!Cancel(id)
BY DEF Agent!Complete, Agent!Fail, Agent!Cancel, Agent!RejectUnknown, Agent!RejectNotRunning,
   Agent!IsRunning, Agent!CancelWaiting, Agent!CancelIgnored, Agent!Finish,
   Agent!IsNextFresh, Agent!FinishEvents, Agent!OnlyAnswers, Agent!vars, Agent!IsStale,
   Agent!Event, Agent!FinishedRecord, Agent!DroppedRecord, Agent!Elapsed, Agent!Rounded, Agent!NewRecord,
   Agent!StartedRecord, Agent!StartEvents, Agent!AutoComplete, Agent!RemoveAt,
   AgentProofs!Complete, AgentProofs!Fail, AgentProofs!Cancel, AgentProofs!RejectUnknown,
   AgentProofs!RejectNotRunning, AgentProofs!IsRunning, AgentProofs!CancelWaiting,
   AgentProofs!CancelIgnored, AgentProofs!Finish, AgentProofs!IsNextFresh,
   AgentProofs!FinishEvents, AgentProofs!OnlyAnswers, AgentProofs!vars,
   AgentProofs!IsStale, AgentProofs!Event, AgentProofs!FinishedRecord,
   AgentProofs!DroppedRecord, AgentProofs!Elapsed, AgentProofs!Rounded, AgentProofs!NewRecord,
   AgentProofs!StartedRecord, AgentProofs!StartEvents, AgentProofs!AutoComplete,
   AgentProofs!RemoveAt

LEMMA SameTime ==
  /\ Agent!Tick <=> AgentProofs!Tick
  /\ Agent!StepWall <=> AgentProofs!StepWall
BY DEF Agent!Tick, Agent!StepWall, AgentProofs!Tick, AgentProofs!StepWall

LEMMA SameInit == Agent!Init => AgentProofs!Init
BY DEF Agent!Init, AgentProofs!Init

LEMMA RequestsFit == AgentProofs!RequestsAssumption
<1>1. /\ \A r \in AgentRequests : /\ r.capability \in Capabilities
                                  /\ r.created_at \in Int /\ r.ttl_seconds = Ttl
                                  /\ r.request_id \in FreshIds
  BY DEF AgentRequests
<1>. QED
  BY <1>1, SessionAssumption
  DEF AgentProofs!RequestsAssumption, AgentProofs!Capabilities, Capabilities,
      AgentProofs!MotionCapabilities, AgentProofs!RequestIds

LEMMA ConfigsFit == AgentProofs!ConfigAssumption
BY SessionAssumption DEF Agent!ConfigAssumption, AgentProofs!ConfigAssumption
-----------------------------------------------------------------------------
(* What a step of the agent does to the composition *)

AgentInv == AgentProofs!TypeOK /\ AgentProofs!ResourceInv /\ AgentProofs!ClocksAgree

LEMMA AgentStep ==
  ASSUME AgentInv, [AgentProofs!Next]_(AgentProofs!vars)
  PROVE  /\ AgentInv'
         /\ AgentProofs!NoNewRecord \/ \E r \in AgentRequests : AgentProofs!NewRecordOf(r)
         /\ \A i \in DOMAIN records : AgentProofs!Kept(i)
<1>1. AgentProofs!TypeOK'
  BY RequestsFit, ConfigsFit, AgentProofs!TypeStep DEF AgentInv
<1>2. AgentProofs!ResourceInv'
  BY RequestsFit, ConfigsFit, AgentProofs!ResourceStep DEF AgentInv
<1>3. AgentProofs!ClocksAgree'
  BY RequestsFit, ConfigsFit, AgentProofs!ClocksStep DEF AgentInv
<1>. QED
  BY <1>1, <1>2, <1>3, RequestsFit, ConfigsFit, AgentProofs!StepKeeps DEF AgentInv

\* Nothing but a submission records a request, and it records its own.
LEMMA DriveRecordsNothing ==
  ASSUME AgentInv, NEW id, Agent!Complete(id) \/ Agent!Fail(id) \/ Agent!Cancel(id)
  PROVE  [AgentProofs!Next]_(AgentProofs!vars) /\ AgentProofs!NoNewRecord
<1>1. AgentProofs!Complete(id) \/ AgentProofs!Fail(id) \/ AgentProofs!Cancel(id)
  BY SameDrive
<1>2. UNCHANGED AgentProofs!vars \/ id \in DOMAIN records
  BY <1>1
  DEF AgentProofs!Complete, AgentProofs!Fail, AgentProofs!Cancel, AgentProofs!RejectUnknown,
      AgentProofs!OnlyAnswers, AgentProofs!RejectNotRunning, AgentProofs!IsRunning,
      AgentProofs!CancelWaiting, AgentProofs!CancelIgnored
<1>3. id \in DOMAIN records => id \in AgentProofs!RequestIds
  BY DEF AgentInv, AgentProofs!TypeOK
<1>4. UNCHANGED <<records, idempotency>> \/ AgentProofs!NoNewRecord
  BY <1>1
  DEF AgentProofs!Complete, AgentProofs!Fail, AgentProofs!Cancel, AgentProofs!RejectUnknown,
      AgentProofs!OnlyAnswers, AgentProofs!RejectNotRunning, AgentProofs!vars,
      AgentProofs!CancelWaiting, AgentProofs!CancelIgnored, AgentProofs!Finish,
      AgentProofs!NoNewRecord
<1>5. AgentProofs!NoNewRecord
  BY <1>4 DEF AgentProofs!NoNewRecord
<1>. QED
  BY <1>1, <1>2, <1>3, <1>5 DEF AgentProofs!Next

LEMMA TimeRecordsNothing ==
  ASSUME Agent!Tick \/ Agent!StepWall
  PROVE  [AgentProofs!Next]_(AgentProofs!vars) /\ AgentProofs!NoNewRecord
BY SameTime DEF AgentProofs!Next, AgentProofs!Tick, AgentProofs!StepWall, AgentProofs!NoNewRecord

LEMMA SubmitRecords ==
  ASSUME NEW r \in AgentRequests, Agent!Submit(r), AgentProofs!IsNew(r)
  PROVE  /\ AgentProofs!Next
         /\ DOMAIN records' = DOMAIN records \cup {r.request_id}
         /\ DOMAIN idempotency' = DOMAIN idempotency \cup {AgentProofs!KeyOf(r)}
         /\ records'[r.request_id].request = r
<1>1. AgentProofs!Submit(r)
  BY SameSubmit
<1>2. \E rec, recs : AgentProofs!Register(r, rec, recs) /\ rec.request = r
  <2>1. ASSUME NEW s, NEW c, AgentProofs!Immediate(r, s, c) PROVE <1>2
    BY <2>1 DEF AgentProofs!Immediate, AgentProofs!NewRecord
  <2>2. AgentProofs!Stop(r) => <1>2
    BY DEF AgentProofs!Stop, AgentProofs!NewRecord
  <2>3. AgentProofs!StartNow(r) => <1>2
    BY DEF AgentProofs!StartNow, AgentProofs!StartedRecord, AgentProofs!NewRecord
  <2>4. AgentProofs!Enqueue(r) => <1>2
    BY DEF AgentProofs!Enqueue, AgentProofs!NewRecord
  <2>5. ~AgentProofs!Replay(r) /\ ~AgentProofs!RejectConflict(r)
    BY DEF AgentProofs!Replay, AgentProofs!RejectConflict, AgentProofs!IsNew
  <2>. QED
    BY <1>1, <2>1, <2>2, <2>3, <2>4, <2>5
    DEF AgentProofs!Submit, AgentProofs!RejectUnavailable, AgentProofs!ExpireOnSubmit,
        AgentProofs!Observe, AgentProofs!RejectBusy
<1>. QED
  BY <1>1, <1>2 DEF AgentProofs!Register, AgentProofs!Next
-----------------------------------------------------------------------------
(* The proposals and the requests built from them *)

Proposals == {ProposalIn(text) : text \in {t \in Texts : IsProposal(t)}}

LEMMA ProposalsAreNamed ==
  ASSUME NEW p \in Proposals
  PROVE  p.capability \in Capabilities /\ p # Nothing
<1>1. PICK text \in Texts : IsProposal(text) /\ p = ProposalIn(text)
  BY DEF Proposals
<1>2. p = [capability |-> Field(text, "capability").text, parameters |-> Field(text, "parameters")]
  BY <1>1 DEF ProposalIn
<1>. QED
  BY <1>1, <1>2 DEF IsProposal, CoerceCapability, Raise, Nothing

ActionOn(p) ==
  [capability |-> p.capability, parameters |-> Parameters(p.capability, p.parameters)]

LEMMA BuiltFits ==
  ASSUME NEW p \in Proposals, NEW id \in FreshIds, NEW key \in FreshIds,
         NEW turn \in TurnIds, NEW t \in Int
  PROVE  LET r == Built(ActionOn(p), id, key, turn, t * TenthsPerTick)
         IN  /\ ToAgent(r) \in AgentRequests
             /\ ToAgent(r).request_id = id
             /\ AgentProofs!KeyOf(ToAgent(r)) = <<SessionId, key>>
             /\ r.capability = p.capability
             /\ r.parameters = Parameters(p.capability, p.parameters)
             /\ r # Nothing
<1>. DEFINE r == Built(ActionOn(p), id, key, turn, t * TenthsPerTick)
            made == Parameters(p.capability, p.parameters)
            stamp == (t * TenthsPerTick) \div TenthsPerTick
<1>1. p.capability \in Capabilities
  BY ProposalsAreNamed
<1>2. ToAgent(r) =
        [request_id |-> id, session_id |-> SessionId, idempotency_key |-> key,
         turn_id |-> turn, capability |-> p.capability, parameters |-> made,
         created_at |-> stamp, ttl_seconds |-> Ttl]
  BY DEF ToAgent, Built, ActionOn, Uuid, Num, Ttl
<1>3. stamp \in Int
  BY SessionAssumption
<1>4. made \in {LET q == ProposalIn(text) IN Parameters(q.capability, q.parameters) :
                  text \in {u \in Texts : IsProposal(u)}}
  BY DEF Proposals
<1>. HIDE DEF made, stamp
<1>6. ToAgent(r) \in AgentRequests
  BY <1>1, <1>2, <1>3, <1>4 DEF AgentRequests
<1>7. AgentProofs!KeyOf(ToAgent(r)) = <<SessionId, key>> /\ ToAgent(r).request_id = id
  BY <1>2 DEF AgentProofs!KeyOf
<1>8. r.capability = p.capability /\ r.parameters = made /\ r # Nothing
  BY DEF Built, ActionOn, Nothing, made
<1>. QED
  BY <1>6, <1>7, <1>8 DEF made
-----------------------------------------------------------------------------
(* What send has returned *)

SentRecords ==
  {Pending, Raised}
    \cup [status : {"ok"}, proposal : Proposals \cup {Nothing}]
    \cup [status : Conversation!TurnStatuses \ {"ok"}, proposal : {Nothing}]

\* A turn has been returned exactly when it is over in the conversation.
SentInv ==
  /\ sent \in Seq(SentRecords)
  /\ outcome \in Seq(Conversation!TurnStatuses \cup {"pending", "raised"})
  /\ Len(sent) = Len(outcome)
  /\ \A n \in 1..Len(sent) : sent[n] = Pending <=> outcome[n] = "pending"

SentStays ==
  /\ Len(sent) <= Len(sent')
  /\ \A n \in 1..Len(sent) : sent[n] # Pending => sent'[n] = sent[n]

LEMMA SentStatuses ==
  ASSUME NEW s \in SentRecords
  PROVE  /\ s.status \in Conversation!TurnStatuses \cup {"pending", "raised"}
         /\ s.status = "pending" <=> s = Pending
         /\ s.status = "raised" <=> s = Raised
         /\ s \notin {Pending, Raised} =>
              /\ s.proposal \in Proposals \cup {Nothing}
              /\ s.proposal # Nothing => s.status = "ok"
BY DEF SentRecords, Pending, Raised, Conversation!TurnStatuses

\* The turn n is over, and send returns e for it.
LEMMA ReturnStep ==
  ASSUME SentInv, NEW n \in 1..Len(outcome), outcome[n] = "pending",
         NEW status \in Conversation!TurnStatuses \cup {"raised"},
         outcome' = [outcome EXCEPT ![n] = status],
         NEW e \in SentRecords, e # Pending, sent' = [sent EXCEPT ![n] = e]
  PROVE  SentInv' /\ SentStays
<1>1. sent' \in Seq(SentRecords) /\ Len(sent') = Len(sent)
  BY DEF SentInv
<1>2. /\ outcome' \in Seq(Conversation!TurnStatuses \cup {"pending", "raised"})
      /\ Len(outcome') = Len(outcome)
  BY DEF SentInv
<1>3. status # "pending"
  BY DEF Conversation!TurnStatuses
<1>4. \A m \in 1..Len(sent') : sent'[m] = Pending <=> outcome'[m] = "pending"
  BY <1>1, <1>3 DEF SentInv
<1>. QED
  BY <1>1, <1>2, <1>4 DEF SentInv, SentStays

LEMMA SentStep ==
  ASSUME SentInv, [Next]_vars
  PROVE  SentInv' /\ SentStays
<1>1. CASE Admit
  <2>1. /\ sent' = Append(sent, Pending) /\ outcome' = Append(outcome, "pending")
    BY <1>1 DEF Admit, Conversation!Admit
  <2>2. /\ sent' \in Seq(SentRecords) /\ Len(sent') = Len(sent) + 1
        /\ outcome' \in Seq(Conversation!TurnStatuses \cup {"pending", "raised"})
        /\ Len(outcome') = Len(outcome) + 1
        /\ \A n \in 1..Len(sent) : sent'[n] = sent[n] /\ outcome'[n] = outcome[n]
        /\ sent'[Len(sent) + 1] = Pending /\ outcome'[Len(sent) + 1] = "pending"
    BY <2>1 DEF SentInv, SentRecords
  <2>3. \A n \in 1..Len(sent') : n \in 1..Len(sent) \/ n = Len(sent) + 1
    BY <2>2 DEF SentInv
  <2>4. \A n \in 1..Len(sent') : sent'[n] = Pending <=> outcome'[n] = "pending"
    BY <2>2, <2>3 DEF SentInv
  <2>5. Len(sent) \in Nat
    BY DEF SentInv
  <2>. QED
    BY <2>2, <2>4, <2>5 DEF SentInv, SentStays
<1>2. ASSUME NEW n \in Conversation!Turns, NEW text \in Texts, Answer(n, text)
      PROVE  SentInv' /\ SentStays
  <2>. DEFINE e == IF ParseError(text) = "none"
                     THEN [status |-> "ok", proposal |-> ProposalIn(text)]
                     ELSE Raised
  <2>1. ProposalIn(text) \in Proposals \cup {Nothing}
    BY DEF Proposals, ProposalIn
  <2>2. e \in SentRecords /\ e # Pending
    BY <2>1 DEF SentRecords, Pending, Raised
  <2>3. "ok" \in Conversation!TurnStatuses
    BY DEF Conversation!TurnStatuses
  <2>4. /\ outcome[n] = "pending" /\ outcome' = [outcome EXCEPT ![n] = "ok"]
        /\ sent' = [sent EXCEPT ![n] = e]
    BY <1>2 DEF Answer, Conversation!Answer
  <2>. HIDE DEF e
  <2>. QED
    BY <2>2, <2>3, <2>4, ReturnStep DEF Conversation!Turns
<1>3. ASSUME NEW n \in Conversation!Turns, NEW status \in Failures, Fail(n, status)
      PROVE  SentInv' /\ SentStays
  <2>1. status \in Conversation!TurnStatuses \ {"ok"}
    BY SessionAssumption
  <2>2. /\ [status |-> status, proposal |-> Nothing] \in SentRecords
        /\ [status |-> status, proposal |-> Nothing] # Pending
    BY <2>1 DEF SentRecords, Pending, Conversation!TurnStatuses
  <2>3. /\ outcome[n] = "pending" /\ outcome' = [outcome EXCEPT ![n] = status]
        /\ sent' = [sent EXCEPT ![n] = [status |-> status, proposal |-> Nothing]]
    BY <1>3 DEF Fail, Conversation!Answer
  <2>. QED
    BY <2>1, <2>2, <2>3, ReturnStep DEF Conversation!Turns
<1>4. CASE Break
  <2>1. /\ outcome[Len(outcome)] = "pending"
        /\ outcome' = [outcome EXCEPT ![Len(outcome)] = "raised"]
        /\ sent' = [sent EXCEPT ![Len(outcome)] = Raised]
    BY <1>4 DEF Break, Conversation!Break, Conversation!Current
  <2>2. Raised \in SentRecords /\ Raised # Pending
    BY DEF SentRecords, Raised, Pending
  <2>3. CASE Len(outcome) \in 1..Len(outcome)
    BY <2>1, <2>2, <2>3, ReturnStep
  <2>4. CASE Len(outcome) \notin 1..Len(outcome)
    <3>1. Len(outcome) = 0 /\ outcome = <<>> /\ sent = <<>>
      BY <2>4 DEF SentInv
    <3>2. outcome' = outcome /\ sent' = sent
      BY <2>1, <3>1
    <3>. QED
      BY <3>2 DEF SentInv, SentStays
  <2>. QED
    BY <2>3, <2>4
<1>5. ASSUME UNCHANGED <<sent, outcome>>
      PROVE  SentInv' /\ SentStays
  BY <1>5 DEF SentInv, SentStays
<1>6. Delegated \/ Submit \/ Time \/ UNCHANGED vars => UNCHANGED <<sent, outcome>>
  BY DEF Delegated, Submit, Time, vars, session, conversation, Conversation!Release,
     Conversation!Close, Conversation!Clear
<1>7. \A n, turn : Authorize(n, turn) => UNCHANGED <<sent, outcome>>
  BY DEF Authorize, conversation
<1>8. \A id : Drive(id) => UNCHANGED <<sent, outcome>>
  BY DEF Drive, session, conversation
<1>. QED
  BY <1>1, <1>2, <1>3, <1>4, <1>5, <1>6, <1>7, <1>8 DEF Next
-----------------------------------------------------------------------------
(* What authorize has made of the proposals *)

Actions ==
  {Built(ActionOn(p), id, key, turn, t * TenthsPerTick) :
     p \in Proposals, id \in FreshIds, key \in FreshIds, turn \in TurnIds, t \in Int}
Results ==
  {Pending, Raised}
    \cup [status : AgentProofs!ActionStatuses, error_category : AgentProofs!ErrorCategories]
CallRecords ==
  [turn : Nat, action : Actions \cup {Nothing}, result : Results, at : 0..MaxTime]

\* What there is to say of the k-th call: its ids are the ones drawn for it, and its
\* action is what the turn proposed.
CallInv(k) ==
  /\ calls[k].turn \in 1..Len(sent)
  /\ sent[calls[k].turn] \notin {Pending, Raised}
  /\ calls[k].result = Pending => hasAgent /\ calls[k].action # Nothing /\ k = Len(calls)
  /\ calls[k].action # Nothing =>
       /\ ActionOf(k) \in AgentRequests
       /\ IdOf(k) = Drawn[2 * k - 1]
       /\ AgentProofs!KeyOf(ActionOf(k)) = <<SessionId, Drawn[2 * k]>>
       /\ IsWhatWasProposed(calls[k].action, calls[k].turn)

CallsInv ==
  /\ calls \in Seq(CallRecords) /\ Len(calls) <= MaxCalls
  /\ \A k \in Calls : CallInv(k)

LEMMA ResultsDiffer ==
  /\ \A s \in AgentProofs!ActionStatuses : s \notin {"pending", "raised"}
  /\ \A x \in Results : x = Pending <=> x.status = "pending"
  /\ \A c \in {"invalid_parameters", "target_unavailable", "idempotency_conflict"} :
       Rejected(c) \in Results \ {Pending, Raised}
<1>1. \A s \in AgentProofs!ActionStatuses : s \notin {"pending", "raised"}
  BY DEF AgentProofs!ActionStatuses, AgentProofs!TerminalStatuses
<1>2. "rejected" \in AgentProofs!ActionStatuses
  BY DEF AgentProofs!ActionStatuses, AgentProofs!TerminalStatuses
<1>3. {"invalid_parameters", "target_unavailable", "idempotency_conflict"}
        \subseteq AgentProofs!ErrorCategories
  BY DEF AgentProofs!ErrorCategories
<1>. QED
  BY <1>1, <1>2, <1>3 DEF Results, Pending, Raised, Rejected

\* What send returned stays, so what was said of the calls stays true.
LEMMA CallStays ==
  ASSUME SentInv, SentStays, CallsInv, NEW k \in Calls,
         calls'[k].turn = calls[k].turn, calls'[k].action = calls[k].action,
         calls'[k].result = Pending => calls[k].result = Pending /\ Len(calls') = Len(calls),
         hasAgent' = hasAgent
  PROVE  CallInv(k)'
<1>1. CallInv(k)
  BY DEF CallsInv
<1>2. LET n == calls[k].turn
      IN n \in 1..Len(sent) /\ n \in 1..Len(sent') /\ sent'[n] = sent[n]
  BY <1>1 DEF CallInv, SentStays, SentInv
<1>3. IsWhatWasProposed(calls[k].action, calls[k].turn)
        => IsWhatWasProposed(calls[k].action, calls[k].turn)'
  BY <1>2 DEF IsWhatWasProposed
<1>4. ActionOf(k)' = ActionOf(k) /\ IdOf(k)' = IdOf(k)
  BY DEF ActionOf, IdOf
<1>5. /\ calls'[k].turn \in 1..Len(sent')
      /\ sent'[calls'[k].turn] \notin {Pending, Raised}
  BY <1>1, <1>2 DEF CallInv
<1>6. calls'[k].result = Pending =>
        hasAgent' /\ calls'[k].action # Nothing /\ k = Len(calls')
  BY <1>1 DEF CallInv
<1>7. AgentProofs!KeyOf(ActionOf(k))' = AgentProofs!KeyOf(ActionOf(k))
  BY <1>4 DEF AgentProofs!KeyOf
<1>8. ASSUME calls'[k].action # Nothing
      PROVE  /\ ActionOf(k)' \in AgentRequests
             /\ IdOf(k)' = Drawn[2 * k - 1]
             /\ AgentProofs!KeyOf(ActionOf(k))' = <<SessionId, Drawn[2 * k]>>
             /\ IsWhatWasProposed(calls[k].action, calls[k].turn)'
  BY <1>1, <1>3, <1>4, <1>7, <1>8 DEF CallInv
<1>. QED
  BY <1>5, <1>6, <1>8 DEF CallInv

LEMMA AuthorizeStep ==
  ASSUME SentInv, AgentInv, CallsInv, skew \in Skews,
         NEW n \in Conversation!Turns, NEW turn \in TurnIds,
         Authorize(n, turn)
  PROVE  LET k == Len(calls) + 1
             e == Outcome(n, turn)
         IN  /\ e \in CallRecords /\ k <= MaxCalls
             /\ calls' = Append(calls, e)
             /\ e.turn = n
             /\ e.result = Pending => hasAgent /\ e.action # Nothing
             /\ e.action # Nothing =>
                  /\ e.result # Pending => ~hasAgent
                  /\ ToAgent(e.action) \in AgentRequests
                  /\ ToAgent(e.action).request_id = Drawn[2 * k - 1]
                  /\ AgentProofs!KeyOf(ToAgent(e.action)) = <<SessionId, Drawn[2 * k]>>
                  /\ IsWhatWasProposed(e.action, n)
             /\ n \in 1..Len(sent) /\ sent[n] \notin {Pending, Raised}
<1>. DEFINE k == Len(calls) + 1
            e == Outcome(n, turn)
            p == sent[n].proposal
            error == CheckParameters(p.capability, p.parameters)
            r == Request(n, turn)
<1>1. n \in 1..Len(sent) /\ sent[n] \notin {Pending, Raised}
  BY SentStatuses DEF Authorize, SentInv, Conversation!Turns, Pending, Raised
<1>2. sent[n] \in SentRecords
  BY <1>1 DEF SentInv
<1>3. p \in Proposals \cup {Nothing} /\ (p # Nothing => sent[n].status = "ok")
  BY <1>1, <1>2, SentStatuses
<1>4. calls' = Append(calls, e) /\ k \in 1..MaxCalls /\ Len(calls) \in Nat
  BY SessionAssumption DEF Authorize, CallsInv
<1>5. Drawn[2 * k - 1] \in FreshIds /\ Drawn[2 * k] \in FreshIds
  BY <1>4, SessionAssumption
<1>6. mono \in 0..MaxTime /\ wall + skew \in Int
  BY SessionAssumption DEF AgentInv, Agent!ConfigAssumption, AgentProofs!TypeOK
<1>7. ASSUME p # Nothing
      PROVE  /\ r \in Actions /\ r # Nothing
             /\ ToAgent(r) \in AgentRequests
             /\ ToAgent(r).request_id = Drawn[2 * k - 1]
             /\ AgentProofs!KeyOf(ToAgent(r)) = <<SessionId, Drawn[2 * k]>>
             /\ r.capability = p.capability
             /\ r.parameters = Parameters(p.capability, p.parameters)
  <2>1. r = Built(ActionOn(p), Drawn[2 * k - 1], Drawn[2 * k], turn, (wall + skew) * TenthsPerTick)
    BY DEF Request, ActionOn, Key, Now
  <2>2. p \in Proposals
    BY <1>3, <1>7
  <2>. HIDE DEF p, r, k
  <2>3. r \in Actions
    BY <1>5, <1>6, <2>1, <2>2 DEF Actions
  <2>. QED
    BY <1>5, <1>6, <2>1, <2>2, <2>3, BuiltFits
<1>8. \/ e = Call(n, Nothing, Rejected("invalid_parameters"))
      \/ e = Call(n, Nothing, Raised)
      \/ /\ p # Nothing /\ error = "none"
         /\ \/ ~hasAgent /\ e = Call(n, r, Rejected("target_unavailable"))
            \/ hasAgent /\ e = Call(n, r, Pending)
  BY DEF Outcome, NoTarget
<1>9. \A action, result : Call(n, action, result) =
        [turn |-> n, action |-> action, result |-> result, at |-> mono]
  BY DEF Call
<1>10. p # Nothing /\ error = "none" => IsWhatWasProposed(r, n)
  BY <1>3, <1>7 DEF IsWhatWasProposed
<1>11. Pending \in Results /\ Raised \in Results /\ Raised # Pending
  BY DEF Results, Pending, Raised
<1>12. n \in Nat
  BY <1>1
<1>. HIDE DEF e, p, error, r
<1>13. e \in CallRecords
  BY <1>6, <1>7, <1>8, <1>9, <1>11, <1>12, ResultsDiffer DEF CallRecords
<1>14. e.turn = n /\ (e.result = Pending => hasAgent /\ e.action # Nothing)
  BY <1>7, <1>8, <1>9, <1>11, ResultsDiffer
<1>15. e.action # Nothing => e.action = r /\ p # Nothing /\ error = "none"
                             /\ (e.result # Pending => ~hasAgent)
  BY <1>8, <1>9
<1>16. e.action # Nothing =>
         /\ e.result # Pending => ~hasAgent
         /\ ToAgent(e.action) \in AgentRequests
         /\ ToAgent(e.action).request_id = Drawn[2 * k - 1]
         /\ AgentProofs!KeyOf(ToAgent(e.action)) = <<SessionId, Drawn[2 * k]>>
         /\ IsWhatWasProposed(e.action, n)
  BY <1>7, <1>10, <1>15
<1>. QED
  BY <1>1, <1>4, <1>13, <1>14, <1>16 DEF e
-----------------------------------------------------------------------------
(* The records of the agent are those of the calls that reached it *)

RecordsInv ==
  /\ OneActionPerAuthorization
  /\ DOMAIN idempotency = {<<SessionId, Drawn[2 * k]>> : k \in Submitted}

SessionInv ==
  /\ AgentInv /\ SentInv /\ CallsInv /\ RecordsInv
  /\ skew \in Skews /\ hasAgent \in BOOLEAN /\ closed \in BOOLEAN /\ busy \in BOOLEAN

\* The ids of two calls are not the same.
LEMMA DrawnDiffer ==
  ASSUME CallsInv, NEW j \in Calls, NEW k \in Calls,
         Drawn[2 * j - 1] = Drawn[2 * k - 1] \/ Drawn[2 * j] = Drawn[2 * k]
  PROVE  j = k
<1>1. /\ 2 * j - 1 \in 1..(2 * MaxCalls) /\ 2 * j \in 1..(2 * MaxCalls)
      /\ 2 * k - 1 \in 1..(2 * MaxCalls) /\ 2 * k \in 1..(2 * MaxCalls)
      /\ j \in Nat /\ k \in Nat
  BY SessionAssumption DEF CallsInv, Calls
<1>2. 2 * j - 1 = 2 * k - 1 \/ 2 * j = 2 * k
  BY <1>1, SessionAssumption
<1>. QED
  BY <1>1, <1>2

\* A step that submits nothing and changes no record leaves them as they are.
LEMMA RecordsStay ==
  ASSUME SessionInv, SentStays, hasAgent' = hasAgent, AgentProofs!NoNewRecord,
         \A i \in DOMAIN records : AgentProofs!Kept(i),
         Submitted' = Submitted,
         \A k \in Submitted : calls'[k].turn = calls[k].turn /\ calls'[k].action = calls[k].action
  PROVE  RecordsInv'
<1>1. \A k \in Submitted : ActionOf(k)' = ActionOf(k) /\ IdOf(k)' = IdOf(k)
  BY DEF ActionOf, IdOf
<1>2. ASSUME NEW k \in Submitted
      PROVE  /\ records'[IdOf(k)].request = ActionOf(k)
             /\ IsWhatWasProposed(calls[k].action, calls[k].turn)'
  <2>1. /\ IdOf(k) \in DOMAIN records /\ records[IdOf(k)].request = ActionOf(k)
        /\ IsWhatWasProposed(calls[k].action, calls[k].turn)
    BY DEF SessionInv, RecordsInv, OneActionPerAuthorization
  <2>2. CallInv(k)
    BY DEF SessionInv, CallsInv, Submitted
  <2>3. sent'[calls[k].turn] = sent[calls[k].turn]
    BY <2>2 DEF CallInv, SentStays
  <2>. QED
    BY <2>1, <2>3 DEF IsWhatWasProposed, AgentProofs!Kept
<1>3. DOMAIN records' = {IdOf(k)' : k \in Submitted'}
  BY <1>1 DEF SessionInv, RecordsInv, OneActionPerAuthorization, AgentProofs!NoNewRecord
<1>4. \A j, k \in Submitted' : IdOf(j)' = IdOf(k)' => j = k
  BY <1>1 DEF SessionInv, RecordsInv, OneActionPerAuthorization
<1>5. \A k \in Submitted' : /\ records'[IdOf(k)'].request = ActionOf(k)'
                            /\ IsWhatWasProposed(calls[k].action, calls[k].turn)'
  BY <1>1, <1>2
<1>6. DOMAIN idempotency' = {<<SessionId, Drawn[2 * k]>> : k \in Submitted'}
  BY DEF SessionInv, RecordsInv, AgentProofs!NoNewRecord
<1>. QED
  BY <1>3, <1>4, <1>5, <1>6 DEF RecordsInv, OneActionPerAuthorization

LEMMA InitHolds == Init => SessionInv
<1>. SUFFICES ASSUME Init PROVE SessionInv
  OBVIOUS
<1>1. Agent!Init /\ sent = <<>> /\ calls = <<>> /\ outcome = <<>>
  BY DEF Init, Conversation!Init
<1>2. AgentInv
  <2>1. AgentProofs!ClocksAgree
    BY <1>1 DEF Agent!Init, AgentProofs!ClocksAgree
  <2>. QED
    BY <1>1, <2>1, SameInit, RequestsFit, ConfigsFit, AgentProofs!InitType, AgentProofs!InitResource
    DEF AgentInv
<1>3. SentInv
  BY <1>1 DEF SentInv
<1>4. CallsInv
  BY <1>1, SessionAssumption DEF CallsInv, Calls
<1>5. Calls = {}
  BY <1>1 DEF Calls
<1>6. Submitted = {}
  BY <1>5 DEF Submitted
<1>7. DOMAIN records = {} /\ DOMAIN idempotency = {}
  BY <1>1 DEF Agent!Init
<1>8. RecordsInv
  BY <1>6, <1>7 DEF RecordsInv, OneActionPerAuthorization
<1>. QED
  BY <1>2, <1>3, <1>4, <1>8 DEF SessionInv, Init, Conversation!Init

\* A step that leaves the calls alone.
LEMMA CallsUnchanged ==
  ASSUME SessionInv, SentStays, AgentProofs!NoNewRecord,
         \A i \in DOMAIN records : AgentProofs!Kept(i), UNCHANGED <<calls, hasAgent>>
  PROVE  CallsInv' /\ RecordsInv'
<1>1. Calls' = Calls /\ Submitted' = Submitted
  BY DEF Calls, Submitted
<1>2. ASSUME NEW k \in Calls PROVE CallInv(k)'
  BY CallStays DEF SessionInv
<1>3. CallsInv'
  BY <1>1, <1>2 DEF CallsInv, SessionInv
<1>4. RecordsInv'
  BY <1>1, RecordsStay
<1>. QED
  BY <1>3, <1>4

\* A step that leaves the agent alone keeps its records.
LEMMA AgentUnchanged ==
  ASSUME SessionInv, UNCHANGED agent
  PROVE  /\ AgentInv' /\ AgentProofs!NoNewRecord
         /\ \A i \in DOMAIN records : AgentProofs!Kept(i)
<1>1. UNCHANGED AgentProofs!vars
  BY DEF agent, AgentProofs!vars
<1>2. AgentProofs!NoNewRecord
  BY DEF agent, AgentProofs!NoNewRecord
<1>. QED
  BY <1>1, <1>2, AgentStep DEF SessionInv

LEMMA AuthorizeKeeps ==
  ASSUME SessionInv, SentStays, NEW n \in Conversation!Turns, NEW turn \in TurnIds,
         Authorize(n, turn)
  PROVE  CallsInv' /\ RecordsInv' /\ Submitted' = Submitted
<1>0. SentInv /\ AgentInv /\ CallsInv /\ skew \in Skews
  BY DEF SessionInv
<1>. DEFINE e == Outcome(n, turn)
<1>k. PICK k \in Nat : k = Len(calls) + 1
  BY <1>0 DEF CallsInv
<1>1. /\ e \in CallRecords /\ k <= MaxCalls /\ calls' = Append(calls, e) /\ e.turn = n
      /\ e.result = Pending => hasAgent /\ e.action # Nothing
      /\ e.action # Nothing =>
           /\ e.result # Pending => ~hasAgent
           /\ ToAgent(e.action) \in AgentRequests
           /\ ToAgent(e.action).request_id = Drawn[2 * k - 1]
           /\ AgentProofs!KeyOf(ToAgent(e.action)) = <<SessionId, Drawn[2 * k]>>
           /\ IsWhatWasProposed(e.action, n)
      /\ n \in 1..Len(sent) /\ sent[n] \notin {Pending, Raised}
  BY <1>0, <1>k, AuthorizeStep
<1>2. /\ \A j \in Calls : calls[j].result # Pending
      /\ UNCHANGED <<agent, hasAgent, sent>>
  BY DEF Authorize, Idle
<1>. HIDE DEF e
<1>3. /\ calls' \in Seq(CallRecords) /\ Len(calls') = k
      /\ calls'[k] = e /\ \A j \in Calls : calls'[j] = calls[j]
  BY <1>0, <1>k, <1>1 DEF CallsInv, Calls
<1>4. Len(calls) \in Nat
  BY <1>0 DEF CallsInv
<1>5. Calls' = Calls \cup {k} /\ k \notin Calls
  BY <1>k, <1>3, <1>4 DEF Calls
<1>6. ASSUME NEW j \in Calls PROVE CallInv(j)'
  BY <1>0, <1>2, <1>3, CallStays
<1>7. CallInv(k)'
  <2>1. ActionOf(k)' = ToAgent(e.action) /\ IdOf(k)' = ToAgent(e.action).request_id
    BY <1>3 DEF ActionOf, IdOf
  <2>2. AgentProofs!KeyOf(ActionOf(k))' = AgentProofs!KeyOf(ToAgent(e.action))
    BY <2>1 DEF AgentProofs!KeyOf
  <2>3. IsWhatWasProposed(e.action, n) => IsWhatWasProposed(calls[k].action, calls[k].turn)'
    BY <1>1, <1>2, <1>3 DEF IsWhatWasProposed
  <2>4. calls'[k].turn \in 1..Len(sent') /\ sent'[calls'[k].turn] \notin {Pending, Raised}
    BY <1>1, <1>2, <1>3
  <2>5. calls'[k].result = Pending => hasAgent' /\ calls'[k].action # Nothing /\ k = Len(calls')
    BY <1>1, <1>2, <1>3
  <2>. QED
    BY <1>1, <1>3, <2>1, <2>2, <2>3, <2>4, <2>5 DEF CallInv
<1>8. CallsInv'
  BY <1>1, <1>3, <1>5, <1>6, <1>7 DEF CallsInv
<1>9. Submitted' = Submitted
  <2>1. \A j \in Calls : j \in Submitted' <=> j \in Submitted
    BY <1>2, <1>3, <1>5 DEF Submitted
  <2>2. k \notin Submitted'
    BY <1>1, <1>2, <1>3 DEF Submitted
  <2>. QED
    BY <1>5, <2>1, <2>2 DEF Submitted
<1>10. Submitted \subseteq Calls
  BY DEF Submitted
<1>11. RecordsInv'
  BY <1>2, <1>3, <1>9, <1>10, AgentUnchanged, RecordsStay
<1>. QED
  BY <1>8, <1>9, <1>11

\* The ids of the pending call are new to the agent.
LEMMA NewToTheAgent ==
  ASSUME SessionInv, NEW k \in Calls, calls[k].result = Pending
  PROVE  AgentProofs!IsNew(ActionOf(k))
<1>1. CallsInv /\ RecordsInv
  BY DEF SessionInv
<1>2. CallInv(k) /\ calls[k].action # Nothing
  BY <1>1 DEF CallsInv, CallInv
<1>3. \A j \in Submitted : j \in Calls /\ j # k
  BY DEF Submitted
<1>4. IdOf(k) \notin DOMAIN records
  <2>1. SUFFICES ASSUME NEW j \in Submitted, IdOf(j) = IdOf(k) PROVE FALSE
    BY <1>1 DEF RecordsInv, OneActionPerAuthorization
  <2>2. IdOf(j) = Drawn[2 * j - 1] /\ IdOf(k) = Drawn[2 * k - 1]
    BY <1>1, <1>2, <1>3 DEF CallsInv, CallInv, Submitted
  <2>. QED
    BY <1>1, <1>3, <2>1, <2>2, DrawnDiffer
<1>5. AgentProofs!KeyOf(ActionOf(k)) \notin DOMAIN idempotency
  <2>1. SUFFICES ASSUME NEW j \in Submitted, Drawn[2 * j] = Drawn[2 * k] PROVE FALSE
    BY <1>1, <1>2 DEF RecordsInv, CallInv
  <2>. QED
    BY <1>1, <1>3, <2>1, DrawnDiffer
<1>. QED
  BY <1>4, <1>5 DEF AgentProofs!IsNew, IdOf

\* The pending call is the newest, its ids are new to the agent, and the agent's answer
\* is what it has just recorded.
LEMMA SubmitKeeps ==
  ASSUME SessionInv, SentStays, Submit
  PROVE  /\ AgentInv' /\ CallsInv' /\ RecordsInv'
         /\ Submitted' = Submitted \cup {Len(calls)} /\ Len(calls) \notin Submitted
         /\ \A j \in Submitted : calls'[j] = calls[j]
         /\ \A i \in DOMAIN records : AgentProofs!Kept(i)
         /\ \E rec : /\ rec = records'[IdOf(Len(calls))]
                     /\ calls'[Len(calls)] =
                          [calls[Len(calls)] EXCEPT !.result =
                             [status |-> rec.status, error_category |-> rec.error_category]]
<1>0. AgentInv /\ SentInv /\ CallsInv /\ RecordsInv
  BY DEF SessionInv
<1>1. PICK k \in Calls : calls[k].result = Pending
  BY DEF Submit, Idle
<1>2. CallInv(k)
  BY <1>0 DEF CallsInv
<1>3. k = Len(calls) /\ hasAgent /\ calls[k].action # Nothing /\ k \in Nat \ {0}
  BY <1>1, <1>2 DEF CallInv, Calls
<1>. DEFINE r == ActionOf(k)
<1>4. /\ r \in AgentRequests /\ r.request_id = Drawn[2 * k - 1]
      /\ AgentProofs!KeyOf(r) = <<SessionId, Drawn[2 * k]>>
      /\ IsWhatWasProposed(calls[k].action, calls[k].turn)
  BY <1>2, <1>3 DEF CallInv, IdOf
<1>5. k \notin Submitted /\ \A j \in Submitted : j \in Calls /\ j # k
  BY <1>1 DEF Submitted
<1>6. AgentProofs!IsNew(r)
  BY <1>1, NewToTheAgent
<1>7. /\ Agent!Submit(r) /\ calls' = [calls EXCEPT ![k].result = AnswerTo(r)]
      /\ UNCHANGED <<hasAgent, sent>>
  BY <1>3 DEF Submit, ActionOf
<1>8. /\ AgentProofs!Next
      /\ DOMAIN records' = DOMAIN records \cup {r.request_id}
      /\ DOMAIN idempotency' = DOMAIN idempotency \cup {AgentProofs!KeyOf(r)}
      /\ records'[r.request_id].request = r
  BY <1>4, <1>6, <1>7, SubmitRecords
<1>9. AgentInv' /\ \A i \in DOMAIN records : AgentProofs!Kept(i)
  BY <1>0, <1>8, AgentStep
<1>. DEFINE rec == records'[r.request_id]
<1>10. AnswerTo(r) = [status |-> rec.status, error_category |-> rec.error_category]
  BY <1>8 DEF AnswerTo
<1>11. rec.status \in AgentProofs!ActionStatuses /\ rec.error_category \in AgentProofs!ErrorCategories
  BY <1>8, <1>9 DEF AgentInv, AgentProofs!TypeOK, AgentProofs!RecordType
<1>12. AnswerTo(r) \in Results /\ AnswerTo(r) # Pending
  BY <1>10, <1>11, ResultsDiffer DEF Results
<1>13. calls[k] \in CallRecords /\ calls \in Seq(CallRecords)
  BY <1>0 DEF CallsInv, Calls
<1>. DEFINE c == [calls[k] EXCEPT !.result = AnswerTo(r)]
<1>14. /\ c \in CallRecords /\ c.result = AnswerTo(r)
       /\ c.turn = calls[k].turn /\ c.action = calls[k].action
  BY <1>12, <1>13 DEF CallRecords
<1>15. calls' = [calls EXCEPT ![k] = c]
  BY <1>7
<1>. HIDE DEF c
<1>16. /\ calls' \in Seq(CallRecords) /\ Len(calls') = Len(calls) /\ Calls' = Calls
       /\ calls'[k] = c /\ \A j \in Calls : j # k => calls'[j] = calls[j]
  BY <1>13, <1>14, <1>15 DEF Calls
<1>17. CallsInv'
  <2>1. ASSUME NEW j \in Calls PROVE CallInv(j)'
    BY <1>0, <1>7, <1>12, <1>14, <1>16, CallStays
  <2>. QED
    BY <1>0, <1>16, <2>1 DEF CallsInv
<1>18. Submitted' = Submitted \cup {k}
  <2>1. \A j \in Calls : j # k => (j \in Submitted' <=> j \in Submitted)
    BY <1>7, <1>16 DEF Submitted
  <2>2. k \in Submitted'
    BY <1>3, <1>7, <1>12, <1>14, <1>16 DEF Submitted
  <2>. QED
    BY <1>16, <2>1, <2>2 DEF Submitted
<1>19. \A j \in Calls : ActionOf(j)' = ActionOf(j) /\ IdOf(j)' = IdOf(j)
  BY <1>14, <1>16 DEF ActionOf, IdOf
<1>20. \A j \in Calls : IsWhatWasProposed(calls[j].action, calls[j].turn)
                          => IsWhatWasProposed(calls[j].action, calls[j].turn)'
  BY <1>7, <1>14, <1>16 DEF IsWhatWasProposed
<1>21. IdOf(k) = r.request_id
  BY DEF IdOf
<1>. HIDE DEF r, rec
<1>22. DOMAIN records' = {IdOf(j)' : j \in Submitted'}
  <2>1. DOMAIN records = {IdOf(j) : j \in Submitted}
    BY <1>0 DEF RecordsInv, OneActionPerAuthorization
  <2>2. {IdOf(j)' : j \in Submitted'} = {IdOf(j) : j \in Submitted} \cup {IdOf(k)}
    BY <1>5, <1>18, <1>19
  <2>. QED
    BY <1>8, <1>21, <2>1, <2>2
<1>23. \A i, j \in Submitted' : IdOf(i)' = IdOf(j)' => i = j
  <2>1. \A j \in Submitted' : j \in Calls /\ (j \in Submitted \/ j = k)
    BY <1>5, <1>18
  <2>2. \A j \in Submitted : IdOf(j) # IdOf(k)
    <3>1. \A j \in Submitted : IdOf(j) \in DOMAIN records
      BY <1>0 DEF RecordsInv, OneActionPerAuthorization
    <3>. QED
      BY <1>6, <1>21, <3>1 DEF AgentProofs!IsNew
  <2>3. \A i, j \in Submitted : IdOf(i) = IdOf(j) => i = j
    BY <1>0 DEF RecordsInv, OneActionPerAuthorization
  <2>. QED
    BY <1>19, <2>1, <2>2, <2>3
<1>24. ASSUME NEW j \in Submitted'
       PROVE  /\ records'[IdOf(j)'].request = ActionOf(j)'
              /\ IsWhatWasProposed(calls[j].action, calls[j].turn)'
  <2>1. CASE j = k
    BY <1>4, <1>8, <1>19, <1>20, <1>21, <2>1 DEF r
  <2>2. CASE j \in Submitted
    <3>1. /\ IdOf(j) \in DOMAIN records /\ records[IdOf(j)].request = ActionOf(j)
          /\ IsWhatWasProposed(calls[j].action, calls[j].turn)
      BY <1>0, <2>2 DEF RecordsInv, OneActionPerAuthorization
    <3>2. j \in Calls /\ ActionOf(j)' = ActionOf(j) /\ IdOf(j)' = IdOf(j)
      BY <1>5, <1>19, <2>2
    <3>3. records'[IdOf(j)].request = records[IdOf(j)].request
      BY <1>9, <3>1 DEF AgentProofs!Kept
    <3>. QED
      BY <1>20, <3>1, <3>2, <3>3
  <2>. QED
    BY <1>18, <2>1, <2>2
<1>25. DOMAIN idempotency' = {<<SessionId, Drawn[2 * j]>> : j \in Submitted'}
  BY <1>0, <1>4, <1>8, <1>18 DEF RecordsInv
<1>26. RecordsInv'
  BY <1>22, <1>23, <1>24, <1>25 DEF RecordsInv, OneActionPerAuthorization
<1>27. \A j \in Submitted : calls'[j] = calls[j]
  BY <1>5, <1>16
<1>. QED
  BY <1>3, <1>5, <1>9, <1>10, <1>16, <1>17, <1>18, <1>21, <1>26, <1>27 DEF c, rec
-----------------------------------------------------------------------------
(* The invariant of the composition *)

\* How the answers and the records move in a step: a call is answered with what the
\* agent has just recorded, and keeps that answer while the record moves on.
AnswersMove ==
  /\ \A i \in DOMAIN records : AgentProofs!Kept(i)
  /\ \A j \in Submitted' :
       IF j \in Submitted
         THEN calls'[j] = calls[j]
         ELSE LET rec == records'[IdOf(j)']
              IN  calls'[j].result = [status |-> rec.status, error_category |-> rec.error_category]

LEMMA SessionStep ==
  ASSUME SessionInv, [Next]_vars
  PROVE  SessionInv' /\ AnswersMove
<1>1. SentInv' /\ SentStays
  BY SentStep DEF SessionInv
<1>2. closed' \in BOOLEAN /\ busy' \in BOOLEAN /\ skew' = skew /\ hasAgent' = hasAgent
  BY DEF SessionInv, Next, vars, conversation, session, Admit, Break, Delegated, Answer, Fail,
     Authorize, Submit, Time, Drive, Conversation!Admit, Conversation!Break,
     Conversation!Release, Conversation!Close, Conversation!Clear, Conversation!Answer
<1>. SUFFICES (AgentInv /\ CallsInv /\ RecordsInv)' /\ AnswersMove
  BY <1>1, <1>2 DEF SessionInv
<1>. DEFINE Goal == (AgentInv /\ CallsInv /\ RecordsInv)' /\ AnswersMove
<1>3. ASSUME AgentInv', AgentProofs!NoNewRecord, \A i \in DOMAIN records : AgentProofs!Kept(i),
             UNCHANGED calls
      PROVE  Goal
  <2>1. CallsInv' /\ RecordsInv'
    BY <1>1, <1>2, <1>3, CallsUnchanged
  <2>2. Submitted' = Submitted
    BY <1>2, <1>3 DEF Submitted, Calls
  <2>. QED
    BY <1>3, <2>1, <2>2 DEF AnswersMove
<1>4. ASSUME UNCHANGED <<agent, calls>> PROVE Goal
  BY <1>3, <1>4, AgentUnchanged
<1>5. Admit \/ Break \/ Delegated \/ UNCHANGED vars => UNCHANGED <<agent, calls>>
  BY DEF Admit, Break, Delegated, vars, session
<1>6. \A n, x : Answer(n, x) \/ Fail(n, x) => UNCHANGED <<agent, calls>>
  BY DEF Answer, Fail
<1>7. ASSUME NEW n \in Conversation!Turns, NEW turn \in TurnIds, Authorize(n, turn)
      PROVE  Goal
  <2>1. UNCHANGED agent
    BY <1>7 DEF Authorize
  <2>2. AgentInv' /\ \A i \in DOMAIN records : AgentProofs!Kept(i)
    BY <2>1, AgentUnchanged
  <2>3. CallsInv' /\ RecordsInv' /\ Submitted' = Submitted
    BY <1>1, <1>7, AuthorizeKeeps
  <2>4. \A j \in Submitted : calls'[j] = calls[j]
    BY <1>7 DEF Authorize, Submitted, Calls, SessionInv, CallsInv
  <2>. QED
    BY <2>2, <2>3, <2>4 DEF AnswersMove
<1>8. CASE Submit
  <2>. DEFINE k == Len(calls)
  <2>1. AgentInv' /\ CallsInv' /\ RecordsInv'
    BY <1>1, <1>8, SubmitKeeps
  <2>2. /\ Submitted' = Submitted \cup {k} /\ k \notin Submitted
        /\ \A j \in Submitted : calls'[j] = calls[j]
        /\ \A i \in DOMAIN records : AgentProofs!Kept(i)
    BY <1>1, <1>8, SubmitKeeps
  <2>3. PICK rec : /\ rec = records'[IdOf(k)]
                   /\ calls'[k] = [calls[k] EXCEPT !.result =
                        [status |-> rec.status, error_category |-> rec.error_category]]
    BY <1>1, <1>8, SubmitKeeps
  <2>. PICK m \in Nat : m = k
    BY DEF SessionInv, CallsInv
  <2>4. calls[m] \in CallRecords
    BY <2>2 DEF Submitted, SessionInv, CallsInv, Calls, Submit, Idle
  <2>5. /\ calls'[m].result = [status |-> rec.status, error_category |-> rec.error_category]
        /\ calls'[m].action = calls[m].action
    BY <2>3, <2>4 DEF CallRecords
  <2>6. IdOf(m)' = IdOf(m)
    BY <2>5 DEF IdOf, ActionOf
  <2>. QED
    BY <2>1, <2>2, <2>3, <2>5, <2>6 DEF AnswersMove
<1>9. ASSUME NEW id, Drive(id) PROVE Goal
  <2>1. [AgentProofs!Next]_(AgentProofs!vars) /\ AgentProofs!NoNewRecord
    BY <1>9, DriveRecordsNothing DEF Drive, SessionInv
  <2>2. UNCHANGED calls
    BY <1>9 DEF Drive, session
  <2>. QED
    BY <1>3, <2>1, <2>2, AgentStep DEF SessionInv
<1>10. CASE Time
  <2>1. [AgentProofs!Next]_(AgentProofs!vars) /\ AgentProofs!NoNewRecord
    BY <1>10, TimeRecordsNothing DEF Time
  <2>2. UNCHANGED calls
    BY <1>10 DEF Time, session
  <2>. QED
    BY <1>3, <2>1, <2>2, AgentStep DEF SessionInv
<1>. QED
  BY <1>4, <1>5, <1>6, <1>7, <1>8, <1>9, <1>10 DEF Next

LEMMA SessionInvariance == Spec => []SessionInv
BY InitHolds, SessionStep, PTL DEF Spec

\* Every variable keeps its type.
THEOREM TypeCorrect == Spec => []TypeOK
<1>1. SessionInv => TypeOK
  <2>. SUFFICES ASSUME SessionInv PROVE TypeOK
    OBVIOUS
  <2>1. /\ closed \in BOOLEAN /\ busy \in BOOLEAN /\ hasAgent \in BOOLEAN /\ skew \in Skews
        /\ Len(sent) = Len(outcome)
    BY DEF SessionInv, SentInv
  <2>2. \A n \in 1..Len(sent) : sent[n] \in SentRecords
    BY DEF SessionInv, SentInv
  <2>3. \A n \in 1..Len(sent) :
          sent[n].status \in Conversation!TurnStatuses \cup {"pending", "raised"}
    BY <2>2, SentStatuses
  <2>4. ASSUME NEW k \in Calls
        PROVE  /\ calls[k].turn \in 1..Len(sent)
               /\ sent[calls[k].turn].status \notin {"pending", "raised"}
               /\ calls[k].result.status \in AnswerStatuses \cup {"pending", "raised"}
               /\ calls[k].result = Pending => hasAgent /\ k = Len(calls)
    <3>1. CallInv(k) /\ calls[k] \in CallRecords
      BY DEF SessionInv, CallsInv, Calls
    <3>2. calls[k].turn \in 1..Len(sent) /\ sent[calls[k].turn] \notin {Pending, Raised}
      BY <3>1 DEF CallInv
    <3>3. sent[calls[k].turn].status \notin {"pending", "raised"}
      BY <2>2, <3>2, SentStatuses
    <3>4. calls[k].result \in Results
      BY <3>1 DEF CallRecords
    <3>5. AgentProofs!ActionStatuses \subseteq AnswerStatuses
      BY DEF AgentProofs!ActionStatuses, AgentProofs!TerminalStatuses, AnswerStatuses, Terminal
    <3>6. calls[k].result.status \in AnswerStatuses \cup {"pending", "raised"}
      BY <3>4, <3>5 DEF Results, Pending, Raised
    <3>. QED
      BY <3>1, <3>2, <3>3, <3>6 DEF CallInv
  <2>. QED
    BY <2>1, <2>3, <2>4 DEF TypeOK
<1>. QED
  BY <1>1, SessionInvariance, PTL

\* Every authorization that reaches the agent is recorded as one action of its own, of
\* what its turn proposed, and the agent has no other: whatever the model answers,
\* whoever authorizes and however often.
THEOREM OneActionCorrect == Spec => []OneActionPerAuthorization
<1>1. SessionInv => OneActionPerAuthorization
  BY DEF SessionInv, RecordsInv
<1>. QED
  BY <1>1, SessionInvariance, PTL

LEMMA AnswersStep ==
  ASSUME SessionInv, AnswersStayTrue, [Next]_vars
  PROVE  AnswersStayTrue'
<1>1. SessionInv' /\ AnswersMove
  BY SessionStep
<1>. SUFFICES ASSUME NEW k \in Submitted'
              PROVE  /\ records'[IdOf(k)'].status \in MayFollow(calls'[k].result.status)
                     /\ calls'[k].result.status \in Terminal
                          => records'[IdOf(k)'].error_category = calls'[k].result.error_category
  BY DEF AnswersStayTrue, MayFollow
<1>2. CASE k \in Submitted
  <2>1. calls'[k] = calls[k] /\ IdOf(k)' = IdOf(k)
    BY <1>1, <1>2 DEF AnswersMove, IdOf, ActionOf
  <2>2. /\ IdOf(k) \in DOMAIN records
        /\ records[IdOf(k)].status \in MayFollow(calls[k].result.status)
        /\ calls[k].result.status \in Terminal
             => records[IdOf(k)].error_category = calls[k].result.error_category
    BY <1>2 DEF SessionInv, RecordsInv, OneActionPerAuthorization, AnswersStayTrue
  <2>3. AgentProofs!Kept(IdOf(k))
    BY <1>1, <2>2 DEF AnswersMove
  <2>. DEFINE s == records[IdOf(k)].status
              t == records'[IdOf(k)].status
              said == calls[k].result.status
  <2>4. s \in AgentProofs!ActionStatuses
    BY <2>2 DEF SessionInv, AgentInv, AgentProofs!TypeOK, AgentProofs!RecordType
  <2>5. t = s \/ t \in AgentProofs!Lifecycle!Successors(s)
    BY <2>3 DEF AgentProofs!Kept, AgentProofs!Moves
  <2>. HIDE DEF s, t, said
  <2>6. s \in MayFollow(said) => t \in MayFollow(said)
    BY <2>4, <2>5
    DEF MayFollow, AgentProofs!Lifecycle!Successors, AgentProofs!Lifecycle!Terminal,
        AgentProofs!ActionStatuses, AgentProofs!TerminalStatuses, AnswerStatuses, Terminal
  <2>7. said \in Terminal /\ s \in MayFollow(said) => s \in AgentProofs!TerminalStatuses
    BY DEF MayFollow, Terminal, AgentProofs!TerminalStatuses
  <2>8. s \in AgentProofs!TerminalStatuses => records'[IdOf(k)] = records[IdOf(k)]
    BY <2>3 DEF AgentProofs!Kept, s
  <2>. QED
    BY <2>1, <2>2, <2>6, <2>7, <2>8 DEF s, t, said
<1>3. CASE k \notin Submitted
  <2>1. LET rec == records'[IdOf(k)']
        IN  calls'[k].result = [status |-> rec.status, error_category |-> rec.error_category]
    BY <1>1, <1>3 DEF AnswersMove
  <2>2. IdOf(k)' \in DOMAIN records'
    BY <1>1 DEF SessionInv, RecordsInv, OneActionPerAuthorization
  <2>3. records'[IdOf(k)'].status \in AgentProofs!ActionStatuses
    BY <1>1, <2>2 DEF SessionInv, AgentInv, AgentProofs!TypeOK, AgentProofs!RecordType
  <2>4. \A s \in AgentProofs!ActionStatuses : s \in MayFollow(s)
    BY DEF MayFollow, AgentProofs!ActionStatuses, AgentProofs!TerminalStatuses, AnswerStatuses, Terminal
  <2>. QED
    BY <2>1, <2>3, <2>4
<1>. QED
  BY <1>2, <1>3

\* What authorize has answered stays true, whatever becomes of the action later.
THEOREM AnswersCorrect == Spec => []AnswersStayTrue
<1>1. Init => AnswersStayTrue
  BY DEF Init, AnswersStayTrue, Submitted, Calls
<1>2. SessionInv /\ AnswersStayTrue /\ [Next]_vars => AnswersStayTrue'
  BY AnswersStep
<1>. QED
  BY <1>1, <1>2, SessionInvariance, PTL DEF Spec

-----------------------------------------------------------------------------
(* The two clocks *)

\* A request carries the time at which it was authorized, by the session's clock.
StampInv ==
  config.clock = "fake" =>
    \A k \in Calls : calls[k].action # Nothing => ActionOf(k).created_at = calls[k].at + skew

LEMMA WholeTicks ==
  ASSUME NEW n \in Int
  PROVE  (n * TenthsPerTick) \div TenthsPerTick = n
BY SessionAssumption

LEMMA StampStep ==
  ASSUME SessionInv, StampInv, [Next]_vars
  PROVE  StampInv'
<1>1. skew' = skew /\ config' = config
  BY DEF Next, vars, agent, session, Admit, Break, Delegated, Answer, Fail, Authorize, Submit,
     Time, Drive, Agent!Submit, Agent!Replay, Agent!RejectConflict, Agent!RejectUnavailable,
     Agent!ExpireOnSubmit, Agent!Observe, Agent!Stop, Agent!StartNow, Agent!RejectBusy,
     Agent!Enqueue, Agent!Immediate, Agent!OnlyAnswers, Agent!vars, Agent!Complete, Agent!Fail,
     Agent!Cancel, Agent!RejectUnknown, Agent!RejectNotRunning, Agent!CancelWaiting,
     Agent!CancelIgnored, Agent!Finish, Agent!Tick, Agent!StepWall
<1>2. ASSUME Calls' = Calls,
             \A k \in Calls : calls'[k].action = calls[k].action /\ calls'[k].at = calls[k].at
      PROVE  StampInv'
  BY <1>1, <1>2 DEF StampInv, ActionOf
<1>3. UNCHANGED calls => StampInv'
  BY <1>2 DEF Calls
<1>4. CASE Submit
  <2>1. PICK x : calls' = [calls EXCEPT ![Len(calls)].result = x]
    BY <1>4 DEF Submit
  <2>2. calls \in Seq(CallRecords)
    BY DEF SessionInv, CallsInv
  <2>3. Len(calls') = Len(calls)
    BY <2>1, <2>2
  <2>4. \A k \in Calls : calls[k] \in CallRecords
    BY <2>2 DEF Calls
  <2>5. ASSUME NEW k \in Calls
        PROVE  calls'[k].action = calls[k].action /\ calls'[k].at = calls[k].at
    <3>1. calls'[k] = calls[k] \/ calls'[k] = [calls[k] EXCEPT !.result = x]
      BY <2>1, <2>2 DEF Calls
    <3>. QED
      BY <2>4, <3>1 DEF CallRecords
  <2>. QED
    BY <1>2, <2>3, <2>5 DEF Calls
<1>5. ASSUME NEW n \in Conversation!Turns, NEW turn \in TurnIds, Authorize(n, turn)
      PROVE  StampInv'
  <2>. DEFINE e == Outcome(n, turn)
  <2>1. e \in CallRecords /\ calls' = Append(calls, e)
    BY <1>5, AuthorizeStep DEF SessionInv
  <2>2. e.action = Nothing \/ e = Call(n, Request(n, turn), e.result)
    BY DEF Outcome, Call
  <2>3. config.clock = "fake" => wall = mono
    BY DEF SessionInv, AgentInv, AgentProofs!ClocksAgree
  <2>4. wall + skew \in Int /\ mono + skew \in Int
    BY SessionAssumption DEF SessionInv, AgentInv, Agent!ConfigAssumption, AgentProofs!TypeOK
  <2>5. ToAgent(Request(n, turn)).created_at = wall + skew
    BY <2>4, WholeTicks DEF ToAgent, Request, Built, Num, Now
  <2>6. Call(n, Request(n, turn), e.result).at = mono
        /\ Call(n, Request(n, turn), e.result).action = Request(n, turn)
    BY DEF Call
  <2>. HIDE DEF e
  <2>7. config.clock = "fake" /\ e.action # Nothing => ToAgent(e.action).created_at = e.at + skew
    BY <2>2, <2>3, <2>5, <2>6
  <2>8. /\ \A k \in Calls : calls'[k] = calls[k]
        /\ \A k \in Calls' : k \in Calls \/ calls'[k] = e
    BY <2>1 DEF SessionInv, CallsInv, Calls
  <2>. QED
    BY <1>1, <2>7, <2>8 DEF StampInv, ActionOf
<1>6. Admit \/ Break \/ Delegated \/ Time \/ UNCHANGED vars => UNCHANGED calls
  BY DEF Admit, Break, Delegated, Time, vars, session
<1>7. \A n, x : Answer(n, x) \/ Fail(n, x) => UNCHANGED calls
  BY DEF Answer, Fail
<1>8. \A id : Drive(id) => UNCHANGED calls
  BY DEF Drive, session
<1>. QED
  BY <1>3, <1>4, <1>5, <1>6, <1>7, <1>8 DEF Next

\* However far the session's clock is from the agent's, and however long a motion waits,
\* it starts no later after its authorization than the time to live and that distance.
THEOREM StartsCorrect == Spec => []MotionsStartInTime
<1>1. Init => StampInv
  BY DEF Init, StampInv, Calls
<1>2. SessionInv /\ StampInv /\ [Next]_vars => StampInv'
  BY StampStep
<1>3. SessionInv /\ StampInv => MotionsStartInTime
  <2>. SUFFICES ASSUME SessionInv, StampInv, NEW k \in Submitted, config.clock = "fake",
                       records[IdOf(k)].request.capability \in {"stand", "walk"},
                       records[IdOf(k)].status \in {"running", "completed", "failed"}
                PROVE  records[IdOf(k)].started_mono - calls[k].at <= Ttl + skew
    BY DEF MotionsStartInTime
  <2>1. IdOf(k) \in DOMAIN records /\ records[IdOf(k)].request = ActionOf(k)
    BY DEF SessionInv, RecordsInv, OneActionPerAuthorization
  <2>2. k \in Calls /\ calls[k].action # Nothing /\ calls[k] \in CallRecords
    BY DEF Submitted, SessionInv, CallsInv, Calls
  <2>3. ActionOf(k) \in AgentRequests
    BY <2>2 DEF SessionInv, CallsInv, CallInv
  <2>4. ActionOf(k).ttl_seconds = Ttl /\ ActionOf(k).created_at = calls[k].at + skew
    BY <2>2, <2>3 DEF AgentRequests, StampInv
  <2>5. records[IdOf(k)].started_mono <= ActionOf(k).created_at + ActionOf(k).ttl_seconds
    BY <2>1
    DEF SessionInv, AgentInv, AgentProofs!ClocksAgree, AgentProofs!StartedInTime,
        AgentProofs!IsMotion, AgentProofs!MotionCapabilities
  <2>6. calls[k].at \in Int /\ records[IdOf(k)].started_mono \in Int /\ skew \in Int
    BY <2>1, <2>2, SessionAssumption
    DEF CallRecords, SessionInv, AgentInv, AgentProofs!TypeOK, AgentProofs!RecordType,
        Agent!ConfigAssumption
  <2>. QED
    BY <2>4, <2>5, <2>6, SessionAssumption
<1>. QED
  BY <1>1, <1>2, <1>3, SessionInvariance, PTL DEF Spec
-----------------------------------------------------------------------------
(* Stops *)

LEMMA StopSettles ==
  ASSUME AgentInv, NEW r \in AgentRequests, AgentProofs!Stop(r)
  PROVE  /\ records'[r.request_id].status = "completed"
         /\ \A id \in DOMAIN records' : records'[id].status \in Terminal
<1>1. r.request_id \notin DOMAIN records
  BY DEF AgentProofs!Stop, AgentProofs!Admissible, AgentProofs!IsNew
<1>2. /\ records'[r.request_id].status = "completed"
      /\ \A id \in DOMAIN records' :
           id = r.request_id
             \/ (id \in DOMAIN records /\ records'[id] = AgentProofs!Preempted(id))
  BY <1>1 DEF AgentProofs!Stop, AgentProofs!Register, AgentProofs!NewRecord
<1>3. ASSUME NEW id \in DOMAIN records PROVE AgentProofs!Preempted(id).status \in Terminal
  <2>1. records[id] \in AgentProofs!RecordType
    BY DEF AgentInv, AgentProofs!TypeOK
  <2>2. /\ AgentProofs!FinishedRecord(records[id], "cancelled", "cancelled").status = "cancelled"
        /\ AgentProofs!DroppedRecord(records[id], "cancelled", "cancelled").status = "cancelled"
    BY <2>1 DEF AgentProofs!FinishedRecord, AgentProofs!DroppedRecord, AgentProofs!RecordType
  <2>3. records[id].status = "running" => id = running
    BY DEF AgentInv, AgentProofs!ResourceInv, AgentProofs!MotionResource,
       AgentProofs!RunningIsTheSlot, AgentProofs!WithStatus
  <2>4. records[id].status = "accepted" => \E k \in 1..Len(waiting) : waiting[k] = id
    BY DEF AgentInv, AgentProofs!ResourceInv, AgentProofs!MotionResource,
       AgentProofs!QueueIsTheAccepted, AgentProofs!Waits
  <2>5. records[id].status \in Terminal \cup {"running", "accepted"}
    BY <2>1 DEF AgentProofs!RecordType, AgentProofs!ActionStatuses,
       AgentProofs!TerminalStatuses, Terminal
  <2>. QED
    BY <2>2, <2>3, <2>4, <2>5 DEF AgentProofs!Preempted, Terminal
<1>. QED
  BY <1>2, <1>3 DEF Terminal

\* The step that answers a call is the submission of the newest one.
LEMMA AnsweredBySubmit ==
  ASSUME SessionInv, [Next]_vars, NEW k \in Calls,
         calls[k].result = Pending, calls'[k].result # Pending
  PROVE  Submit /\ k = Len(calls)
<1>1. k = Len(calls)
  BY DEF SessionInv, CallsInv, CallInv
<1>2. Admit \/ Break \/ Delegated \/ Time \/ UNCHANGED vars => UNCHANGED calls
  BY DEF Admit, Break, Delegated, Time, vars, session
<1>3. \A n, x : ~(Answer(n, x) \/ Fail(n, x))
  BY DEF Answer, Fail
<1>4. \A n, turn : ~Authorize(n, turn)
  BY DEF Authorize, Idle
<1>5. \A id : ~Drive(id)
  BY DEF Drive, Idle
<1>. QED
  BY <1>1, <1>2, <1>3, <1>4, <1>5 DEF Next

\* An authorized stop that reaches the agent in time leaves nothing alive.
THEOREM StopsCorrect == Spec => StopsTakeEffect
<1>. DEFINE StopStep ==
       \A k \in Calls :
         (/\ calls[k].result = Pending /\ calls'[k].result # Pending
          /\ calls[k].action.capability = "stop"
          /\ config.target_available /\ config.clock = "fake"
          /\ mono - calls[k].at <= Ttl + skew)
           => /\ calls'[k].result.status = "completed"
              /\ \A id \in DOMAIN records' : records'[id].status \in Terminal
<1>1. ASSUME SessionInv, StampInv, [Next]_vars PROVE StopStep
  <2>. SUFFICES ASSUME NEW k \in Calls,
                       calls[k].result = Pending, calls'[k].result # Pending,
                       calls[k].action.capability = "stop",
                       config.target_available, config.clock = "fake",
                       mono - calls[k].at <= Ttl + skew
                PROVE  /\ calls'[k].result.status = "completed"
                       /\ \A id \in DOMAIN records' : records'[id].status \in Terminal
    OBVIOUS
  <2>1. Submit /\ k = Len(calls)
    BY <1>1, AnsweredBySubmit
  <2>2. /\ calls[k].action # Nothing /\ ActionOf(k) \in AgentRequests
        /\ calls[k] \in CallRecords
    BY <1>1 DEF SessionInv, CallsInv, CallInv, Calls
  <2>. DEFINE r == ActionOf(k)
  <2>3. AgentProofs!Submit(r)
    BY <2>1, SameSubmit DEF Submit, ActionOf
  <2>4. r.capability = "stop"
    BY DEF ActionOf, ToAgent
  <2>5. ~AgentProofs!IsStale(r)
    <3>1. r.created_at = calls[k].at + skew /\ r.ttl_seconds = Ttl
      BY <1>1, <2>2 DEF StampInv, AgentRequests
    <3>2. wall = mono /\ wall \in Int /\ calls[k].at \in Int /\ skew \in Int
      BY <1>1, <2>2, SessionAssumption
      DEF SessionInv, AgentInv, AgentProofs!ClocksAgree, AgentProofs!TypeOK, CallRecords,
          Agent!ConfigAssumption
    <3>. HIDE DEF r
    <3>. QED
      BY <3>1, <3>2, SessionAssumption DEF AgentProofs!IsStale
  <2>6. AgentProofs!IsNew(r)
    BY <1>1, NewToTheAgent
  <2>7. AgentProofs!Stop(r)
    <3>. HIDE DEF r
    <3>. QED
      BY <2>3, <2>4, <2>5, <2>6
      DEF AgentProofs!Submit, AgentProofs!Replay, AgentProofs!RejectConflict, AgentProofs!IsNew,
          AgentProofs!RejectUnavailable, AgentProofs!TargetAvailable, AgentProofs!ExpireOnSubmit,
          AgentProofs!Observe, AgentProofs!StartNow, AgentProofs!RejectBusy, AgentProofs!Enqueue,
          AgentProofs!IsMotion, AgentProofs!MotionCapabilities
  <2>8. /\ records'[r.request_id].status = "completed"
        /\ \A id \in DOMAIN records' : records'[id].status \in Terminal
    BY <1>1, <2>2, <2>7, StopSettles DEF SessionInv
  <2>9. calls'[k].result.status = records'[r.request_id].status
    <3>1. SentStays
      BY <1>1, SentStep DEF SessionInv
    <3>2. PICK rec : /\ rec = records'[IdOf(Len(calls))]
                     /\ calls'[Len(calls)] =
                          [calls[Len(calls)] EXCEPT !.result =
                             [status |-> rec.status, error_category |-> rec.error_category]]
      BY <1>1, <2>1, <3>1, SubmitKeeps
    <3>. QED
      BY <2>1, <2>2, <3>2 DEF CallRecords, IdOf
  <2>. QED
    BY <2>8, <2>9
<1>2. Init => StampInv
  BY DEF Init, StampInv, Calls
<1>3. SessionInv /\ StampInv /\ [Next]_vars => StampInv'
  BY StampStep
<1>. QED
  BY <1>1, <1>2, <1>3, SessionInvariance, PTL DEF Spec, StopsTakeEffect
-----------------------------------------------------------------------------
(***************************************************************************)
(* The parts of the composition.  Seen from either part alone, a behaviour *)
(* of the composition is one of that part's own specification, so whatever *)
(* was shown of the part holds inside.                                     *)
(***************************************************************************)

LEMMA SubmitIsTheAgents ==
  ASSUME SessionInv, Submit
  PROVE  AgentProofs!Next
<1>1. PICK k \in Calls : calls[k].result = Pending
  BY DEF Submit, Idle
<1>2. CallInv(k) /\ k = Len(calls) /\ calls[k].action # Nothing
  BY <1>1 DEF SessionInv, CallsInv, CallInv, Calls
<1>3. ActionOf(k) \in AgentRequests /\ Agent!Submit(ActionOf(k))
  BY <1>2 DEF CallInv, Submit, ActionOf
<1>. QED
  BY <1>1, <1>3, NewToTheAgent, SubmitRecords

LEMMA AgentMoves ==
  ASSUME SessionInv, [Next]_vars
  PROVE  [AgentProofs!Next]_(AgentProofs!vars)
<1>1. UNCHANGED agent => UNCHANGED AgentProofs!vars
  BY DEF agent, AgentProofs!vars
<1>2. Admit \/ Break \/ Delegated \/ UNCHANGED vars => UNCHANGED agent
  BY DEF Admit, Break, Delegated, vars
<1>3. /\ \A n, x : Answer(n, x) \/ Fail(n, x) => UNCHANGED agent
      /\ \A n, turn : Authorize(n, turn) => UNCHANGED agent
  BY DEF Answer, Fail, Authorize
<1>4. ASSUME NEW id, Drive(id) PROVE [AgentProofs!Next]_(AgentProofs!vars)
  BY <1>4, DriveRecordsNothing DEF Drive, SessionInv
<1>5. Time => [AgentProofs!Next]_(AgentProofs!vars)
  BY TimeRecordsNothing DEF Time
<1>. QED
  BY <1>1, <1>2, <1>3, <1>4, <1>5, SubmitIsTheAgents DEF Next

\* However the operator authorizes and whatever the texts are, the agent of the
\* composition does what FakeAgent does, with the requests authorize can build.
THEOREM AgentIsTheAgent == Spec => AgentProofs!Spec
<1>1. Init => AgentProofs!Init
  BY SameInit DEF Init
<1>2. SessionInv /\ [Next]_vars => [AgentProofs!Next]_(AgentProofs!vars)
  BY AgentMoves
<1>. QED
  BY <1>1, <1>2, SessionInvariance, PTL DEF Spec, AgentProofs!Spec

\* So its motions stay exclusive and first come first served, their reported spans fit
\* together up to a microsecond, and its log tells the story of every authorized action.
COROLLARY AgentUsedWell ==
  Spec => [](/\ AgentProofs!MotionResource
             /\ AgentProofs!OneMotionInTheLog
             /\ AgentProofs!FirstInFirstStarted
             /\ AgentProofs!LogTellsEachStoryOnce
             /\ AgentProofs!MotionTimeFits)
<1>1. AgentProofs!Spec => []AgentProofs!MotionResource
  BY RequestsFit, ConfigsFit, AgentProofs!ResourceCorrect
<1>2. AgentProofs!Spec => []AgentProofs!OneMotionInTheLog
  BY RequestsFit, ConfigsFit, AgentProofs!OneMotionCorrect
<1>3. AgentProofs!Spec => []AgentProofs!FirstInFirstStarted
  BY RequestsFit, ConfigsFit, AgentProofs!FirstInCorrect
<1>4. AgentProofs!Spec => []AgentProofs!LogTellsEachStoryOnce
  BY RequestsFit, ConfigsFit, AgentProofs!StoryCorrect
<1>5. AgentProofs!Spec => []AgentProofs!MotionTimeFits
  BY RequestsFit, ConfigsFit, AgentProofs!TimeCorrect
<1>. QED
  BY <1>1, <1>2, <1>3, <1>4, <1>5, AgentIsTheAgent, PTL

\* The conversation inside is the one ConversationSession implements, memory aside.
THEOREM ConversationIsTheConversation == Spec => Conversation!Spec
<1>1. Init => Conversation!Init
  BY DEF Init
<1>2. [Next]_vars => [Conversation!Next]_(Conversation!vars)
  <2>. SUFFICES ASSUME [Next]_vars PROVE [Conversation!Next]_(Conversation!vars)
    OBVIOUS
  <2>1. UNCHANGED conversation => UNCHANGED Conversation!vars
    BY DEF conversation, Conversation!vars
  <2>2. Admit \/ Break \/ Delegated => Conversation!Next
    BY DEF Admit, Break, Delegated, Conversation!Next
  <2>3. \A n \in Conversation!Turns : \A text : Answer(n, text) => Conversation!Next
    BY DEF Answer, Conversation!Next, Conversation!TurnStatuses
  <2>4. \A n \in Conversation!Turns : \A status \in Failures : Fail(n, status) => Conversation!Next
    BY SessionAssumption DEF Fail, Conversation!Next
  <2>5. /\ \A n, turn : Authorize(n, turn) => UNCHANGED conversation
        /\ \A id : Drive(id) => UNCHANGED conversation
        /\ Submit \/ Time \/ UNCHANGED vars => UNCHANGED conversation
    BY DEF Authorize, Drive, Submit, Time, vars
  <2>. QED
    BY <2>1, <2>2, <2>3, <2>4, <2>5 DEF Next
<1>. QED
  BY <1>1, <1>2, PTL DEF Spec, Conversation!Spec
=============================================================================
