---------------------------- MODULE ActionSession ----------------------------
(***************************************************************************)
(* ActionSession (conversation/execution.py): a conversation whose texts   *)
(* may be proposals, and an agent that runs the proposals the operator     *)
(* authorizes, each with its own clock.                                    *)
(*                                                                         *)
(* The conversation is the abstract one, ConversationTurns, which          *)
(* ConversationSession is shown to implement; the agent is FakeAgent.      *)
(* Any thread may send, close or clear.  The agent is single-threaded, so  *)
(* one thread, the operator's, authorizes and drives the motions, one call *)
(* after the other.  An authorization is two steps: time passes between    *)
(* the request being built and the agent reading its clock.                *)
(***************************************************************************)
EXTENDS ActionSchema

CONSTANTS
  Texts,             \* what the model may answer
  Failures,          \* the statuses a turn may fail with
  TurnIds,           \* what authorize may be passed as turn_id
  Drawn,             \* the uuid4 values authorize draws, in order, all different
  Skews,             \* the session's clock may be this far ahead of the agent's
  TenthsPerTick,     \* what the agent's clock counts, in tenths of a second
  MaxTurns, MaxCalls,                 \* bounds on the turns and authorizations
  Configs, MaxTime, Micro, None       \* those of FakeAgent

VARIABLES
  closed, busy, outcome,              \* the conversation
  config, records, idempotency, running, waiting, events, wall, mono,  \* the agent
  hasAgent,          \* an execution agent was given to the constructor
  skew,              \* the session's clock less the agent's
  sent,              \* what send returned for every turn
  calls              \* what authorize made of every proposal, in order

conversation == <<closed, busy, outcome>>
agent == <<config, records, idempotency, running, waiting, events, wall, mono>>
session == <<hasAgent, skew, sent, calls>>
vars == <<conversation, agent, session>>

-----------------------------------------------------------------------------
\* What the conversation remembers, history and clear, has no part here.
Conversation == INSTANCE ConversationTurns WITH remembered <- {}

\* A request as the agent reads it, with the strings and numbers for themselves.  The
\* version is always the same and the priority follows from the capability.
ToAgent(r) ==
  [request_id |-> r.request_id.text, session_id |-> r.session_id.text,
   idempotency_key |-> r.idempotency_key.text, turn_id |-> r.turn_id,
   capability |-> r.capability, parameters |-> r.parameters,
   created_at |-> r.created_at.tenths \div TenthsPerTick,
   ttl_seconds |-> r.ttl_seconds.tenths \div TenthsPerTick]

Ttl == DefaultTtl \div TenthsPerTick

\* Every request that may reach the agent: the constant Requests of FakeAgent.
AgentRequests ==
  [request_id : FreshIds, session_id : {SessionId}, idempotency_key : FreshIds,
   turn_id : TurnIds, capability : Capabilities,
   parameters : {LET p == ProposalIn(text) IN Parameters(p.capability, p.parameters) :
                   text \in {t \in Texts : IsProposal(t)}},
   created_at : Int, ttl_seconds : {Ttl}]
Agent == INSTANCE FakeAgent WITH Requests <- AgentRequests

ASSUME SessionAssumption ==
  /\ MaxTurns \in Nat /\ MaxCalls \in Nat
  /\ TenthsPerTick \in Nat \ {0} /\ Ttl \in Nat \ {0}
  /\ Skews \subseteq Int
  /\ Failures \subseteq Conversation!TurnStatuses \ {"ok"}
  /\ \A i \in 1..(2 * MaxCalls) : Drawn[i] \in FreshIds
  /\ \A i, j \in 1..(2 * MaxCalls) : Drawn[i] = Drawn[j] => i = j
  /\ None \notin FreshIds
  /\ Agent!ConfigAssumption
-----------------------------------------------------------------------------
(* send *)

Pending == [status |-> "pending"]
Raised == [status |-> "raised"]

Admit ==
  /\ Len(outcome) < MaxTurns
  /\ Conversation!Admit
  /\ sent' = Append(sent, Pending)
  /\ UNCHANGED <<agent, hasAgent, skew, calls>>

\* The turn is ok and its text is read for a proposal.  When the text is too deep the
\* caller gets an exception for a turn that was answered and is remembered.
Answer(n, text) ==
  /\ Conversation!Answer(n, "ok")
  /\ sent' = [sent EXCEPT ![n] = IF ParseError(text) = "none"
                                   THEN [status |-> "ok", proposal |-> ProposalIn(text)]
                                   ELSE Raised]
  /\ UNCHANGED <<agent, hasAgent, skew, calls>>

Fail(n, status) ==
  /\ Conversation!Answer(n, status)
  /\ sent' = [sent EXCEPT ![n] = [status |-> status, proposal |-> Nothing]]
  /\ UNCHANGED <<agent, hasAgent, skew, calls>>

\* The session stays busy: its _in_flight is not reset when an exception leaves send.
Break ==
  /\ Conversation!Break /\ UNCHANGED busy
  /\ sent' = [sent EXCEPT ![Conversation!Current] = Raised]
  /\ UNCHANGED <<agent, hasAgent, skew, calls>>

Delegated ==
  /\ Conversation!Release \/ Conversation!Close \/ Conversation!Clear
  /\ UNCHANGED <<agent, session>>
-----------------------------------------------------------------------------
(* authorize *)

Calls == 1..Len(calls)
Idle == \A k \in Calls : calls[k].result # Pending

Rejected(category) == [status |-> "rejected", error_category |-> category]

\* One call of authorize, as it stands when the call is k-th: the proposal it is about,
\* the request it built, if any, and what it answers.  at is when, by the agent's
\* monotonic clock; it is kept for the properties.
Call(n, action, result) == [turn |-> n, action |-> action, result |-> result, at |-> mono]

WrongKey(n, k) == Drawn[2 * n]
Key(n, k) == Drawn[2 * k]

Now == (wall + skew) * TenthsPerTick

Request(n, turn) ==
  LET p == sent[n].proposal
      k == Len(calls) + 1
  IN  Built([capability |-> p.capability, parameters |-> Parameters(p.capability, p.parameters)],
            Drawn[2 * k - 1], Key(n, k), turn, Now)

WrongNoTarget == FALSE
NoTarget == ~hasAgent

\* The errors authorize_action raises are answered, if they are ActionErrors; those of
\* the construction of the request are not.
Outcome(n, turn) ==
  LET p == sent[n].proposal
      error == CheckParameters(p.capability, p.parameters)
  IN  IF p = Nothing THEN Call(n, Nothing, Rejected("invalid_parameters"))
      ELSE IF error \in SchemaErrors THEN Call(n, Nothing, Rejected("invalid_parameters"))
      ELSE IF error # "none" THEN Call(n, Nothing, Raised)
      ELSE IF CheckRequest(Request(n, turn)) # "none" THEN Call(n, Nothing, Raised)
      ELSE IF NoTarget THEN Call(n, Request(n, turn), Rejected("target_unavailable"))
      ELSE Call(n, Request(n, turn), Pending)

\* Neither a closed nor a broken conversation is in the way, nor an earlier call on
\* the same proposal.
Authorize(n, turn) ==
  /\ Idle /\ Len(calls) < MaxCalls
  /\ sent[n].status \notin {"pending", "raised"}
  /\ calls' = Append(calls, Outcome(n, turn))
  /\ UNCHANGED <<conversation, agent, hasAgent, skew, sent>>

WrongAnswerTo(r) == [status |-> "accepted", error_category |-> "none"]
AnswerTo(r) ==
  IF r.request_id \in DOMAIN records' /\ records'[r.request_id].request = r
    THEN [status |-> records'[r.request_id].status,
          error_category |-> records'[r.request_id].error_category]
    ELSE Rejected("idempotency_conflict")

Submit ==
  /\ ~Idle
  /\ LET k == Len(calls)
         r == ToAgent(calls[k].action)
     IN  /\ Agent!Submit(r)
         /\ calls' = [calls EXCEPT ![k].result = AnswerTo(r)]
  /\ UNCHANGED <<conversation, hasAgent, skew, sent>>
-----------------------------------------------------------------------------
(* The agent between two authorizations, and time *)

Drive(id) ==
  /\ Idle
  /\ Agent!Complete(id) \/ Agent!Fail(id) \/ Agent!Cancel(id)
  /\ UNCHANGED <<conversation, session>>

Time ==
  /\ Agent!Tick \/ Agent!StepWall
  /\ UNCHANGED <<conversation, session>>
-----------------------------------------------------------------------------
Init ==
  /\ Conversation!Init /\ Agent!Init
  /\ hasAgent \in BOOLEAN
  /\ skew \in Skews
  /\ sent = <<>>
  /\ calls = <<>>

Next ==
  \/ Admit \/ Break \/ Delegated
  \/ \E n \in Conversation!Turns :
       \/ \E text \in Texts : Answer(n, text)
       \/ \E status \in Failures : Fail(n, status)
       \/ \E turn \in TurnIds : Authorize(n, turn)
  \/ Submit \/ Time
  \/ \E id \in DOMAIN records : Drive(id)

Spec == Init /\ [][Next]_vars
=============================================================================
