----------------------- MODULE ActionSessionProperties -----------------------
(***************************************************************************)
(* What the way from a text of the model to a motion of the robot          *)
(* promises, across the conversation, the operator, the contract and the   *)
(* agent.                                                                  *)
(***************************************************************************)
EXTENDS ActionSession

Terminal == {"completed", "rejected", "expired", "cancelled", "failed"}
AnswerStatuses == Terminal \cup {"accepted", "running"}

\* Every variable has its type: every turn has what send returned for it, every call
\* of authorize is about a turn that was answered, and only the newest may be under
\* way, to an agent.
TypeOK ==
  /\ closed \in BOOLEAN /\ busy \in BOOLEAN /\ hasAgent \in BOOLEAN /\ skew \in Skews
  /\ Len(sent) = Len(outcome)
  /\ \A n \in 1..Len(sent) :
       sent[n].status \in Conversation!TurnStatuses \cup {"pending", "raised"}
  /\ \A k \in Calls :
       /\ calls[k].turn \in 1..Len(sent)
       /\ sent[calls[k].turn].status \notin {"pending", "raised"}
       /\ calls[k].result.status \in AnswerStatuses \cup {"pending", "raised"}
       /\ calls[k].result = Pending => hasAgent /\ k = Len(calls)
-----------------------------------------------------------------------------
(* Safety *)

ActionOf(k) == ToAgent(calls[k].action)
IdOf(k) == ActionOf(k).request_id
Submitted ==
  {k \in Calls : hasAgent /\ calls[k].action # Nothing /\ calls[k].result # Pending}

IsWhatWasProposed(action, n) ==
  LET p == sent[n].proposal
  IN  /\ sent[n].status = "ok" /\ p # Nothing
      /\ action.capability = p.capability
      /\ action.parameters = Parameters(p.capability, p.parameters)
      /\ CheckParameters(p.capability, p.parameters) = "none"

\* The agent has one record for every authorization that reached it, and no other: of
\* the action its turn proposed, with the parameters as they were checked.  Texts that
\* nobody authorized and calls that were refused or raised leave nothing behind, and
\* authorizing one proposal twice is two actions, never a repetition of the first
\* (nor a conflict with it): authorize draws both ids anew.
OneActionPerAuthorization ==
  /\ DOMAIN records = {IdOf(k) : k \in Submitted}
  /\ \A j, k \in Submitted : IdOf(j) = IdOf(k) => j = k
  /\ \A k \in Submitted : /\ records[IdOf(k)].request = ActionOf(k)
                          /\ IsWhatWasProposed(calls[k].action, calls[k].turn)

MayFollow(said) ==
  CASE said = "accepted" -> AnswerStatuses \ {"rejected"}
    [] said = "running"  -> {"running", "completed", "cancelled", "failed"}
    [] OTHER             -> {said}

\* What authorize has answered stays true: a refused or finished action never gets
\* another end, and one that was accepted or started was not refused.
AnswersStayTrue ==
  \A k \in Submitted :
    /\ records[IdOf(k)].status \in MayFollow(calls[k].result.status)
    /\ calls[k].result.status \in Terminal
         => records[IdOf(k)].error_category = calls[k].result.error_category

\* No motion starts later after its authorization than the time to live and the
\* distance of the two clocks allow, whether it started at once or had to wait.  The
\* session stamps the request with one clock and the agent tests it with another: a
\* session that is behind by more than the time to live moves nothing.
MotionsStartInTime ==
  \A k \in Submitted :
    LET rec == records[IdOf(k)]
        started == /\ rec.request.capability \in {"stand", "walk"}
                   /\ rec.status \in {"running", "completed", "failed"}
    IN  config.clock = "fake" /\ started => rec.started_mono - calls[k].at <= Ttl + skew

\* An authorized stop that reaches an available agent within the time to live, as the
\* two clocks see it, completes, and when authorize returns no action of any earlier
\* authorization is alive.  A later one, or any one when the session's clock is behind
\* by more than the time to live, does not stop the robot.
StopsTakeEffect ==
  [][\A k \in Calls :
       (/\ calls[k].result = Pending /\ calls'[k].result # Pending
        /\ calls[k].action.capability = "stop"
        /\ config.target_available /\ config.clock = "fake"
        /\ mono - calls[k].at <= Ttl + skew)
         => /\ calls'[k].result.status = "completed"
            /\ \A id \in DOMAIN records' : records'[id].status \in Terminal]_vars
-----------------------------------------------------------------------------
(* Progress: authorize returns, and whoever drives the agent gets round to *)
(* completing what runs, between two authorizations at the latest.         *)

CompleteRunning ==
  /\ running # None /\ Idle
  /\ Agent!Complete(running)
  /\ UNCHANGED <<conversation, session>>

FairSpec == Spec /\ WF_vars(Submit) /\ SF_vars(CompleteRunning)

Settled(k) ==
  /\ calls[k].result # Pending
  /\ k \in Submitted => records[IdOf(k)].status \in Terminal

\* Every authorization is answered, and what it set going comes to an end and stays
\* ended, also when the conversation is closed or broken meanwhile.  (There are at most
\* MaxCalls authorizations.)
AuthorizationsSettle == <>[](\A k \in Calls : Settled(k))
=============================================================================
