---------------------- MODULE ConversationSessionProofs ----------------------
(***************************************************************************)
(* Theorems about ConversationSession, for every set of callers, every     *)
(* provider and every limit on the history.                                *)
(***************************************************************************)
EXTENDS ConversationSessionProperties, SequenceTheorems, TLAPS

\* What a caller has in hand where it is: a turn from its admission until send
\* returns, and a result from the moment _await has decided.
HandsOK ==
  \A c \in Callers :
    /\ pc[c] \in Section \cup {"finalize"} => turn[c] \in Turns
    /\ pc[c] \in {"give_up", "release", "finalize"} => verdict[c] \in GenerationResults

\* A turn that is being worked on or answered is pending, is in the hands of one
\* caller, and while its caller is in the section it is the turn admitted last.
Owns(c) == pc[c] \in Section \cup {"finalize"}
TurnsOwned ==
  /\ \A c \in Callers : Owns(c) => outcome[turn[c]] = "pending"
  /\ \A c \in Callers : InSection(c) => turn[c] = Len(outcome)
  /\ \A c, d \in Callers : Owns(c) /\ Owns(d) /\ turn[c] = turn[d] => c = d

\* The inductive invariant.
SessionInv ==
  TypeOK /\ HandsOK /\ TurnsOwned /\ InFlightIsExclusive /\ ClosedStaysCancelled

-----------------------------------------------------------------------------
(* Lemmas about the operators *)

LEMMA StatusIsATurnStatus ==
  ASSUME NEW result \in GenerationResults
  PROVE  StatusOf(result) \in TurnStatuses
BY DEF StatusOf, GenerationResults, TurnStatuses

\* Trimming a sequence to its newest k entries leaves a suffix of it.
LEMMA NewestIsASuffix ==
  ASSUME NEW S, NEW seq \in Seq(S), NEW k \in Nat
  PROVE  LET s == Newest(seq, k)
         IN  /\ s \in Seq(S)
             /\ Len(s) = IF Len(seq) <= k THEN Len(seq) ELSE k
             /\ \A i \in 1..Len(s) : s[i] = seq[i + (Len(seq) - Len(s))]
<1>1. Len(seq) \in Nat /\ \A i \in 1..Len(seq) : seq[i] \in S
  BY LenProperties
<1>2. CASE Len(seq) <= k
  BY <1>1, <1>2 DEF Newest
<1>3. CASE ~(Len(seq) <= k)
  <2>. DEFINE m == Len(seq) - k + 1
              s == SubSeq(seq, m, Len(seq))
  <2>1. m \in Int /\ m \in 1..(Len(seq) + 1) /\ Len(seq) \in Int
    BY <1>1, <1>3
  <2>2. \A i \in m..Len(seq) : seq[i] \in S
    BY <1>1, <2>1
  <2>. HIDE DEF m
  <2>3. /\ s \in Seq(S)
        /\ Len(s) = IF m <= Len(seq) THEN Len(seq) - m + 1 ELSE 0
        /\ \A i \in 1..(Len(seq) - m + 1) : s[i] = seq[m + i - 1]
    BY <2>1, <2>2, SubSeqProperties
  <2>. HIDE DEF s
  <2>4. Len(s) = k /\ \A i \in 1..k : s[i] = seq[i + (Len(seq) - k)]
    BY <1>1, <1>3, <2>1, <2>3 DEF m
  <2>5. Newest(seq, k) = s
    BY <1>3 DEF Newest, s, m
  <2>. QED
    BY <1>3, <2>3, <2>4, <2>5
<1>. QED
  BY <1>2, <1>3

LEMMA RecordedIsAHistory ==
  ASSUME TypeOK, NEW n \in Nat \ {0}
  PROVE  Recorded(n) \in Seq(Messages)
<1>. DEFINE pair == <<Message("user", n), Message("assistant", n)>>
<1>1. pair \in Seq(Messages)
  BY DEF Message, Messages
<1>2. messages \o pair \in Seq(Messages)
  BY <1>1 DEF TypeOK
<1>3. MaxHistory \in Nat
  BY SessionAssumption
<1>. QED
  BY <1>2, <1>3, NewestIsASuffix DEF Recorded
-----------------------------------------------------------------------------
(* Every step preserves the invariant *)

LEMMA InitInv == Init => SessionInv
<1>. SUFFICES ASSUME Init PROVE SessionInv
  OBVIOUS
<1>1. /\ messages \in Seq(Messages)
      /\ outcome \in Seq(TurnStatuses \cup {"pending", "raised"})
      /\ overdue \in Seq(BOOLEAN) /\ Len(overdue) = Len(outcome)
      /\ holder \in Seq(GenerationResults \cup {"none", "generating"})
      /\ Len(holder) = Len(outcome)
  BY DEF Init
<1>2. TypeOK
  BY <1>1 DEF Init, TypeOK, Places, NoTurn
<1>3. HandsOK
  BY DEF Init, HandsOK, Section
<1>4. InFlightIsExclusive
  BY DEF Init, InFlightIsExclusive, InSection, Section, Wedged, Turns
<1>5. ClosedStaysCancelled
  BY DEF Init, ClosedStaysCancelled
<1>6. TurnsOwned
  BY DEF Init, TurnsOwned, Owns, InSection, Section
<1>. QED
  BY <1>2, <1>3, <1>4, <1>5, <1>6 DEF SessionInv

LEMMA StutterInv == SessionInv /\ UNCHANGED vars => SessionInv'
BY DEF SessionInv, TypeOK, HandsOK, TurnsOwned, Owns, InFlightIsExclusive, Wedged,
       ClosedStaysCancelled, vars, Turns, InSection

LEMMA AdmitInv ==
  ASSUME SessionInv, NEW c \in Callers, SendAdmitted(c)
  PROVE  SessionInv'
<1>. USE DEF SendAdmitted, At, Goto, CanAdmit
<1>1. /\ outcome' \in Seq(TurnStatuses \cup {"pending", "raised"})
      /\ overdue' \in Seq(BOOLEAN)
      /\ holder' \in Seq(GenerationResults \cup {"none", "generating"})
      /\ Len(outcome') = Len(outcome) + 1
      /\ Len(overdue') = Len(outcome') /\ Len(holder') = Len(outcome')
  BY AppendProperties DEF SessionInv, TypeOK
<1>2. Turns' = 1..(Len(outcome) + 1) /\ Len(outcome) \in Nat
  BY <1>1, LenProperties DEF SessionInv, TypeOK, Turns
<1>3. TypeOK'
  <2>1. /\ pc' \in [Callers -> Places]
        /\ turn' \in [Callers -> Turns' \cup {NoTurn}]
    BY <1>2 DEF SessionInv, TypeOK, Places, Section, Turns
  <2>2. cancelEvent' = FALSE /\ inFlight' = TRUE
        /\ UNCHANGED <<provider, closed, messages, verdict, stopAsked>>
    OBVIOUS
  <2>. QED
    BY <1>1, <2>1, <2>2 DEF SessionInv, TypeOK
<1>4. HandsOK'
  <2>1. Turns \subseteq Turns' /\ Len(outcome) + 1 \in Turns'
    BY <1>2 DEF Turns
  <2>2. /\ turn' = [turn EXCEPT ![c] = Len(outcome) + 1]
        /\ pc' = [pc EXCEPT ![c] = "build"]
        /\ verdict' = verdict
    OBVIOUS
  <2>. QED
    BY <2>1, <2>2 DEF SessionInv, TypeOK, HandsOK
<1>5. /\ \A n \in Turns : outcome'[n] = outcome[n]
      /\ outcome'[Len(outcome) + 1] = "pending"
      /\ \A d \in Callers : InSection(d)' <=> d = c
  BY <1>2, AppendProperties DEF SessionInv, TypeOK, InFlightIsExclusive, InSection, Section,
                                Turns
<1>6. ~Wedged /\ ~Wedged'
  BY <1>2, <1>5 DEF SessionInv, InFlightIsExclusive, Wedged, Turns
<1>7. InFlightIsExclusive'
  BY <1>5, <1>6 DEF Wedged, InFlightIsExclusive
<1>8. TurnsOwned'
  <2>1. /\ turn'[c] = Len(outcome) + 1
        /\ \A d \in Callers \ {c} : turn'[d] = turn[d] /\ pc'[d] = pc[d]
        /\ \A d \in Callers : Owns(d) => turn[d] \in Turns
    BY DEF SessionInv, TypeOK, HandsOK, Owns
  <2>2. \A d \in Callers \ {c} : Owns(d)' <=> Owns(d)
    BY <2>1 DEF Owns
  <2>. QED
    BY <1>1, <1>2, <1>5, <2>1, <2>2 DEF SessionInv, TurnsOwned, Turns
<1>9. ClosedStaysCancelled'
  BY DEF SessionInv, ClosedStaysCancelled
<1>. QED
  BY <1>3, <1>4, <1>7, <1>8, <1>9 DEF SessionInv

\* The steps of send that only move one caller on and leave the turns alone.
LEMMA MoveInv ==
  ASSUME SessionInv, NEW c \in Callers, Build(c) \/ PollDone(c) \/ PollCancel(c)
              \/ PollDeadline(c) \/ GiveUp(c)
  PROVE  SessionInv'
<1>1. PICK place \in {"submit", "poll_done", "poll_cancel", "poll_deadline", "give_up",
                      "release"}, result \in GenerationResults \cup {"none"} :
        /\ pc' = [pc EXCEPT ![c] = place]
        /\ pc[c] \in Section
        /\ verdict' = [verdict EXCEPT ![c] = result]
        /\ place \in {"give_up", "release"} => result \in GenerationResults
        /\ UNCHANGED <<provider, closed, inFlight, cancelEvent, messages, turn, outcome,
                       overdue, holder>>
        /\ stopAsked' \in BOOLEAN
  <2>. /\ verdict = [verdict EXCEPT ![c] = verdict[c]]
       /\ verdict[c] \in GenerationResults \cup {"none"}
       /\ stopAsked \in BOOLEAN
       /\ "cancelled" \in GenerationResults /\ "timeout" \in GenerationResults
    BY DEF SessionInv, TypeOK, GenerationResults
  <2>1. CASE Build(c)
    BY <2>1 DEF Build, At, Goto, turnVars, Section
  <2>2. CASE PollDone(c)
    <3>1. pc[c] \in Section /\ turn[c] \in Turns
      BY <2>2 DEF PollDone, At, Section, SessionInv, HandsOK
    <3>2. holder[turn[c]] \in GenerationResults \cup {"none", "generating"}
      BY <3>1, LenProperties DEF SessionInv, TypeOK, Turns
    <3>. QED
      BY <2>2, <3>1, <3>2
      DEF PollDone, At, Goto, Decide, Finished, Polls, turnVars
  <2>3. CASE PollCancel(c)
    BY <2>3 DEF PollCancel, At, Goto, Decide, Polls, turnVars, Section
  <2>4. CASE PollDeadline(c)
    BY <2>4 DEF PollDeadline, At, Goto, Decide, Polls, turnVars, Section
  <2>5. CASE GiveUp(c)
    <3>1. /\ pc[c] = "give_up" /\ pc[c] \in Section
          /\ pc' = [pc EXCEPT ![c] = "release"]
          /\ verdict' = verdict
          /\ UNCHANGED <<provider, closed, inFlight, cancelEvent, messages, turn, outcome,
                         overdue, holder>>
      BY <2>5 DEF GiveUp, At, Goto, turnVars, Section
    <3>2. stopAsked' \in BOOLEAN
      BY <2>5 DEF GiveUp, ProviderCancel
    <3>3. verdict[c] \in GenerationResults
      BY <3>1 DEF SessionInv, HandsOK
    <3>. QED
      BY <3>1, <3>2, <3>3
  <2>. QED
    BY <2>1, <2>2, <2>3, <2>4, <2>5
<1>2. TypeOK'
  <2>1. pc' \in [Callers -> Places] /\ verdict' \in [Callers -> GenerationResults \cup {"none"}]
    BY <1>1 DEF SessionInv, TypeOK, Places, Section
  <2>. QED
    BY <1>1, <2>1 DEF SessionInv, TypeOK, Turns
<1>3. HandsOK'
  <2>1. turn' = turn /\ Turns' = Turns /\ turn[c] \in Turns
    BY <1>1 DEF Turns, SessionInv, HandsOK
  <2>. QED
    BY <1>1, <2>1 DEF SessionInv, TypeOK, HandsOK
<1>4. \A d \in Callers : (InSection(d)' <=> InSection(d)) /\ (Owns(d)' <=> Owns(d))
  BY <1>1 DEF SessionInv, TypeOK, InSection, Section, Owns
<1>5. InFlightIsExclusive'
  BY <1>1, <1>4 DEF SessionInv, InFlightIsExclusive, Wedged, Turns
<1>6. TurnsOwned'
  BY <1>1, <1>4 DEF SessionInv, TurnsOwned
<1>7. ClosedStaysCancelled'
  BY <1>1 DEF SessionInv, ClosedStaysCancelled
<1>. QED
  BY <1>2, <1>3, <1>5, <1>6, <1>7 DEF SessionInv

LEMMA SubmitInv ==
  ASSUME SessionInv, NEW c \in Callers, Submit(c)
  PROVE  SessionInv'
<1>. USE DEF Submit, At, Goto
<1>1. turn[c] \in Turns
  BY DEF SessionInv, HandsOK, Section
<1>2. /\ holder' \in Seq(GenerationResults \cup {"none", "generating"})
      /\ Len(holder') = Len(holder)
  BY <1>1, ExceptSeq DEF SessionInv, TypeOK, Turns
<1>3. TypeOK'
  BY <1>2 DEF SessionInv, TypeOK, Places, Section, Turns
<1>4. HandsOK'
  BY DEF SessionInv, TypeOK, HandsOK, Section, Turns
<1>5. \A d \in Callers : (InSection(d)' <=> InSection(d)) /\ (Owns(d)' <=> Owns(d))
  BY DEF SessionInv, TypeOK, InSection, Section, Owns
<1>6. InFlightIsExclusive'
  BY <1>5 DEF SessionInv, InFlightIsExclusive, Wedged, Turns
<1>7. TurnsOwned'
  BY <1>5 DEF SessionInv, TurnsOwned
<1>8. ClosedStaysCancelled'
  BY DEF SessionInv, ClosedStaysCancelled
<1>. QED
  BY <1>3, <1>4, <1>6, <1>7, <1>8 DEF SessionInv

LEMMA ReleaseInv ==
  ASSUME SessionInv, NEW c \in Callers, Release(c)
  PROVE  SessionInv'
<1>. USE DEF Release, At, Goto, turnVars
<1>1. TypeOK'
  BY DEF SessionInv, TypeOK, Places, Section, Turns
<1>2. HandsOK'
  BY DEF SessionInv, TypeOK, HandsOK, Section, Turns
<1>3. \A d \in Callers : ~InSection(d)' /\ (Owns(d)' <=> Owns(d))
  BY DEF SessionInv, TypeOK, InFlightIsExclusive, InSection, Section, Owns
<1>4. ~Wedged
  BY DEF SessionInv, InFlightIsExclusive, InSection, Section
<1>5. InFlightIsExclusive'
  BY <1>3, <1>4 DEF SessionInv, InFlightIsExclusive, Wedged, Turns
<1>6. TurnsOwned'
  BY <1>3 DEF SessionInv, TurnsOwned
<1>7. ClosedStaysCancelled'
  BY DEF SessionInv, ClosedStaysCancelled
<1>. QED
  BY <1>1, <1>2, <1>5, <1>6, <1>7 DEF SessionInv

LEMMA FinalizeInv ==
  ASSUME SessionInv, NEW c \in Callers, Finalize(c)
  PROVE  SessionInv'
<1>. USE DEF Finalize, At, Goto
<1>1. turn[c] \in Turns /\ turn[c] \in Nat \ {0} /\ verdict[c] \in GenerationResults
  BY LenProperties DEF SessionInv, HandsOK, TypeOK, Turns
<1>2. messages' \in Seq(Messages)
  BY <1>1, RecordedIsAHistory DEF SessionInv, TypeOK
<1>3. /\ outcome' \in Seq(TurnStatuses \cup {"pending", "raised"})
      /\ Len(outcome') = Len(outcome)
  BY <1>1, StatusIsATurnStatus, ExceptSeq DEF SessionInv, TypeOK, Turns
<1>4. TypeOK'
  BY <1>2, <1>3 DEF SessionInv, TypeOK, Places, Turns, NoTurn
<1>5. HandsOK'
  BY <1>3 DEF SessionInv, TypeOK, HandsOK, Section, Turns
<1>6. /\ \A n \in Turns \ {turn[c]} : outcome'[n] = outcome[n]
      /\ outcome'[turn[c]] \in TurnStatuses
      /\ "raised" \notin TurnStatuses /\ outcome[turn[c]] = "pending"
      /\ Turns' = Turns
  BY <1>1, <1>3, StatusIsATurnStatus
  DEF SessionInv, TypeOK, TurnsOwned, Owns, Turns, TurnStatuses
<1>7. \A d \in Callers : (InSection(d)' <=> InSection(d)) /\ (Owns(d)' => Owns(d) /\ d # c)
  BY DEF SessionInv, TypeOK, InSection, Section, Owns
<1>8. InFlightIsExclusive'
  <2>1. \A n \in Turns : outcome'[n] = "raised" <=> outcome[n] = "raised"
    BY <1>6
  <2>2. Wedged' <=> Wedged
    BY <2>1, <1>6 DEF Wedged
  <2>. QED
    BY <1>3, <1>6, <1>7, <2>1, <2>2 DEF SessionInv, InFlightIsExclusive
<1>9. TurnsOwned'
  <2>1. \A d \in Callers : Owns(d)' => /\ turn'[d] = turn[d] /\ turn[d] \in Turns
                                      /\ turn[d] # turn[c]
    BY <1>7 DEF SessionInv, TypeOK, HandsOK, TurnsOwned, Owns
  <2>2. \A d \in Callers : InSection(d)' => turn'[d] = turn[d] /\ InSection(d)
    BY <1>7, <2>1 DEF InSection, Owns
  <2>. QED
    BY <1>3, <1>6, <1>7, <2>1, <2>2 DEF SessionInv, TurnsOwned
<1>10. ClosedStaysCancelled'
  BY DEF SessionInv, ClosedStaysCancelled
<1>. QED
  BY <1>4, <1>5, <1>8, <1>9, <1>10 DEF SessionInv

\* An exception: the flag stays set and nobody is left in the section.
LEMMA EscapeInv ==
  ASSUME SessionInv, NEW c \in Callers, SubmitFails(c) \/ Interrupted(c)
  PROVE  SessionInv'
<1>1. InSection(c) /\ Escape(c)
  BY DEF SubmitFails, Interrupted, InSection, Section, At
<1>. USE <1>1 DEF Escape, Goto
<1>2. turn[c] \in Turns /\ turn[c] = Len(outcome)
  BY DEF SessionInv, HandsOK, TurnsOwned, InSection
<1>3. /\ outcome' \in Seq(TurnStatuses \cup {"pending", "raised"})
      /\ Len(outcome') = Len(outcome) /\ Turns' = Turns
      /\ outcome'[turn[c]] = "raised"
      /\ \A n \in Turns \ {turn[c]} : outcome'[n] = outcome[n]
  BY <1>2, ExceptSeq DEF SessionInv, TypeOK, Turns
<1>4. TypeOK'
  BY <1>3 DEF SessionInv, TypeOK, Places, Turns, NoTurn
<1>5. HandsOK'
  BY <1>3 DEF SessionInv, TypeOK, HandsOK, Section, Turns
<1>6. \A d \in Callers : ~InSection(d)' /\ (Owns(d)' => Owns(d) /\ d # c)
  BY DEF SessionInv, TypeOK, InFlightIsExclusive, InSection, Section, Owns
<1>7. InFlightIsExclusive'
  <2>1. Wedged' /\ inFlight' = inFlight /\ inFlight
    BY <1>2, <1>3 DEF Wedged, SessionInv, InFlightIsExclusive
  <2>2. \A n \in Turns : outcome'[n] = "raised" => n = Len(outcome)
    BY <1>2, <1>3 DEF SessionInv, InFlightIsExclusive
  <2>. QED
    BY <1>3, <1>6, <2>1, <2>2 DEF InFlightIsExclusive
<1>8. TurnsOwned'
  <2>1. \A d \in Callers : Owns(d)' => /\ turn'[d] = turn[d] /\ turn[d] \in Turns
                                      /\ turn[d] # turn[c]
    BY <1>6 DEF SessionInv, TypeOK, HandsOK, TurnsOwned, Owns, InSection
  <2>. QED
    BY <1>3, <1>6, <2>1 DEF SessionInv, TurnsOwned
<1>9. ClosedStaysCancelled'
  BY DEF SessionInv, ClosedStaysCancelled
<1>. QED
  BY <1>4, <1>5, <1>7, <1>8, <1>9 DEF SessionInv

\* cancel, close and clear never move a caller into or out of the section.
LEMMA OtherCallsInv ==
  ASSUME SessionInv, NEW c \in Callers,
         CancelSet(c) \/ CancelCheck(c) \/ CancelProvider(c) \/ Close(c) \/ Clear(c)
  PROVE  SessionInv'
<1>1. PICK place \in {"idle", "cancel_check", "cancel_provider"} :
        /\ pc' = [pc EXCEPT ![c] = place]
        /\ pc[c] \in {"idle", "cancel_check", "cancel_provider"}
        /\ closed' \in BOOLEAN /\ cancelEvent' \in BOOLEAN /\ stopAsked' \in BOOLEAN
        /\ closed' => cancelEvent'
        /\ messages' \in Seq(Messages)
        /\ UNCHANGED <<provider, inFlight, turn, verdict, outcome, overdue, holder>>
  <2>1. CASE CancelSet(c) \/ CancelCheck(c) \/ CancelProvider(c)
    <3>1. /\ \/ pc' = [pc EXCEPT ![c] = "idle"]
             \/ pc' = [pc EXCEPT ![c] = "cancel_check"]
             \/ pc' = [pc EXCEPT ![c] = "cancel_provider"]
          /\ pc[c] \in {"idle", "cancel_check", "cancel_provider"}
      BY <2>1 DEF CancelSet, CancelCheck, CancelProvider, At, Goto
    <3>2. UNCHANGED <<provider, closed, inFlight, messages, turn, verdict, outcome,
                      overdue, holder>>
      BY <2>1 DEF CancelSet, CancelCheck, CancelProvider, turnVars
    <3>3. cancelEvent' = TRUE \/ cancelEvent' = cancelEvent
      BY <2>1 DEF CancelSet, CancelCheck, CancelProvider
    <3>4. \/ stopAsked' = stopAsked
          \/ stopAsked' = (stopAsked \/ provider = "fake")
      BY <2>1 DEF CancelSet, CancelCheck, CancelProvider, ProviderCancel
    <3>. QED
      BY <3>1, <3>2, <3>3, <3>4 DEF SessionInv, TypeOK, ClosedStaysCancelled
  <2>2. CASE Close(c)
    BY <2>2 DEF Close, At, Goto, turnVars, SessionInv, TypeOK
  <2>3. CASE Clear(c)
    <3>1. pc' = [pc EXCEPT ![c] = "idle"]
      BY <2>3 DEF Clear, At, callerVars, SessionInv, TypeOK
    <3>2. messages' \in Seq(Messages)
      BY <2>3 DEF Clear
    <3>. QED
      BY <2>3, <3>1, <3>2 DEF Clear, At, callerVars, turnVars, SessionInv, TypeOK,
                              ClosedStaysCancelled
  <2>. QED
    BY <2>1, <2>2, <2>3
<1>2. TypeOK'
  BY <1>1 DEF SessionInv, TypeOK, Places, Turns
<1>3. HandsOK'
  BY <1>1 DEF SessionInv, TypeOK, HandsOK, Section, Turns
<1>4. \A d \in Callers : (InSection(d)' <=> InSection(d)) /\ (Owns(d)' <=> Owns(d))
  BY <1>1 DEF SessionInv, TypeOK, InSection, Section, Owns
<1>5. InFlightIsExclusive'
  BY <1>1, <1>4 DEF SessionInv, InFlightIsExclusive, Wedged, Turns
<1>6. TurnsOwned'
  BY <1>1, <1>4 DEF SessionInv, TurnsOwned
<1>7. ClosedStaysCancelled'
  BY <1>1 DEF ClosedStaysCancelled
<1>. QED
  BY <1>2, <1>3, <1>5, <1>6, <1>7 DEF SessionInv

LEMMA WorkerInv ==
  ASSUME SessionInv, NEW n \in Turns, WorkerEnds(n) \/ WorkerStops(n) \/ DeadlinePasses(n)
  PROVE  SessionInv'
<1>1. CASE WorkerEnds(n) \/ WorkerStops(n)
  <2>1. PICK result \in GenerationResults : Leave(n, result)
    BY <1>1, SessionAssumption DEF WorkerEnds, WorkerStops, GenerationResults
  <2>2. /\ holder' \in Seq(GenerationResults \cup {"none", "generating"})
        /\ Len(holder') = Len(holder)
    BY <2>1, ExceptSeq DEF Leave, SessionInv, TypeOK, Turns
  <2>. QED
    BY <2>1, <2>2 DEF Leave, callerVars, SessionInv, TypeOK, HandsOK, TurnsOwned, Owns,
                      InFlightIsExclusive, Wedged, ClosedStaysCancelled, InSection, Turns
<1>2. CASE DeadlinePasses(n)
  <2>1. overdue' \in Seq(BOOLEAN) /\ Len(overdue') = Len(overdue)
    BY <1>2, ExceptSeq DEF DeadlinePasses, SessionInv, TypeOK, Turns
  <2>. QED
    BY <1>2, <2>1 DEF DeadlinePasses, callerVars, SessionInv, TypeOK, HandsOK, TurnsOwned,
                      Owns, InFlightIsExclusive, Wedged, ClosedStaysCancelled, InSection, Turns
<1>. QED
  BY <1>1, <1>2

LEMMA NextInv == SessionInv /\ [Next]_vars => SessionInv'
<1>. SUFFICES ASSUME SessionInv, [Next]_vars PROVE SessionInv'
  OBVIOUS
<1>1. CASE \E c \in Callers : SendRefused(c)
  BY <1>1, StutterInv DEF SendRefused
<1>2. CASE \E c \in Callers : SendAdmitted(c)
  BY <1>2, AdmitInv
<1>3. CASE \E c \in Callers : Build(c) \/ PollDone(c) \/ PollCancel(c)
                              \/ PollDeadline(c) \/ GiveUp(c)
  BY <1>3, MoveInv
<1>4. CASE \E c \in Callers : Submit(c)
  BY <1>4, SubmitInv
<1>5. CASE \E c \in Callers : Release(c)
  BY <1>5, ReleaseInv
<1>6. CASE \E c \in Callers : Finalize(c)
  BY <1>6, FinalizeInv
<1>7. CASE \E c \in Callers : CancelSet(c) \/ CancelCheck(c) \/ CancelProvider(c)
                              \/ Close(c) \/ Clear(c)
  BY <1>7, OtherCallsInv
<1>8. CASE \E n \in Turns : WorkerEnds(n) \/ WorkerStops(n) \/ DeadlinePasses(n)
  BY <1>8, WorkerInv
<1>9. CASE \E c \in Callers : SubmitFails(c) \/ Interrupted(c)
  BY <1>9, EscapeInv
<1>10. CASE UNCHANGED vars
  BY <1>10, StutterInv
<1>. QED
  BY <1>1, <1>2, <1>3, <1>4, <1>5, <1>6, <1>7, <1>8, <1>9, <1>10 DEF Next, Begin, Continue

LEMMA InvCorrect == Spec => []SessionInv
BY InitInv, NextInv, PTL DEF Spec
-----------------------------------------------------------------------------
(* The theorems *)

\* Every variable keeps its type: send always returns a status of TurnStatus, and
\* _await never waits on a turn that was not admitted.
THEOREM TypeCorrect == Spec => []TypeOK
<1>1. SessionInv => TypeOK
  BY DEF SessionInv
<1>. QED
  BY <1>1, InvCorrect, PTL

\* _in_flight admits one send at a time, whatever the callers and the provider do,
\* and none after a send that ended with an exception.
THEOREM ExclusionCorrect == Spec => []InFlightIsExclusive
<1>1. SessionInv => InFlightIsExclusive
  BY DEF SessionInv
<1>. QED
  BY <1>1, InvCorrect, PTL

\* No send clears the cancellation of a session that is closed.
THEOREM CloseCorrect == Spec => []ClosedStaysCancelled
<1>1. SessionInv => ClosedStaysCancelled
  BY DEF SessionInv
<1>. QED
  BY <1>1, InvCorrect, PTL
-----------------------------------------------------------------------------
(* The history *)

\* A sequence of messages that is the end of a sequence of whole turns.
Whole(h) ==
  /\ \A i \in 1..Len(h) :
       /\ h[i].role = IF (Len(h) - i) % 2 = 0 THEN "assistant" ELSE "user"
       /\ h[i].role = "user" => h[i + 1].turn = h[i].turn
  /\ \A i, j \in 1..Len(h) : h[i] = h[j] => i = j

Pair(n) == <<Message("user", n), Message("assistant", n)>>

LEMMA PairAppended ==
  ASSUME NEW h \in Seq(Messages), NEW n \in Nat \ {0}
  PROVE  LET g == h \o Pair(n)
         IN  /\ g \in Seq(Messages) /\ Len(g) = Len(h) + 2
             /\ \A i \in 1..Len(h) : g[i] = h[i]
             /\ g[Len(h) + 1] = Message("user", n)
             /\ g[Len(h) + 2] = Message("assistant", n)
<1>1. /\ Pair(n) \in Seq(Messages) /\ Len(Pair(n)) = 2
      /\ Pair(n)[1] = Message("user", n) /\ Pair(n)[2] = Message("assistant", n)
  BY DEF Pair, Message, Messages
<1>2. Len(h) \in Nat
  BY LenProperties
<1>. DEFINE p == Pair(n)
            g == h \o p
<1>. HIDE DEF p
<1>3. /\ g \in Seq(Messages) /\ Len(g) = Len(h) + Len(p)
      /\ \A i \in 1..(Len(h) + Len(p)) : g[i] = IF i <= Len(h) THEN h[i] ELSE p[i - Len(h)]
  BY <1>1, ConcatProperties DEF p
<1>4. /\ Len(p) = 2 /\ p[1] = Message("user", n) /\ p[2] = Message("assistant", n)
  BY <1>1 DEF p
<1>. HIDE DEF g
<1>5. (Len(h) + 1) - Len(h) = 1 /\ (Len(h) + 2) - Len(h) = 2
  BY <1>2
<1>6. /\ Len(g) = Len(h) + 2
      /\ \A i \in 1..Len(h) : g[i] = h[i]
      /\ g[Len(h) + 1] = p[1] /\ g[Len(h) + 2] = p[2]
  BY <1>2, <1>3, <1>4, <1>5
<1>. QED
  BY <1>3, <1>4, <1>6 DEF g, p

\* A turn that is not in the history yet keeps it whole.
LEMMA PairKeepsWhole ==
  ASSUME NEW h \in Seq(Messages), NEW n \in Nat \ {0}, Whole(h),
         \A i \in 1..Len(h) : h[i].turn # n
  PROVE  Whole(h \o Pair(n))
<1>. DEFINE g == h \o Pair(n)
            l == Len(h)
<1>1. /\ Len(g) = l + 2
      /\ \A i \in 1..l : g[i] = h[i]
      /\ g[l + 1] = Message("user", n) /\ g[l + 2] = Message("assistant", n)
  BY PairAppended
<1>2. l \in Nat
  BY LenProperties
<1>. HIDE DEF g, l
<1>3. ASSUME NEW i \in 1..Len(g)
      PROVE  /\ g[i].role = IF (Len(g) - i) % 2 = 0 THEN "assistant" ELSE "user"
             /\ g[i].role = "user" => g[i + 1].turn = g[i].turn
  <2>1. CASE i \in 1..l
    <3>1. (Len(g) - i) % 2 = (l - i) % 2
      BY <1>1, <1>2, <2>1
    <3>2. /\ h[i].role = IF (l - i) % 2 = 0 THEN "assistant" ELSE "user"
          /\ h[i].role = "user" => h[i + 1].turn = h[i].turn
      BY <2>1 DEF Whole, l
    <3>3. h[i].role = "user" => i # l
      BY <1>2, <3>2
    <3>4. g[i] = h[i] /\ (i # l => g[i + 1] = h[i + 1])
      BY <1>1, <1>2, <2>1
    <3>. QED
      BY <3>1, <3>2, <3>3, <3>4
  <2>2. CASE i = l + 1
    BY <1>1, <1>2, <2>2 DEF Message
  <2>3. CASE i = l + 2
    BY <1>1, <1>2, <2>3 DEF Message
  <2>. QED
    BY <1>1, <1>2, <2>1, <2>2, <2>3
<1>4. ASSUME NEW i \in 1..Len(g), NEW j \in 1..Len(g), g[i] = g[j]
      PROVE  i = j
  <2>1. \A k \in {l + 1, l + 2} : g[k].turn = n
    BY <1>1 DEF Message
  <2>2. \A k \in 1..l : g[k].turn # n
    BY <1>1 DEF l
  <2>3. g[l + 1] # g[l + 2]
    BY <1>1 DEF Message
  <2>4. i \in 1..l /\ j \in 1..l => i = j
    BY <1>1, <1>4 DEF Whole, l
  <2>. QED
    BY <1>1, <1>2, <1>4, <2>1, <2>2, <2>3, <2>4
<1>5. /\ \A i \in 1..Len(g) :
           /\ g[i].role = IF (Len(g) - i) % 2 = 0 THEN "assistant" ELSE "user"
           /\ g[i].role = "user" => g[i + 1].turn = g[i].turn
      /\ \A i, j \in 1..Len(g) : g[i] = g[j] => i = j
  BY <1>3, <1>4, Zenon
<1>. QED
  BY <1>5 DEF g, Whole

\* Dropping the oldest messages keeps the history whole.
LEMMA NewestKeepsWhole ==
  ASSUME NEW h \in Seq(Messages), NEW k \in Nat, Whole(h)
  PROVE  Whole(Newest(h, k))
<1>. DEFINE s == Newest(h, k)
            l == Len(h)
            off == Len(h) - Len(s)
<1>1. /\ s \in Seq(Messages) /\ Len(s) <= l /\ Len(s) \in Nat /\ l \in Nat
      /\ \A i \in 1..Len(s) : s[i] = h[i + off]
  BY NewestIsASuffix, LenProperties
<1>2. off \in Nat /\ l = Len(s) + off
  BY <1>1
<1>. HIDE DEF s, off, l
<1>3. ASSUME NEW i \in 1..Len(s)
      PROVE  /\ s[i].role = IF (Len(s) - i) % 2 = 0 THEN "assistant" ELSE "user"
             /\ s[i].role = "user" => s[i + 1].turn = s[i].turn
  <2>1. i + off \in 1..l /\ l - (i + off) = Len(s) - i
    BY <1>1, <1>2
  <2>2. /\ h[i + off].role = IF (Len(s) - i) % 2 = 0 THEN "assistant" ELSE "user"
        /\ h[i + off].role = "user" => h[(i + off) + 1].turn = h[i + off].turn
    BY <2>1 DEF Whole, l
  <2>3. s[i].role = "user" => i # Len(s)
    <3>1. i = Len(s) => (Len(s) - i) % 2 = 0
      BY <1>1
    <3>. QED
      BY <1>1, <2>2, <3>1
  <2>4. i # Len(s) => i + 1 \in 1..Len(s) /\ (i + off) + 1 = (i + 1) + off
    BY <1>1, <1>2
  <2>. QED
    BY <1>1, <2>2, <2>3, <2>4
<1>4. ASSUME NEW i \in 1..Len(s), NEW j \in 1..Len(s), s[i] = s[j]
      PROVE  i = j
  <2>1. i + off \in 1..l /\ j + off \in 1..l /\ h[i + off] = h[j + off]
    BY <1>1, <1>2, <1>4
  <2>2. i + off = j + off
    BY <2>1 DEF Whole, l
  <2>. QED
    BY <1>1, <1>2, <2>2
<1>5. Whole(s)
  BY <1>3, <1>4 DEF Whole
<1>. QED
  BY <1>5 DEF s

\* What is recorded comes from the turn itself or was there before.
LEMMA RecordedIsKnown ==
  ASSUME TypeOK, NEW n \in Nat \ {0}
  PROVE  /\ Len(Recorded(n)) <= MaxHistory
         /\ \A i \in 1..Len(Recorded(n)) :
              Recorded(n)[i].turn = n \/ Recorded(n)[i].turn \in Remembered
<1>. DEFINE g == messages \o Pair(n)
            s == Newest(g, MaxHistory)
<1>0. messages \in Seq(Messages)
  BY DEF TypeOK
<1>1. /\ g \in Seq(Messages) /\ Len(g) = Len(messages) + 2
      /\ \A i \in 1..Len(messages) : g[i] = messages[i]
      /\ g[Len(messages) + 1].turn = n /\ g[Len(messages) + 2].turn = n
  <2>1. /\ g[Len(messages) + 1] = Message("user", n)
        /\ g[Len(messages) + 2] = Message("assistant", n)
        /\ g \in Seq(Messages) /\ Len(g) = Len(messages) + 2
        /\ \A i \in 1..Len(messages) : g[i] = messages[i]
    BY <1>0, PairAppended
  <2>. HIDE DEF g
  <2>. QED
    BY <2>1 DEF Message
<1>2. MaxHistory \in Nat /\ Len(messages) \in Nat /\ Len(g) \in Nat
  BY SessionAssumption, LenProperties, <1>0, <1>1
<1>. HIDE DEF g
<1>3. /\ Len(s) <= MaxHistory /\ Len(s) <= Len(g) /\ Len(s) \in Nat
      /\ \A i \in 1..Len(s) : s[i] = g[i + (Len(g) - Len(s))]
  <2>1. /\ Len(s) = IF Len(g) <= MaxHistory THEN Len(g) ELSE MaxHistory
        /\ \A i \in 1..Len(s) : s[i] = g[i + (Len(g) - Len(s))]
    BY <1>1, <1>2, NewestIsASuffix
  <2>. DEFINE m == Len(s)
  <2>2. m = IF Len(g) <= MaxHistory THEN Len(g) ELSE MaxHistory
    BY <2>1
  <2>. HIDE DEF m
  <2>3. m <= MaxHistory /\ m <= Len(g) /\ m \in Nat
    BY <1>2, <2>2
  <2>. QED
    BY <2>1, <2>3 DEF m
<1>. HIDE DEF s
<1>4. \A k \in 1..Len(g) : g[k].turn = n \/ g[k].turn \in Remembered
  BY <1>1, <1>2 DEF Remembered
<1>5. \A i \in 1..Len(s) : s[i].turn = n \/ s[i].turn \in Remembered
  BY <1>2, <1>3, <1>4
<1>6. Recorded(n) = s
  BY DEF Recorded, s, g, Pair
<1>. QED
  BY <1>3, <1>5, <1>6

\* The history is whole, and what it holds has been answered ok.
HistoryInv ==
  /\ Whole(messages) /\ Len(messages) <= MaxHistory
  /\ \A n \in Remembered : n \in Turns /\ outcome[n] = "ok"

LEMMA InitHistory == Init => HistoryInv
<1>. SUFFICES ASSUME Init PROVE HistoryInv
  OBVIOUS
<1>1. messages = <<>> /\ Len(messages) = 0 /\ MaxHistory \in Nat
  BY SessionAssumption DEF Init
<1>. QED
  BY <1>1 DEF HistoryInv, Whole, Remembered

\* While the messages and the answers given so far stay, so does the invariant.
LEMMA SameHistory ==
  ASSUME SessionInv, HistoryInv, messages' = messages,
         \A n \in Turns : n \in Turns' /\ (outcome[n] = "ok" => outcome'[n] = "ok")
  PROVE  HistoryInv'
BY DEF HistoryInv, Whole, Remembered

LEMMA FinalizeHistory ==
  ASSUME SessionInv, HistoryInv, NEW c \in Callers, Finalize(c)
  PROVE  HistoryInv'
<1>. DEFINE n == turn[c]
<1>1. /\ n \in Turns /\ n \in Nat \ {0} /\ outcome[n] = "pending"
      /\ TypeOK /\ messages \in Seq(Messages)
  BY LenProperties DEF SessionInv, HandsOK, TurnsOwned, Owns, TypeOK, Turns, Finalize, At
<1>2. /\ \A m \in Turns \ {n} : outcome'[m] = outcome[m]
      /\ outcome'[n] = StatusOf(verdict[c])
      /\ Turns' = Turns
  BY <1>1, ExceptSeq DEF Finalize, TypeOK, Turns
<1>3. CASE verdict[c] # "success"
  <2>1. messages' = messages
    BY <1>3 DEF Finalize
  <2>. QED
    BY <1>1, <1>2, <2>1, SameHistory
<1>4. CASE verdict[c] = "success"
  <2>1. messages' = Recorded(n) /\ StatusOf(verdict[c]) = "ok"
    BY <1>4 DEF Finalize, StatusOf
  <2>2. \A i \in 1..Len(messages) : messages[i].turn # n
    BY <1>1 DEF HistoryInv, Remembered
  <2>3. Whole(messages \o Pair(n))
    BY <1>1, <2>2, PairKeepsWhole DEF HistoryInv
  <2>4. Whole(Recorded(n))
    <3>1. messages \o Pair(n) \in Seq(Messages)
      BY <1>1, PairAppended
    <3>2. Recorded(n) = Newest(messages \o Pair(n), MaxHistory)
      BY DEF Recorded, Pair
    <3>. QED
      BY <2>3, <3>1, <3>2, NewestKeepsWhole, SessionAssumption
  <2>5. /\ Len(Recorded(n)) <= MaxHistory
        /\ \A i \in 1..Len(Recorded(n)) :
             Recorded(n)[i].turn = n \/ Recorded(n)[i].turn \in Remembered
    BY <1>1, RecordedIsKnown
  <2>. HIDE DEF n
  <2>6. \A m \in Remembered' : m = n \/ m \in Remembered
    BY <2>1, <2>5 DEF Remembered
  <2>7. \A m \in Remembered' : m \in Turns' /\ outcome'[m] = "ok"
    BY <1>1, <1>2, <2>1, <2>6 DEF HistoryInv
  <2>8. Whole(messages)' /\ Len(messages') <= MaxHistory
    BY <2>1, <2>4, <2>5 DEF Whole
  <2>. QED
    BY <2>7, <2>8 DEF HistoryInv
<1>. QED
  BY <1>3, <1>4

LEMMA NextHistory == SessionInv /\ HistoryInv /\ [Next]_vars => HistoryInv'
<1>. SUFFICES ASSUME SessionInv, HistoryInv, [Next]_vars PROVE HistoryInv'
  OBVIOUS
<1>1. CASE \E c \in Callers : Finalize(c)
  BY <1>1, FinalizeHistory
<1>2. CASE \E c \in Callers : SendAdmitted(c)
  <2>1. messages' = messages /\ outcome' = Append(outcome, "pending")
    BY <1>2 DEF SendAdmitted
  <2>2. Len(outcome') = Len(outcome) + 1 /\ \A n \in Turns : outcome'[n] = outcome[n]
    BY <2>1, AppendProperties DEF SessionInv, TypeOK, Turns
  <2>3. Len(outcome) \in Nat
    BY LenProperties DEF SessionInv, TypeOK
  <2>. QED
    BY <2>1, <2>2, <2>3, SameHistory DEF Turns
<1>3. CASE \E c \in Callers : SubmitFails(c) \/ Interrupted(c)
  <2>1. PICK c \in Callers : InSection(c) /\ Escape(c)
    BY <1>3 DEF SubmitFails, Interrupted, InSection, Section, At
  <2>2. turn[c] \in Turns /\ outcome[turn[c]] = "pending"
    BY <2>1 DEF SessionInv, HandsOK, TurnsOwned, Owns, InSection
  <2>3. /\ messages' = messages /\ Turns' = Turns
        /\ \A n \in Turns \ {turn[c]} : outcome'[n] = outcome[n]
    BY <2>1, <2>2, ExceptSeq DEF Escape, SessionInv, TypeOK, Turns
  <2>. QED
    BY <2>2, <2>3, SameHistory
<1>4. CASE \E c \in Callers : Clear(c)
  <2>1. messages' = <<>> /\ Len(messages') = 0 /\ MaxHistory \in Nat
    BY <1>4, SessionAssumption DEF Clear
  <2>. QED
    BY <2>1 DEF HistoryInv, Whole, Remembered
<1>5. CASE messages' = messages /\ outcome' = outcome
  BY <1>5, SameHistory DEF Turns
<1>. QED
  BY <1>1, <1>2, <1>3, <1>4, <1>5 DEF Next, Begin, Continue, SendRefused, Build, Submit,
     PollDone, PollCancel, PollDeadline, GiveUp, Release, CancelSet, CancelCheck,
     CancelProvider, Close, WorkerEnds, WorkerStops, DeadlinePasses, Leave, Polls, turnVars,
     vars

LEMMA HistoryInvCorrect == Spec => []HistoryInv
BY InitHistory, NextHistory, InvCorrect, PTL DEF Spec

\* For every limit, odd or even: the history is the end of a sequence of whole turns
\* that were answered ok.
THEOREM HistoryCorrect == Spec => []HistoryHoldsWholeTurns
<1>1. HistoryInv => HistoryHoldsWholeTurns
  BY DEF HistoryInv, Whole, Remembered, HistoryHoldsWholeTurns
<1>. QED
  BY <1>1, HistoryInvCorrect, PTL
-----------------------------------------------------------------------------
(* The session implements ConversationTurns *)

Step == Conversation!Next \/ UNCHANGED <<closed, inFlight, outcome, Remembered>>

LEMMA FinalizeAnswers ==
  ASSUME SessionInv, NEW c \in Callers, Finalize(c)
  PROVE  Conversation!Answer(turn[c], StatusOf(verdict[c]))
<1>. DEFINE n == turn[c]
<1>1. /\ n \in Turns /\ n \in Nat \ {0} /\ outcome[n] = "pending" /\ TypeOK
      /\ Owns(c) /\ ~InSection(c)
  BY LenProperties
  DEF SessionInv, HandsOK, TurnsOwned, Owns, TypeOK, Turns, Finalize, At, InSection, Section
<1>2. ~(inFlight /\ n = Len(outcome))
  <2>1. CASE Wedged
    BY <1>1, <2>1 DEF Wedged, SessionInv, InFlightIsExclusive
  <2>2. ASSUME NEW d \in Callers, InSection(d) PROVE n # Len(outcome)
    BY <1>1, <2>2 DEF SessionInv, TurnsOwned, Owns, InSection
  <2>. QED
    BY <2>1, <2>2 DEF SessionInv, InFlightIsExclusive
<1>3. IF StatusOf(verdict[c]) = "ok" THEN Remembered' \subseteq Remembered \cup {n}
                                     ELSE UNCHANGED Remembered
  <2>1. CASE verdict[c] = "success"
    <3>1. messages' = Recorded(n) /\ StatusOf(verdict[c]) = "ok"
      BY <2>1 DEF Finalize, StatusOf
    <3>2. \A i \in 1..Len(Recorded(n)) :
            Recorded(n)[i].turn = n \/ Recorded(n)[i].turn \in Remembered
      BY <1>1, RecordedIsKnown
    <3>. HIDE DEF n
    <3>3. \A m \in Remembered' : m = n \/ m \in Remembered
      BY <3>1, <3>2 DEF Remembered
    <3>. QED
      BY <3>1, <3>3
  <2>2. CASE verdict[c] # "success"
    <3>1. verdict[c] \in GenerationResults
      BY DEF SessionInv, HandsOK, Finalize, At
    <3>2. messages' = messages /\ StatusOf(verdict[c]) # "ok"
      BY <2>2, <3>1 DEF Finalize, StatusOf, GenerationResults
    <3>. QED
      BY <3>2 DEF Remembered
  <2>. QED
    BY <2>1, <2>2
<1>4. outcome' = [outcome EXCEPT ![n] = StatusOf(verdict[c])] /\ UNCHANGED <<closed, inFlight>>
  BY DEF Finalize
<1>. QED
  BY <1>1, <1>2, <1>3, <1>4 DEF Conversation!Answer, Conversation!Current

LEMMA EveryStepIsATurnStep == SessionInv /\ [Next]_vars => Step
<1>. SUFFICES ASSUME SessionInv, [Next]_vars PROVE Step
  OBVIOUS
<1>. USE DEF Step, Conversation!Next
<1>1. CASE \E c \in Callers : SendAdmitted(c)
  BY <1>1 DEF SendAdmitted, CanAdmit, Conversation!Admit, Remembered
<1>2. CASE \E c \in Callers : Release(c)
  <2>1. PICK c \in Callers : Release(c)
    BY <1>2
  <2>2. InSection(c) /\ Owns(c)
    BY <2>1 DEF Release, At, InSection, Owns, Section
  <2>3. inFlight /\ outcome[Len(outcome)] = "pending"
    BY <2>2 DEF SessionInv, InFlightIsExclusive, TurnsOwned
  <2>. QED
    BY <2>1, <2>3 DEF Release, turnVars, Conversation!Release, Conversation!Current, Remembered
<1>3. CASE \E c \in Callers : Finalize(c)
  <2>1. PICK c \in Callers : Finalize(c)
    BY <1>3
  <2>2. turn[c] \in Turns /\ verdict[c] \in GenerationResults
    BY <2>1 DEF SessionInv, HandsOK, Finalize, At
  <2>3. StatusOf(verdict[c]) \in Conversation!TurnStatuses
    BY <2>2, StatusIsATurnStatus DEF TurnStatuses, Conversation!TurnStatuses
  <2>4. turn[c] \in Conversation!Turns
    BY <2>2 DEF Turns, Conversation!Turns
  <2>. QED
    BY <2>1, <2>3, <2>4, FinalizeAnswers
<1>4. CASE \E c \in Callers : SubmitFails(c) \/ Interrupted(c)
  <2>1. PICK c \in Callers : InSection(c) /\ Escape(c)
    BY <1>4 DEF SubmitFails, Interrupted, InSection, Section, At
  <2>2. Owns(c) /\ inFlight /\ turn[c] = Len(outcome) /\ outcome[Len(outcome)] = "pending"
    BY <2>1 DEF SessionInv, InFlightIsExclusive, TurnsOwned, Owns, InSection
  <2>3. inFlight' \in BOOLEAN
    BY <2>1, <2>2 DEF Escape, SessionInv, TypeOK
  <2>. QED
    BY <2>1, <2>2, <2>3 DEF Escape, Conversation!Break, Conversation!Current, Remembered
<1>5. CASE \E c \in Callers : Close(c)
  BY <1>5 DEF Close, turnVars, Conversation!Close, Remembered
<1>6. CASE \E c \in Callers : Clear(c)
  <2>1. messages' = <<>> /\ UNCHANGED <<closed, inFlight, outcome>>
    BY <1>6 DEF Clear, turnVars
  <2>2. Remembered' = {}
    BY <2>1 DEF Remembered
  <2>. QED
    BY <2>1, <2>2 DEF Conversation!Clear
<1>7. CASE UNCHANGED <<closed, inFlight, outcome, messages>>
  BY <1>7 DEF Remembered
<1>. QED
  BY <1>1, <1>2, <1>3, <1>4, <1>5, <1>6, <1>7 DEF Next, Begin, Continue, SendRefused, Build,
     Submit, PollDone, PollCancel, PollDeadline, GiveUp, CancelSet, CancelCheck,
     CancelProvider, WorkerEnds, WorkerStops, DeadlinePasses, Leave, Polls, turnVars, vars

\* The session implements the abstract conversation: threads, workers and deadlines
\* only ever admit, release, answer or break off one turn at a time, or do nothing
\* a conversation would notice.
THEOREM Refinement == Spec => ImplementsTurns
<1>1. Init => Conversation!Init
  BY DEF Init, Conversation!Init, Remembered
<1>2. SessionInv /\ [Next]_vars => [Conversation!Next]_(Conversation!vars)
  BY EveryStepIsATurnStep DEF Step, Conversation!vars
<1>. QED
  BY <1>1, <1>2, InvCorrect, PTL DEF Spec, ImplementsTurns, Conversation!Spec
=============================================================================
