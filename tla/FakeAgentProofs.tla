-------------------------- MODULE FakeAgentProofs ---------------------------
(***************************************************************************)
(* Theorems about FakeAgent, for every set of requests, every setting of   *)
(* the agent and every bound on the clocks.                                *)
(***************************************************************************)
EXTENDS FakeAgentProperties, SequenceTheorems, TLAPS

Events == [request_id : RequestIds, status : ActionStatuses]

-----------------------------------------------------------------------------
(* The three ways the queue changes *)

\* What is left of the queue behind position n, where n may be one past its end:
\* the queue after _promote_next has popped n entries.
LEMMA QueueTail ==
  ASSUME NEW q \in Seq(RequestIds), NEW n \in 1..(Len(q) + 1)
  PROVE  LET t == SubSeq(q, n + 1, Len(q))
         IN  /\ t \in Seq(RequestIds)
             /\ Len(t) = IF n <= Len(q) THEN Len(q) - n ELSE 0
             /\ \A k \in 1..Len(t) : t[k] = q[n + k]
<1>1. Len(q) \in Nat /\ \A k \in 1..Len(q) : q[k] \in RequestIds
  BY LenProperties
<1>2. \A k \in (n + 1)..Len(q) : q[k] \in RequestIds
  BY <1>1
<1>3. n + 1 \in Int /\ Len(q) \in Int
  BY <1>1
<1>. DEFINE t == SubSeq(q, n + 1, Len(q))
<1>4. /\ t \in Seq(RequestIds)
      /\ Len(t) = IF n + 1 <= Len(q) THEN Len(q) - (n + 1) + 1 ELSE 0
      /\ \A i \in 1..(Len(q) - (n + 1) + 1) : t[i] = q[(n + 1) + i - 1]
  BY <1>2, <1>3, SubSeqProperties
<1>. HIDE DEF t
<1>5. Len(t) = IF n <= Len(q) THEN Len(q) - n ELSE 0
  BY <1>1, <1>4
<1>6. \A k \in 1..Len(t) : t[k] = q[n + k]
  BY <1>1, <1>4, <1>5
<1>. QED
  BY <1>4, <1>5, <1>6 DEF t

\* Removing one entry, as a cancellation of a waiting motion does, keeps all
\* the others in their order.
LEMMA QueueRemoval ==
  ASSUME NEW q \in Seq(RequestIds), NEW n \in 1..Len(q)
  PROVE  LET t == RemoveAt(q, n)
         IN  /\ t \in Seq(RequestIds)
             /\ Len(t) = Len(q) - 1
             /\ \A k \in 1..Len(t) : t[k] = IF k < n THEN q[k] ELSE q[k + 1]
<1>1. Len(q) \in Nat /\ \A k \in 1..Len(q) : q[k] \in RequestIds
  BY LenProperties
<1>. DEFINE a == SubSeq(q, 1, n - 1)
            b == SubSeq(q, n + 1, Len(q))
<1>2. /\ a \in Seq(RequestIds)
      /\ Len(a) = n - 1
      /\ \A i \in 1..(n - 1) : a[i] = q[i]
  <2>1. \A k \in 1..(n - 1) : q[k] \in RequestIds
    BY <1>1
  <2>2. /\ a \in Seq(RequestIds)
        /\ Len(a) = IF 1 <= n - 1 THEN (n - 1) - 1 + 1 ELSE 0
        /\ \A i \in 1..((n - 1) - 1 + 1) : a[i] = q[1 + i - 1]
    BY <2>1, SubSeqProperties
  <2>. QED
    BY <2>2, <1>1
<1>3. /\ b \in Seq(RequestIds)
      /\ Len(b) = Len(q) - n
      /\ \A k \in 1..Len(b) : b[k] = q[n + k]
  BY QueueTail, <1>1
<1>4. RemoveAt(q, n) = a \o b
  BY DEF RemoveAt
<1>. HIDE DEF a, b
<1>5. /\ a \o b \in Seq(RequestIds)
      /\ Len(a \o b) = Len(a) + Len(b)
      /\ \A i \in 1..(Len(a) + Len(b)) :
           (a \o b)[i] = IF i <= Len(a) THEN a[i] ELSE b[i - Len(a)]
  BY <1>2, <1>3, ConcatProperties
<1>6. Len(a) + Len(b) = Len(q) - 1
  BY <1>1, <1>2, <1>3
<1>7. ASSUME NEW k \in 1..(Len(q) - 1)
      PROVE  (a \o b)[k] = IF k < n THEN q[k] ELSE q[k + 1]
  <2>1. CASE k < n
    BY <1>1, <1>2, <1>5, <1>6, <2>1
  <2>2. CASE ~(k < n)
    <3>1. k - Len(a) \in 1..Len(b) /\ n + (k - Len(a)) = k + 1 /\ ~(k <= Len(a))
      BY <1>1, <1>2, <1>3, <2>2
    <3>. QED
      BY <1>3, <1>5, <1>6, <2>2, <3>1
  <2>. QED
    BY <2>1, <2>2
<1>. QED
  BY <1>4, <1>5, <1>6, <1>7
-----------------------------------------------------------------------------
(* Type correctness *)

LEMMA InitType == Init => TypeOK
BY ConfigAssumption DEF Init, TypeOK

\* Rounding moves a duration by half a microsecond at most.
LEMMA RoundedBound ==
  ASSUME NEW d \in Nat
  PROVE  Rounded(d) \in Nat /\ 2 * Rounded(d) <= 2 * d + Micro
<1>. DEFINE q == d \div Micro
            r == d % Micro
<1>1. q \in Nat /\ r \in 0..(Micro - 1)
  BY ConfigAssumption
<1>2. d = (Micro * q) + r
  BY ConfigAssumption
<1>3. Micro * q \in Nat /\ Micro * (q + 1) = (Micro * q) + Micro
  BY ConfigAssumption, <1>1
<1>4. \/ Rounded(d) = Micro * q
      \/ Rounded(d) = Micro * (q + 1) /\ 2 * r >= Micro
  BY ConfigAssumption, <1>1 DEF Rounded
<1>. HIDE DEF q, r
<1>. QED
  BY ConfigAssumption, <1>1, <1>2, <1>3, <1>4

\* A motion that ends now is reported to end less than a microsecond after now.
LEMMA ElapsedBound ==
  ASSUME mono \in Nat, NEW rec, rec.started_mono \in Nat
  PROVE  /\ Elapsed(rec) \in Nat
         /\ Elapsed(rec) <= mono + Micro
         /\ rec.started_mono <= mono
              => rec.started_mono + Elapsed(rec) < mono + Micro
<1>. DEFINE d == IF mono >= rec.started_mono THEN mono - rec.started_mono ELSE 0
<1>1. d \in Nat /\ d <= mono /\ (rec.started_mono <= mono => d = mono - rec.started_mono)
  OBVIOUS
<1>2. Elapsed(rec) = Rounded(d)
  BY DEF Elapsed
<1>3. Elapsed(rec) \in Nat /\ 2 * Elapsed(rec) <= 2 * d + Micro
  BY <1>1, <1>2, RoundedBound
<1>4. Micro \in Nat \ {0}
  BY ConfigAssumption
<1>. HIDE DEF d
<1>. QED
  BY <1>1, <1>3, <1>4

LEMMA RecordTypes ==
  ASSUME TypeOK
  PROVE  /\ \A r \in Requests, s \in ActionStatuses, c \in ErrorCategories :
              NewRecord(r, s, c) \in RecordType
         /\ \A r \in Requests : StartedRecord(r) \in RecordType
         /\ \A id \in DOMAIN records, s \in ActionStatuses, c \in ErrorCategories :
              /\ FinishedRecord(records[id], s, c) \in RecordType
              /\ DroppedRecord(records[id], s, c) \in RecordType
<1>1. /\ MaxTime \in Nat /\ mono \in 0..MaxTime
      /\ 0 \in 0..(MaxTime + Micro)
  BY ConfigAssumption DEF TypeOK
<1>2. \A id \in DOMAIN records : records[id] \in RecordType
  BY DEF TypeOK
<1>3. \A id \in DOMAIN records : Elapsed(records[id]) \in 0..(MaxTime + Micro)
  <2>1. \A id \in DOMAIN records : records[id].started_mono \in Nat
    BY <1>1, <1>2 DEF RecordType
  <2>2. \A id \in DOMAIN records :
          Elapsed(records[id]) \in Nat /\ Elapsed(records[id]) <= mono + Micro
    BY <1>1, <2>1, ElapsedBound
  <2>3. Micro \in Nat
    BY ConfigAssumption
  <2>. QED
    BY <1>1, <2>2, <2>3
<1>4. \A r \in Requests, s \in ActionStatuses, c \in ErrorCategories :
        NewRecord(r, s, c) \in RecordType
  BY <1>1 DEF NewRecord, RecordType
<1>5. \A r \in Requests : StartedRecord(r) \in RecordType
  <2>1. "none" \in ErrorCategories /\ "completed" \in ActionStatuses
          /\ "running" \in ActionStatuses
    BY DEF ErrorCategories, ActionStatuses, TerminalStatuses
  <2>. QED
    BY <1>1, <2>1 DEF StartedRecord, NewRecord, RecordType
<1>6. \A id \in DOMAIN records, s \in ActionStatuses, c \in ErrorCategories :
        FinishedRecord(records[id], s, c) \in RecordType
  BY <1>2, <1>3 DEF FinishedRecord, RecordType
<1>7. \A id \in DOMAIN records, s \in ActionStatuses, c \in ErrorCategories :
        DroppedRecord(records[id], s, c) \in RecordType
  BY <1>2 DEF DroppedRecord, RecordType
<1>. QED
  BY <1>4, <1>5, <1>6, <1>7

\* Registering a request keeps both dictionaries well typed.
LEMMA RegisterType ==
  ASSUME TypeOK, NEW r \in Requests, NEW rec \in RecordType,
         NEW recs, \A i \in DOMAIN records : recs[i] \in RecordType,
         Register(r, rec, recs)
  PROVE  /\ DOMAIN records' = DOMAIN records \cup {r.request_id}
         /\ DOMAIN records' \subseteq RequestIds
         /\ records' \in [DOMAIN records' -> RecordType]
         /\ DOMAIN idempotency' \subseteq {KeyOf(q) : q \in Requests}
         /\ idempotency' \in [DOMAIN idempotency' -> RequestIds]
<1>1. r.request_id \in RequestIds
  BY DEF RequestIds
<1>2. DOMAIN records \subseteq RequestIds
  BY DEF TypeOK
<1>3. \A i \in DOMAIN records \cup {r.request_id} :
        (IF i = r.request_id THEN rec ELSE recs[i]) \in RecordType
  OBVIOUS
<1>4. records' = [i \in DOMAIN records \cup {r.request_id} |->
                    IF i = r.request_id THEN rec ELSE recs[i]]
  BY DEF Register
<1>5. idempotency' = [k \in DOMAIN idempotency \cup {KeyOf(r)} |->
                        IF k = KeyOf(r) THEN r.request_id ELSE idempotency[k]]
  BY DEF Register
<1>6. /\ DOMAIN records' = DOMAIN records \cup {r.request_id}
      /\ records' \in [DOMAIN records' -> RecordType]
  BY <1>3, <1>4
<1>7. /\ DOMAIN idempotency \subseteq {KeyOf(q) : q \in Requests}
      /\ \A k \in DOMAIN idempotency : idempotency[k] \in RequestIds
  BY DEF TypeOK
<1>8. /\ DOMAIN idempotency' = DOMAIN idempotency \cup {KeyOf(r)}
      /\ idempotency' \in [DOMAIN idempotency' -> RequestIds]
  BY <1>1, <1>5, <1>7
<1>. QED
  BY <1>1, <1>2, <1>6, <1>7, <1>8

\* The events a call publishes extend the log with well-typed events.
LEMMA LogExtended ==
  ASSUME NEW new \in Seq(Events), events \in Seq(Events)
  PROVE  events \o new \in Seq(Events)
BY ConcatProperties

LEMMA EventType ==
  ASSUME NEW id \in RequestIds, NEW s \in ActionStatuses
  PROVE  Event(id, s) \in Events
BY DEF Event, Events

\* A call that records a request with an immediate result.
LEMMA ImmediateType ==
  ASSUME TypeOK, NEW r \in Requests, NEW s \in ActionStatuses,
         NEW c \in ErrorCategories, Immediate(r, s, c)
  PROVE  TypeOK'
<1>1. NewRecord(r, s, c) \in RecordType
  BY RecordTypes
<1>2. \A i \in DOMAIN records : records[i] \in RecordType
  BY DEF TypeOK
<1>3. /\ DOMAIN records' \subseteq RequestIds
      /\ records' \in [DOMAIN records' -> RecordType]
      /\ DOMAIN idempotency' \subseteq {KeyOf(q) : q \in Requests}
      /\ idempotency' \in [DOMAIN idempotency' -> RequestIds]
  BY <1>1, <1>2, RegisterType DEF Immediate
<1>4. events' \in Seq(Events)
  <2>1. Event(r.request_id, s) \in Events
    BY EventType DEF RequestIds
  <2>2. events \in Seq(Events)
    BY DEF TypeOK, Events
  <2>. QED
    BY <2>1, <2>2, AppendProperties DEF Immediate
<1>. QED
  BY <1>3, <1>4 DEF TypeOK, Immediate, Events

LEMMA StatusMembers ==
  /\ \A s \in {"accepted", "running", "completed", "rejected", "expired",
               "cancelled", "failed"} : s \in ActionStatuses
  /\ \A c \in {"none", "cancelled", "stale", "internal", "target_unavailable",
               "resource_conflict", "queue_full"} : c \in ErrorCategories
BY DEF ActionStatuses, TerminalStatuses, ErrorCategories

\* One event per entry of the first n positions of the queue.
LEMMA QueueEvents ==
  ASSUME TypeOK, NEW n \in 0..Len(waiting), NEW s \in ActionStatuses
  PROVE  [k \in 1..n |-> Event(waiting[k], s)] \in Seq(Events)
<1>1. n \in Nat /\ \A k \in 1..n : waiting[k] \in RequestIds
  <2>1. waiting \in Seq(RequestIds)
    BY DEF TypeOK
  <2>. QED
    BY <2>1, LenProperties
<1>2. \A k \in 1..n : Event(waiting[k], s) \in Events
  BY <1>1, EventType
<1>. QED
  BY <1>1, <1>2, IsASeq

LEMMA StopType ==
  ASSUME TypeOK, NEW r \in Requests, Stop(r)
  PROVE  TypeOK'
<1>1. NewRecord(r, "completed", "none") \in RecordType
  BY RecordTypes, StatusMembers
<1>. DEFINE recs == [i \in DOMAIN records |-> Preempted(i)]
<1>2. \A i \in DOMAIN records : recs[i] \in RecordType
  <2>1. \A i \in DOMAIN records :
          /\ FinishedRecord(records[i], "cancelled", "cancelled") \in RecordType
          /\ DroppedRecord(records[i], "cancelled", "cancelled") \in RecordType
          /\ records[i] \in RecordType
    BY RecordTypes, StatusMembers DEF TypeOK
  <2>. QED
    BY <2>1 DEF Preempted
<1>3. Register(r, NewRecord(r, "completed", "none"), recs)
  BY DEF Stop
<1>. HIDE DEF recs
<1>4. /\ DOMAIN records' \subseteq RequestIds
      /\ records' \in [DOMAIN records' -> RecordType]
      /\ DOMAIN idempotency' \subseteq {KeyOf(q) : q \in Requests}
      /\ idempotency' \in [DOMAIN idempotency' -> RequestIds]
  BY <1>1, <1>2, <1>3, RegisterType
<1>5. events' \in Seq(Events)
  <2>1. [k \in 1..Len(waiting) |-> Event(waiting[k], "cancelled")] \in Seq(Events)
    <3>1. Len(waiting) \in Nat
      BY LenProperties DEF TypeOK
    <3>. QED
      BY <3>1, QueueEvents, StatusMembers
  <2>2. (IF running = None THEN <<>> ELSE <<Event(running, "cancelled")>>) \in Seq(Events)
    <3>1. running # None => Event(running, "cancelled") \in Events
      BY EventType, StatusMembers DEF TypeOK
    <3>. QED
      BY <3>1
  <2>3. PreemptEvents \in Seq(Events)
    BY <2>1, <2>2, ConcatProperties DEF PreemptEvents
  <2>4. <<Event(r.request_id, "completed")>> \in Seq(Events)
    <3>1. Event(r.request_id, "completed") \in Events
      BY EventType, StatusMembers DEF RequestIds
    <3>. QED
      BY <3>1
  <2>5. events \in Seq(Events)
    BY DEF TypeOK, Events
  <2>6. events \o PreemptEvents \in Seq(Events)
    BY <2>3, <2>5, ConcatProperties
  <2>. QED
    BY <2>4, <2>6, ConcatProperties DEF Stop
<1>6. running' = None /\ waiting' = <<>> /\ UNCHANGED <<config, wall, mono>>
  BY DEF Stop
<1>. QED
  BY <1>4, <1>5, <1>6 DEF TypeOK, Events

LEMMA StartEventsType ==
  ASSUME NEW id \in RequestIds
  PROVE  StartEvents(id) \in Seq(Events)
<1>1. Event(id, "running") \in Events /\ Event(id, "completed") \in Events
  BY EventType, StatusMembers
<1>. QED
  BY <1>1 DEF StartEvents

LEMMA StartNowType ==
  ASSUME TypeOK, NEW r \in Requests, StartNow(r)
  PROVE  TypeOK'
<1>1. StartedRecord(r) \in RecordType
  BY RecordTypes
<1>2. \A i \in DOMAIN records : records[i] \in RecordType
  BY DEF TypeOK
<1>3. /\ DOMAIN records' \subseteq RequestIds
      /\ records' \in [DOMAIN records' -> RecordType]
      /\ DOMAIN idempotency' \subseteq {KeyOf(q) : q \in Requests}
      /\ idempotency' \in [DOMAIN idempotency' -> RequestIds]
  BY <1>1, <1>2, RegisterType DEF StartNow
<1>4. r.request_id \in RequestIds
  BY DEF RequestIds
<1>5. events' \in Seq(Events)
  <2>1. events \in Seq(Events)
    BY DEF TypeOK, Events
  <2>. QED
    BY <1>4, <2>1, StartEventsType, ConcatProperties DEF StartNow
<1>. QED
  BY <1>3, <1>4, <1>5 DEF TypeOK, StartNow, Events

LEMMA EnqueueType ==
  ASSUME TypeOK, NEW r \in Requests, Enqueue(r)
  PROVE  TypeOK'
<1>1. NewRecord(r, "accepted", "none") \in RecordType
  BY RecordTypes, StatusMembers
<1>2. \A i \in DOMAIN records : records[i] \in RecordType
  BY DEF TypeOK
<1>3. /\ DOMAIN records' \subseteq RequestIds
      /\ records' \in [DOMAIN records' -> RecordType]
      /\ DOMAIN idempotency' \subseteq {KeyOf(q) : q \in Requests}
      /\ idempotency' \in [DOMAIN idempotency' -> RequestIds]
  BY <1>1, <1>2, RegisterType DEF Enqueue
<1>4. r.request_id \in RequestIds
  BY DEF RequestIds
<1>5. waiting' \in Seq(RequestIds)
  BY <1>4, AppendProperties DEF TypeOK, Enqueue, QueuedBehind
<1>6. events' \in Seq(Events)
  <2>1. Event(r.request_id, "accepted") \in Events
    BY <1>4, EventType, StatusMembers
  <2>2. events \in Seq(Events)
    BY DEF TypeOK, Events
  <2>. QED
    BY <2>1, <2>2, AppendProperties DEF Enqueue
<1>. QED
  BY <1>3, <1>5, <1>6 DEF TypeOK, Enqueue, Events

LEMMA FinishType ==
  ASSUME TypeOK, NEW id \in DOMAIN records, NEW s \in ActionStatuses,
         NEW c \in ErrorCategories, Finish(id, s, c)
  PROVE  TypeOK'
<1>1. waiting \in Seq(RequestIds) /\ Len(waiting) \in Nat
  BY LenProperties DEF TypeOK
<1>2. PICK n \in 1..(Len(waiting) + 1) :
        /\ records' = [i \in DOMAIN records |->
             IF i = id THEN FinishedRecord(records[i], s, c)
             ELSE IF \E k \in 1..(n - 1) : waiting[k] = i
               THEN DroppedRecord(records[i], "expired", "stale")
             ELSE IF n <= Len(waiting) /\ waiting[n] = i
               THEN StartedRecord(records[i].request)
             ELSE records[i]]
        /\ events' = events \o FinishEvents(id, s, n)
        /\ running' = IF n <= Len(waiting) THEN waiting[n] ELSE None
        /\ waiting' = SubSeq(waiting, n + 1, Len(waiting))
  BY DEF Finish
<1>3. \A i \in DOMAIN records :
        /\ records[i] \in RecordType
        /\ FinishedRecord(records[i], s, c) \in RecordType
        /\ DroppedRecord(records[i], "expired", "stale") \in RecordType
        /\ StartedRecord(records[i].request) \in RecordType
  <2>1. \A i \in DOMAIN records : records[i] \in RecordType
    BY DEF TypeOK
  <2>2. \A i \in DOMAIN records : records[i].request \in Requests
    BY <2>1 DEF RecordType
  <2>. QED
    BY <2>1, <2>2, RecordTypes, StatusMembers
<1>4. DOMAIN records' = DOMAIN records /\ records' \in [DOMAIN records -> RecordType]
  BY <1>2, <1>3
<1>5. running' \in RequestIds \cup {None}
  BY <1>1, <1>2, LenProperties
<1>6. waiting' \in Seq(RequestIds)
  BY <1>1, <1>2, QueueTail
<1>7. events' \in Seq(Events)
  <2>1. events \in Seq(Events)
    BY DEF TypeOK, Events
  <2>2. <<Event(id, s)>> \in Seq(Events)
    <3>1. Event(id, s) \in Events
      BY EventType DEF TypeOK
    <3>. QED
      BY <3>1
  <2>3. [k \in 1..(n - 1) |-> Event(waiting[k], "expired")] \in Seq(Events)
    <3>1. n - 1 \in 0..Len(waiting)
      BY <1>1
    <3>. QED
      BY <3>1, QueueEvents, StatusMembers
  <2>4. (IF n <= Len(waiting) THEN StartEvents(waiting[n]) ELSE <<>>) \in Seq(Events)
    <3>1. CASE n <= Len(waiting)
      <4>1. waiting[n] \in RequestIds
        BY <1>1, <3>1, LenProperties
      <4>. QED
        BY <3>1, <4>1, StartEventsType
    <3>2. CASE ~(n <= Len(waiting))
      BY <3>2, EmptySeq
    <3>. QED
      BY <3>1, <3>2
  <2>5. FinishEvents(id, s, n) \in Seq(Events)
    BY <2>2, <2>3, <2>4, ConcatProperties DEF FinishEvents
  <2>. QED
    BY <1>2, <2>1, <2>5, ConcatProperties
<1>8. UNCHANGED <<config, idempotency, wall, mono>>
  BY DEF Finish
<1>. QED
  BY <1>4, <1>5, <1>6, <1>7, <1>8 DEF TypeOK, Events

LEMMA CancelWaitingType ==
  ASSUME TypeOK, NEW id, CancelWaiting(id)
  PROVE  TypeOK'
<1>1. id \in DOMAIN records /\ id \in RequestIds
  BY DEF CancelWaiting, TypeOK
<1>2. records' \in [DOMAIN records -> RecordType] /\ DOMAIN records' = DOMAIN records
  <2>1. DroppedRecord(records[id], "cancelled", "cancelled") \in RecordType
    BY <1>1, RecordTypes, StatusMembers
  <2>2. records \in [DOMAIN records -> RecordType]
    BY DEF TypeOK
  <2>3. records' = [records EXCEPT ![id] = DroppedRecord(@, "cancelled", "cancelled")]
    BY DEF CancelWaiting
  <2>. QED
    BY <2>1, <2>2, <2>3
<1>3. waiting' \in Seq(RequestIds)
  BY QueueRemoval DEF CancelWaiting, TypeOK
<1>4. events' \in Seq(Events)
  <2>1. Event(id, "cancelled") \in Events
    BY <1>1, EventType, StatusMembers
  <2>2. events \in Seq(Events)
    BY DEF TypeOK, Events
  <2>. QED
    BY <2>1, <2>2, AppendProperties DEF CancelWaiting
<1>. QED
  BY <1>2, <1>3, <1>4 DEF TypeOK, CancelWaiting, Events

\* Every step is a call that only answers or one of the steps below.
LEMMA StepCases ==
  ASSUME [Next]_vars
  PROVE  \/ UNCHANGED vars
         \/ \E r \in Requests : \/ RejectUnavailable(r) \/ ExpireOnSubmit(r)
                                \/ Observe(r) \/ RejectBusy(r)
                                \/ Stop(r) \/ StartNow(r) \/ Enqueue(r)
         \/ \E id \in RequestIds :
              /\ IsRunning(id)
              /\ \/ Finish(id, "completed", "none")
                 \/ Finish(id, "failed", "internal")
                 \/ Finish(id, "cancelled", "cancelled")
         \/ \E id \in RequestIds : CancelWaiting(id)
         \/ Tick
         \/ StepWall
BY DEF Next, Submit, Replay, RejectConflict, SubmitMalformed, Complete, Fail, Cancel,
       RejectUnknown, RejectNotRunning, CancelIgnored, OnlyAnswers

LEMMA TypeStep == TypeOK /\ [Next]_vars => TypeOK'
<1>. SUFFICES ASSUME TypeOK, [Next]_vars PROVE TypeOK'
  OBVIOUS
<1>1. CASE UNCHANGED vars
  BY <1>1 DEF TypeOK, vars
<1>2. ASSUME NEW r \in Requests,
             RejectUnavailable(r) \/ ExpireOnSubmit(r) \/ Observe(r) \/ RejectBusy(r)
      PROVE  TypeOK'
  <2>1. \E s \in ActionStatuses, c \in ErrorCategories : Immediate(r, s, c)
    BY <1>2, StatusMembers DEF RejectUnavailable, ExpireOnSubmit, Observe, RejectBusy
  <2>. QED
    BY <2>1, ImmediateType
<1>3. ASSUME NEW r \in Requests, Stop(r) PROVE TypeOK'
  BY <1>3, StopType
<1>4. ASSUME NEW r \in Requests, StartNow(r) PROVE TypeOK'
  BY <1>4, StartNowType
<1>5. ASSUME NEW r \in Requests, Enqueue(r) PROVE TypeOK'
  BY <1>5, EnqueueType
<1>6. ASSUME NEW id \in RequestIds, IsRunning(id),
             \/ Finish(id, "completed", "none")
             \/ Finish(id, "failed", "internal")
             \/ Finish(id, "cancelled", "cancelled")
      PROVE  TypeOK'
  BY <1>6, FinishType, StatusMembers DEF IsRunning
<1>7. ASSUME NEW id \in RequestIds, CancelWaiting(id) PROVE TypeOK'
  BY <1>7, CancelWaitingType
<1>8. CASE Tick
  <2>1. wall + 1 \in 0..MaxTime /\ mono + 1 \in 0..MaxTime
    BY <1>8, ConfigAssumption DEF TypeOK, Tick
  <2>. QED
    BY <1>8, <2>1 DEF TypeOK, Tick
<1>9. CASE StepWall
  BY <1>9 DEF TypeOK, StepWall
<1>. QED
  BY <1>1, <1>2, <1>3, <1>4, <1>5, <1>6, <1>7, <1>8, <1>9, StepCases

\* Every variable keeps its type: no call stores a status or a category outside
\* the enumerations, or a queue entry that is not a request id.
THEOREM TypeCorrect == Spec => []TypeOK
<1>1. Init => TypeOK
  BY InitType
<1>2. TypeOK /\ [Next]_vars => TypeOK'
  BY TypeStep
<1>. QED
  BY <1>1, <1>2, PTL DEF Spec
-----------------------------------------------------------------------------
(***************************************************************************)
(* The motion resource.  MotionResource alone is not inductive: with       *)
(* auto_complete a promotion would leave a completed motion in the slot.   *)
(* It is never reached, because auto_complete leaves nothing to promote.   *)
(***************************************************************************)

ResourceInv == MotionResource /\ AutoCompleteIdle

LEMMA InitResource == Init => ResourceInv
BY ConfigAssumption DEF Init, ResourceInv, MotionResource, AutoCompleteIdle,
   RunningIsTheSlot, QueueIsTheAccepted, NoDuplicateWaits, NoIdleQueue, QueueBounded,
   OnlyMotionsAlive, WithStatus, Waits, QueueCapacity

\* A call that records one new request, already settled, and touches neither
\* the slot nor the queue.
LEMMA SettledResource ==
  ASSUME TypeOK, ResourceInv, NEW r \in Requests, IsNew(r),
         NEW s \in TerminalStatuses, NEW c, Immediate(r, s, c)
  PROVE  ResourceInv'
<1>1. /\ r.request_id \notin DOMAIN records
      /\ DOMAIN records' = DOMAIN records \cup {r.request_id}
      /\ \A i \in DOMAIN records : records'[i] = records[i]
      /\ records'[r.request_id].status = s
  BY DEF IsNew, Immediate, Register, NewRecord
<1>2. UNCHANGED <<config, running, waiting>>
  BY DEF Immediate
<1>3. s # "running" /\ s # "accepted"
  BY DEF TerminalStatuses
<1>4. RunningIsTheSlot'
  BY <1>1, <1>2, <1>3 DEF ResourceInv, MotionResource, RunningIsTheSlot, WithStatus
<1>5. QueueIsTheAccepted'
  BY <1>1, <1>2, <1>3 DEF ResourceInv, MotionResource, QueueIsTheAccepted, Waits
<1>6. NoDuplicateWaits' /\ NoIdleQueue' /\ QueueBounded'
  BY <1>2 DEF ResourceInv, MotionResource, NoDuplicateWaits, NoIdleQueue, QueueBounded,
              QueueCapacity
<1>7. OnlyMotionsAlive'
  BY <1>1, <1>3 DEF ResourceInv, MotionResource, OnlyMotionsAlive, IsMotion
<1>8. AutoCompleteIdle'
  BY <1>1, <1>2 DEF ResourceInv, AutoCompleteIdle, AutoComplete
<1>. QED
  BY <1>4, <1>5, <1>6, <1>7, <1>8 DEF ResourceInv, MotionResource

\* A stop leaves no request running or accepted.
LEMMA StopResource ==
  ASSUME TypeOK, ResourceInv, NEW r \in Requests, Stop(r)
  PROVE  ResourceInv'
<1>1. /\ DOMAIN records' = DOMAIN records \cup {r.request_id}
      /\ records'[r.request_id].status = "completed"
      /\ \A i \in DOMAIN records : i # r.request_id => records'[i] = Preempted(i)
  BY DEF Stop, Register, NewRecord
<1>2. \A i \in DOMAIN records : records[i] \in RecordType
  BY DEF TypeOK
<1>3. \A i \in DOMAIN records : Preempted(i).status \in TerminalStatuses
  <2>. SUFFICES ASSUME NEW i \in DOMAIN records
                PROVE  Preempted(i).status \in TerminalStatuses
    OBVIOUS
  <2>1. CASE i = running
    BY <1>2, <2>1 DEF Preempted, FinishedRecord, TerminalStatuses, RecordType
  <2>2. CASE i # running /\ Waits(i)
    BY <1>2, <2>2 DEF Preempted, DroppedRecord, TerminalStatuses, RecordType, Waits
  <2>3. CASE i # running /\ ~Waits(i)
    <3>1. Preempted(i) = records[i]
      BY <2>3 DEF Preempted, Waits
    <3>2. records[i].status # "accepted"
      BY <2>3 DEF ResourceInv, MotionResource, QueueIsTheAccepted
    <3>3. records[i].status # "running"
      BY <2>3 DEF ResourceInv, MotionResource, RunningIsTheSlot, WithStatus
    <3>. QED
      BY <1>2, <3>1, <3>2, <3>3 DEF RecordType, ActionStatuses
  <2>. QED
    BY <2>1, <2>2, <2>3
<1>4. \A i \in DOMAIN records' : records'[i].status \in TerminalStatuses
  BY <1>1, <1>3 DEF TerminalStatuses
<1>5. \A i \in DOMAIN records' : records'[i].status \notin {"accepted", "running"}
  BY <1>4 DEF TerminalStatuses
<1>6. running' = None /\ waiting' = <<>> /\ config' = config
  BY DEF Stop
<1>7. Len(waiting') = 0
  BY <1>6
<1>8. RunningIsTheSlot'
  BY <1>5, <1>6 DEF RunningIsTheSlot, WithStatus
<1>9. QueueIsTheAccepted' /\ NoDuplicateWaits' /\ NoIdleQueue'
  BY <1>5, <1>6, <1>7 DEF QueueIsTheAccepted, Waits, NoDuplicateWaits, NoIdleQueue
<1>10. QueueBounded'
  BY <1>6, <1>7, ConfigAssumption DEF QueueBounded, QueueCapacity, TypeOK
<1>11. OnlyMotionsAlive' /\ AutoCompleteIdle'
  BY <1>4, <1>5, <1>6 DEF OnlyMotionsAlive, AutoCompleteIdle
<1>. QED
  BY <1>8, <1>9, <1>10, <1>11 DEF ResourceInv, MotionResource

\* A motion that takes the free slot, or takes and leaves it in one call.
LEMMA StartNowResource ==
  ASSUME TypeOK, ResourceInv, NEW r \in Requests, StartNow(r)
  PROVE  ResourceInv'
<1>1. /\ r.request_id \notin DOMAIN records
      /\ DOMAIN records' = DOMAIN records \cup {r.request_id}
      /\ \A i \in DOMAIN records : records'[i] = records[i]
      /\ records'[r.request_id] = StartedRecord(r)
      /\ waiting = <<>> /\ waiting' = <<>> /\ running = None
      /\ config' = config
      /\ running' = IF AutoComplete THEN None ELSE r.request_id
      /\ IsMotion(r)
  BY DEF StartNow, Admissible, IsNew, Register
<1>2. /\ StartedRecord(r).status = IF AutoComplete THEN "completed" ELSE "running"
      /\ StartedRecord(r).request = r
  BY DEF StartedRecord, NewRecord
<1>3. r.request_id # None
  BY RequestsAssumption DEF RequestIds
<1>4. \A i \in DOMAIN records : records[i].status \notin {"accepted", "running"}
  <2>1. Len(waiting) = 0
    BY <1>1
  <2>. QED
    BY <1>1, <2>1 DEF ResourceInv, MotionResource, RunningIsTheSlot, WithStatus,
                      QueueIsTheAccepted, Waits
<1>5. RunningIsTheSlot'
  BY <1>1, <1>2, <1>3, <1>4 DEF RunningIsTheSlot, WithStatus
<1>6. QueueIsTheAccepted' /\ NoDuplicateWaits' /\ NoIdleQueue'
  BY <1>1, <1>2, <1>4 DEF QueueIsTheAccepted, Waits, NoDuplicateWaits, NoIdleQueue
<1>7. QueueBounded'
  BY <1>1, ConfigAssumption DEF QueueBounded, QueueCapacity, TypeOK
<1>8. OnlyMotionsAlive'
  BY <1>1, <1>2, <1>4 DEF OnlyMotionsAlive, IsMotion
<1>9. AutoCompleteIdle'
  BY <1>1, <1>2 DEF ResourceInv, AutoCompleteIdle, AutoComplete, TerminalStatuses
<1>. QED
  BY <1>5, <1>6, <1>7, <1>8, <1>9 DEF ResourceInv, MotionResource

\* A motion that joins the end of the queue.
LEMMA EnqueueResource ==
  ASSUME TypeOK, ResourceInv, NEW r \in Requests, Enqueue(r)
  PROVE  ResourceInv'
<1>1. /\ r.request_id \notin DOMAIN records
      /\ DOMAIN records' = DOMAIN records \cup {r.request_id}
      /\ \A i \in DOMAIN records : records'[i] = records[i]
      /\ records'[r.request_id].status = "accepted"
      /\ records'[r.request_id].request = r
      /\ waiting' = Append(waiting, r.request_id)
      /\ running' = running /\ config' = config
      /\ MotionBusy /\ ~QueueFull /\ IsMotion(r)
  BY DEF Enqueue, Admissible, IsNew, Register, NewRecord, QueuedBehind
<1>2. /\ Len(waiting) \in Nat
      /\ Len(waiting') = Len(waiting) + 1
      /\ \A k \in 1..Len(waiting) : waiting'[k] = waiting[k]
      /\ waiting'[Len(waiting) + 1] = r.request_id
  <2>1. waiting \in Seq(RequestIds) /\ r.request_id \in RequestIds
    BY DEF TypeOK, RequestIds
  <2>. QED
    BY <1>1, <2>1, AppendProperties, LenProperties
<1>3. \A k \in 1..Len(waiting) : waiting[k] \in DOMAIN records
  BY DEF ResourceInv, MotionResource, QueueIsTheAccepted
<1>4. RunningIsTheSlot'
  BY <1>1 DEF ResourceInv, MotionResource, RunningIsTheSlot, WithStatus
<1>5. QueueIsTheAccepted'
  <2>1. Waits(r.request_id)'
    BY <1>2 DEF Waits
  <2>2. \A id \in DOMAIN records : Waits(id)' <=> Waits(id)
    <3>. SUFFICES ASSUME NEW id \in DOMAIN records PROVE Waits(id)' <=> Waits(id)
      OBVIOUS
    <3>1. id # r.request_id
      BY <1>1
    <3>. QED
      BY <1>2, <3>1 DEF Waits
  <2>3. \A k \in 1..Len(waiting') : waiting'[k] \in DOMAIN records'
    BY <1>1, <1>2, <1>3
  <2>. QED
    BY <1>1, <2>1, <2>2, <2>3 DEF ResourceInv, MotionResource, QueueIsTheAccepted
<1>6. NoDuplicateWaits'
  BY <1>1, <1>2, <1>3 DEF ResourceInv, MotionResource, NoDuplicateWaits
<1>7. NoIdleQueue'
  BY <1>1 DEF ResourceInv, MotionResource, NoIdleQueue, MotionBusy
<1>8. QueueBounded'
  BY <1>1, <1>2, ConfigAssumption DEF QueueBounded, QueueFull, QueueCapacity, TypeOK
<1>9. OnlyMotionsAlive'
  BY <1>1 DEF ResourceInv, MotionResource, OnlyMotionsAlive, IsMotion
<1>10. AutoCompleteIdle'
  BY <1>1 DEF ResourceInv, AutoCompleteIdle, AutoComplete, MotionBusy
<1>. QED
  BY <1>4, <1>5, <1>6, <1>7, <1>8, <1>9, <1>10 DEF ResourceInv, MotionResource

\* The running motion ends and the first fresh one in the queue takes its place.
LEMMA FinishResource ==
  ASSUME TypeOK, ResourceInv, NEW id, IsRunning(id),
         NEW s \in TerminalStatuses, NEW c, Finish(id, s, c)
  PROVE  ResourceInv'
<1>1. id \in DOMAIN records /\ id = running /\ id # None
  <2>1. id \in WithStatus("running")
    BY DEF IsRunning, WithStatus
  <2>. QED
    BY <2>1 DEF ResourceInv, MotionResource, RunningIsTheSlot, WithStatus
<1>2. ~AutoComplete
  BY <1>1 DEF ResourceInv, AutoCompleteIdle
<1>3. /\ waiting \in Seq(RequestIds) /\ Len(waiting) \in Nat
      /\ \A k \in 1..Len(waiting) : waiting[k] \in DOMAIN records
      /\ \A k \in 1..Len(waiting) : records[waiting[k]].status = "accepted"
  <2>1. waiting \in Seq(RequestIds) /\ Len(waiting) \in Nat
    BY LenProperties DEF TypeOK
  <2>. QED
    BY <2>1 DEF ResourceInv, MotionResource, QueueIsTheAccepted, Waits
<1>4. PICK n \in 1..(Len(waiting) + 1) :
        /\ records' = [i \in DOMAIN records |->
             IF i = id THEN FinishedRecord(records[i], s, c)
             ELSE IF \E k \in 1..(n - 1) : waiting[k] = i
               THEN DroppedRecord(records[i], "expired", "stale")
             ELSE IF n <= Len(waiting) /\ waiting[n] = i
               THEN StartedRecord(records[i].request)
             ELSE records[i]]
        /\ running' = IF n <= Len(waiting) THEN waiting[n] ELSE None
        /\ waiting' = SubSeq(waiting, n + 1, Len(waiting))
  BY DEF Finish
<1>5. /\ waiting' \in Seq(RequestIds)
      /\ Len(waiting') = IF n <= Len(waiting) THEN Len(waiting) - n ELSE 0
      /\ \A k \in 1..Len(waiting') : waiting'[k] = waiting[n + k]
  BY <1>3, <1>4, QueueTail
<1>6. config' = config
  BY DEF Finish
<1>. DEFINE Expires(i) == \E k \in 1..(n - 1) : waiting[k] = i
            Starts(i) == n <= Len(waiting) /\ waiting[n] = i
<1>7. \A i \in DOMAIN records : records[i] \in RecordType
  BY DEF TypeOK
\* The statuses after the step.
<1>8. /\ DOMAIN records' = DOMAIN records
      /\ records'[id].status = s
      /\ \A i \in DOMAIN records \ {id} :
           /\ Expires(i) => records'[i].status = "expired"
           /\ (~Expires(i) /\ Starts(i)) => records'[i].status = "running"
           /\ (~Expires(i) /\ ~Starts(i)) => records'[i] = records[i]
      /\ \A i \in DOMAIN records : records'[i].request = records[i].request
  BY <1>1, <1>2, <1>4, <1>7
     DEF FinishedRecord, DroppedRecord, StartedRecord, NewRecord, RecordType
\* What waits after the step is what waited behind position n.
<1>9. \A i \in DOMAIN records :
        Waits(i)' <=> Waits(i) /\ ~Expires(i) /\ ~Starts(i)
  <2>. SUFFICES ASSUME NEW i \in DOMAIN records
                PROVE  Waits(i)' <=> Waits(i) /\ ~Expires(i) /\ ~Starts(i)
    OBVIOUS
  <2>1. ASSUME Waits(i)'
        PROVE  Waits(i) /\ ~Expires(i) /\ ~Starts(i)
    <3>1. PICK k \in 1..Len(waiting') : waiting'[k] = i
      BY <2>1 DEF Waits
    <3>2. n <= Len(waiting) /\ n + k \in 1..Len(waiting) /\ waiting[n + k] = i
      BY <1>3, <1>5, <3>1
    <3>3. \A j \in 1..Len(waiting) : waiting[j] = i => j = n + k
      BY <3>2 DEF ResourceInv, MotionResource, NoDuplicateWaits
    <3>4. ~Expires(i)
      BY <1>3, <3>2, <3>3
    <3>5. ~Starts(i)
      BY <1>3, <3>2, <3>3
    <3>. QED
      BY <3>2, <3>4, <3>5 DEF Waits
  <2>2. ASSUME Waits(i), ~Expires(i), ~Starts(i)
        PROVE  Waits(i)'
    <3>1. PICK j \in 1..Len(waiting) : waiting[j] = i
      BY <2>2 DEF Waits
    <3>2. j > n
      BY <1>3, <2>2, <3>1
    <3>3. j - n \in 1..Len(waiting') /\ waiting'[j - n] = i
      BY <1>3, <1>5, <3>1, <3>2
    <3>. QED
      BY <3>3 DEF Waits
  <2>. QED
    BY <2>1, <2>2
<1>10. \A i \in DOMAIN records : Expires(i) \/ Starts(i) => Waits(i)
  BY <1>3 DEF Waits
<1>11. \A i \in DOMAIN records : Waits(i) <=> records[i].status = "accepted"
  BY DEF ResourceInv, MotionResource, QueueIsTheAccepted
<1>12. \A i \in DOMAIN records : records[i].status = "running" <=> i = id
  BY <1>1 DEF ResourceInv, MotionResource, RunningIsTheSlot, WithStatus
<1>13. n <= Len(waiting) => ~Expires(waiting[n]) /\ waiting[n] # id
  <2>. SUFFICES ASSUME n <= Len(waiting)
                PROVE  ~Expires(waiting[n]) /\ waiting[n] # id
    OBVIOUS
  <2>1. waiting[n] # id
    BY <1>3, <1>12
  <2>2. ~Expires(waiting[n])
    BY <1>3 DEF ResourceInv, MotionResource, NoDuplicateWaits
  <2>. QED
    BY <2>1, <2>2
<1>14. s # "running" /\ s # "accepted"
  BY DEF TerminalStatuses
<1>. HIDE DEF Expires, Starts
<1>15. RunningIsTheSlot'
  <2>1. \A i \in DOMAIN records : records'[i].status = "running" <=> Starts(i)
    <3>. SUFFICES ASSUME NEW i \in DOMAIN records
                  PROVE  records'[i].status = "running" <=> Starts(i)
      OBVIOUS
    <3>1. Starts(i) => i # id /\ ~Expires(i)
      BY <1>13 DEF Starts
    <3>2. CASE i = id
      BY <1>8, <1>14, <3>1, <3>2
    <3>3. CASE i # id
      BY <1>8, <1>12, <3>1, <3>3
    <3>. QED
      BY <3>2, <3>3
  <2>2. CASE n <= Len(waiting)
    <3>1. waiting[n] \in DOMAIN records /\ waiting[n] # None
      BY <1>3, <2>2, RequestsAssumption DEF TypeOK
    <3>. QED
      BY <1>4, <1>8, <2>1, <2>2, <3>1 DEF RunningIsTheSlot, WithStatus, Starts
  <2>3. CASE ~(n <= Len(waiting))
    BY <1>4, <1>8, <2>1, <2>3 DEF RunningIsTheSlot, WithStatus, Starts
  <2>. QED
    BY <2>2, <2>3
<1>16. QueueIsTheAccepted'
  <2>1. \A i \in DOMAIN records : records'[i].status = "accepted" <=> Waits(i)'
    <3>. SUFFICES ASSUME NEW i \in DOMAIN records
                  PROVE  records'[i].status = "accepted" <=> Waits(i)'
      OBVIOUS
    <3>1. CASE i = id
      BY <1>8, <1>9, <1>11, <1>12, <1>14, <3>1
    <3>2. CASE i # id
      BY <1>8, <1>9, <1>11, <3>2
    <3>. QED
      BY <3>1, <3>2
  <2>2. \A k \in 1..Len(waiting') : waiting'[k] \in DOMAIN records'
    BY <1>3, <1>5, <1>8
  <2>. QED
    BY <1>8, <2>1, <2>2 DEF QueueIsTheAccepted
<1>17. NoDuplicateWaits'
  <2>. SUFFICES ASSUME NEW j \in 1..Len(waiting'), NEW k \in 1..Len(waiting'),
                       waiting'[j] = waiting'[k]
                PROVE  j = k
    BY DEF NoDuplicateWaits
  <2>1. /\ n + j \in 1..Len(waiting) /\ n + k \in 1..Len(waiting)
        /\ waiting[n + j] = waiting[n + k]
    BY <1>3, <1>5
  <2>2. n + j = n + k
    BY <2>1 DEF ResourceInv, MotionResource, NoDuplicateWaits
  <2>. QED
    BY <1>3, <1>5, <2>2
<1>18. NoIdleQueue'
  <2>1. CASE n <= Len(waiting)
    <3>1. running' # None
      BY <1>3, <1>4, <2>1, RequestsAssumption DEF TypeOK
    <3>. QED
      BY <3>1 DEF NoIdleQueue
  <2>2. CASE ~(n <= Len(waiting))
    <3>1. waiting' = <<>>
      BY <1>3, <1>4, <2>2, SubSeqEmpty
    <3>. QED
      BY <3>1 DEF NoIdleQueue
  <2>. QED
    BY <2>1, <2>2
<1>19. QueueBounded'
  BY <1>3, <1>5, <1>6, ConfigAssumption
     DEF ResourceInv, MotionResource, QueueBounded, QueueCapacity, TypeOK
<1>20. OnlyMotionsAlive'
  <2>1. \A i \in DOMAIN records :
          records'[i].status \in {"accepted", "running"}
            => records[i].status \in {"accepted", "running"}
    BY <1>8, <1>10, <1>11, <1>14
  <2>. QED
    BY <1>8, <2>1 DEF ResourceInv, MotionResource, OnlyMotionsAlive, IsMotion
<1>21. AutoCompleteIdle'
  BY <1>2, <1>6 DEF AutoCompleteIdle, AutoComplete
<1>. QED
  BY <1>15, <1>16, <1>17, <1>18, <1>19, <1>20, <1>21 DEF ResourceInv, MotionResource

\* A waiting motion is cancelled and leaves the queue.
LEMMA CancelWaitingResource ==
  ASSUME TypeOK, ResourceInv, NEW id, CancelWaiting(id)
  PROVE  ResourceInv'
<1>1. waiting \in Seq(RequestIds) /\ Len(waiting) \in Nat
  BY LenProperties DEF TypeOK
<1>2. PICK n \in 1..Len(waiting) : waiting[n] = id /\ waiting' = RemoveAt(waiting, n)
  BY DEF CancelWaiting
<1>3. /\ Len(waiting') = Len(waiting) - 1
      /\ \A k \in 1..Len(waiting') :
           waiting'[k] = IF k < n THEN waiting[k] ELSE waiting[k + 1]
  BY <1>1, <1>2, QueueRemoval
<1>4. /\ id \in DOMAIN records /\ records[id].status = "accepted"
      /\ running' = running /\ config' = config
      /\ DOMAIN records' = DOMAIN records
      /\ \A i \in DOMAIN records : i # id => records'[i] = records[i]
      /\ records'[id].status = "cancelled"
      /\ records'[id].request = records[id].request
  <2>1. records \in [DOMAIN records -> RecordType]
    BY DEF TypeOK
  <2>. QED
    BY <2>1 DEF CancelWaiting, DroppedRecord, RecordType
<1>5. RunningIsTheSlot'
  BY <1>4 DEF ResourceInv, MotionResource, RunningIsTheSlot, WithStatus
<1>6. \A i \in DOMAIN records : Waits(i)' <=> Waits(i) /\ i # id
  <2>. SUFFICES ASSUME NEW i \in DOMAIN records
                PROVE  Waits(i)' <=> Waits(i) /\ i # id
    OBVIOUS
  <2>1. ASSUME Waits(i)' PROVE Waits(i) /\ i # id
    <3>1. PICK k \in 1..Len(waiting') : waiting'[k] = i
      BY <2>1 DEF Waits
    <3>2. PICK j \in 1..Len(waiting) : j # n /\ waiting[j] = i
      BY <1>1, <1>3, <3>1
    <3>. QED
      BY <1>2, <3>2 DEF Waits, ResourceInv, MotionResource, NoDuplicateWaits
  <2>2. ASSUME Waits(i), i # id PROVE Waits(i)'
    <3>1. PICK j \in 1..Len(waiting) : waiting[j] = i
      BY <2>2 DEF Waits
    <3>2. j # n
      BY <1>2, <2>2, <3>1
    <3>3. CASE j < n
      BY <1>1, <1>3, <3>1, <3>3 DEF Waits
    <3>4. CASE j > n
      <4>1. j - 1 \in 1..Len(waiting') /\ waiting'[j - 1] = i
        BY <1>1, <1>3, <3>1, <3>4
      <4>. QED
        BY <4>1 DEF Waits
    <3>. QED
      BY <1>1, <3>2, <3>3, <3>4
  <2>. QED
    BY <2>1, <2>2
<1>7. QueueIsTheAccepted'
  <2>1. \A i \in DOMAIN records : records'[i].status = "accepted" <=> Waits(i)'
    BY <1>4, <1>6 DEF ResourceInv, MotionResource, QueueIsTheAccepted
  <2>2. \A k \in 1..Len(waiting') : waiting'[k] \in DOMAIN records
    BY <1>1, <1>3 DEF ResourceInv, MotionResource, QueueIsTheAccepted
  <2>. QED
    BY <1>4, <2>1, <2>2 DEF QueueIsTheAccepted
<1>8. NoDuplicateWaits'
  BY <1>1, <1>3 DEF ResourceInv, MotionResource, NoDuplicateWaits
<1>9. NoIdleQueue'
  <2>1. waiting # <<>>
    BY <1>1, <1>2
  <2>. QED
    BY <1>4, <2>1 DEF ResourceInv, MotionResource, NoIdleQueue
<1>10. QueueBounded'
  BY <1>1, <1>3, <1>4, ConfigAssumption
     DEF ResourceInv, MotionResource, QueueBounded, QueueCapacity, TypeOK
<1>11. OnlyMotionsAlive'
  BY <1>4 DEF ResourceInv, MotionResource, OnlyMotionsAlive, IsMotion
<1>12. AutoCompleteIdle'
  BY <1>4 DEF ResourceInv, AutoCompleteIdle, AutoComplete, TerminalStatuses
<1>. QED
  BY <1>5, <1>7, <1>8, <1>9, <1>10, <1>11, <1>12 DEF ResourceInv, MotionResource

LEMMA ResourceStep == TypeOK /\ ResourceInv /\ [Next]_vars => ResourceInv'
<1>. SUFFICES ASSUME TypeOK, ResourceInv, [Next]_vars PROVE ResourceInv'
  OBVIOUS
<1>1. ASSUME UNCHANGED <<config, records, running, waiting>> PROVE ResourceInv'
  BY <1>1 DEF ResourceInv, MotionResource, AutoCompleteIdle, RunningIsTheSlot,
    QueueIsTheAccepted, NoDuplicateWaits, NoIdleQueue, QueueBounded, OnlyMotionsAlive,
    WithStatus, Waits, QueueCapacity, AutoComplete, IsMotion
<1>2. ASSUME NEW r \in Requests,
             RejectUnavailable(r) \/ ExpireOnSubmit(r) \/ Observe(r) \/ RejectBusy(r)
      PROVE  ResourceInv'
  <2>1. \E s \in TerminalStatuses, c \in ErrorCategories : Immediate(r, s, c)
    BY <1>2, StatusMembers
       DEF RejectUnavailable, ExpireOnSubmit, Observe, RejectBusy, TerminalStatuses
  <2>2. IsNew(r)
    BY <1>2 DEF RejectUnavailable, ExpireOnSubmit, Observe, RejectBusy, Admissible
  <2>. QED
    BY <2>1, <2>2, SettledResource
<1>3. ASSUME NEW r \in Requests, Stop(r) PROVE ResourceInv'
  BY <1>3, StopResource
<1>4. ASSUME NEW r \in Requests, StartNow(r) PROVE ResourceInv'
  BY <1>4, StartNowResource
<1>5. ASSUME NEW r \in Requests, Enqueue(r) PROVE ResourceInv'
  BY <1>5, EnqueueResource
<1>6. ASSUME NEW id \in RequestIds, IsRunning(id),
             \/ Finish(id, "completed", "none")
             \/ Finish(id, "failed", "internal")
             \/ Finish(id, "cancelled", "cancelled")
      PROVE  ResourceInv'
  <2>1. {"completed", "failed", "cancelled"} \subseteq TerminalStatuses
    BY DEF TerminalStatuses
  <2>. QED
    BY <1>6, <2>1, FinishResource
<1>7. ASSUME NEW id \in RequestIds, CancelWaiting(id) PROVE ResourceInv'
  BY <1>7, CancelWaitingResource
<1>8. (Tick \/ StepWall \/ UNCHANGED vars) =>
        UNCHANGED <<config, records, running, waiting>>
  BY DEF Tick, StepWall, vars
<1>. QED
  BY <1>1, <1>2, <1>3, <1>4, <1>5, <1>6, <1>7, <1>8, StepCases

LEMMA ResourceInvariance == Spec => [](TypeOK /\ ResourceInv)
<1>1. Init => TypeOK /\ ResourceInv
  BY InitType, InitResource
<1>2. TypeOK /\ ResourceInv /\ [Next]_vars => (TypeOK /\ ResourceInv)'
  BY TypeStep, ResourceStep
<1>. QED
  BY <1>1, <1>2, PTL DEF Spec

\* The slot, the queue and the statuses of the records agree in every reachable
\* state, and the queue never outgrows its capacity.
THEOREM ResourceCorrect == Spec => []MotionResource
BY ResourceInvariance, PTL DEF ResourceInv

\* With auto_complete nothing is left running or waiting when a call returns.
THEOREM AutoCompleteCorrect == Spec => []AutoCompleteIdle
BY ResourceInvariance, PTL DEF ResourceInv
-----------------------------------------------------------------------------
(***************************************************************************)
(* What one step does to the records, for identity and for the refinement. *)
(***************************************************************************)

Moves(s, t) == t = s \/ t \in Lifecycle!Successors(s)

\* A recorded request is never overwritten, a terminal record never touched, and
\* a status only moves along the life cycle.
Kept(i) ==
  /\ records'[i].request = records[i].request
  /\ records[i].status \in TerminalStatuses => records'[i] = records[i]
  /\ Moves(records[i].status, records'[i].status)

NoNewRecord == DOMAIN records' = DOMAIN records /\ idempotency' = idempotency

NewRecordOf(r) ==
  /\ IsNew(r)
  /\ DOMAIN records' = DOMAIN records \cup {r.request_id}
  /\ records'[r.request_id].request = r
  /\ Moves("new", records'[r.request_id].status)
  /\ DOMAIN idempotency' = DOMAIN idempotency \cup {KeyOf(r)}
  /\ idempotency'[KeyOf(r)] = r.request_id
  /\ \A k \in DOMAIN idempotency : k # KeyOf(r) => idempotency'[k] = idempotency[k]

LEMMA LegalMoves ==
  /\ \A s \in ActionStatuses : Moves(s, s)
  /\ \A t \in {"accepted", "running", "completed", "rejected", "expired"} : Moves("new", t)
  /\ \A t \in {"running", "expired", "cancelled"} : Moves("accepted", t)
  /\ \A t \in {"completed", "cancelled", "failed"} : Moves("running", t)
BY DEF Moves, Lifecycle!Successors, Lifecycle!Terminal

\* A call that records one request and leaves the other records alone.
LEMMA RegisterKeeps ==
  ASSUME TypeOK, NEW r \in Requests, IsNew(r), NEW rec, rec.request = r,
         Moves("new", rec.status), Register(r, rec, records)
  PROVE  NewRecordOf(r) /\ \A i \in DOMAIN records : Kept(i)
<1>1. r.request_id \notin DOMAIN records
  BY DEF IsNew
<1>2. \A i \in DOMAIN records : records'[i] = records[i]
  BY <1>1 DEF Register
<1>3. \A i \in DOMAIN records : records[i].status \in ActionStatuses
  BY DEF TypeOK, RecordType
<1>4. \A i \in DOMAIN records : Kept(i)
  BY <1>2, <1>3, LegalMoves DEF Kept
<1>5. NewRecordOf(r)
  BY DEF NewRecordOf, Register
<1>. QED
  BY <1>4, <1>5

LEMMA StopKeeps ==
  ASSUME TypeOK, ResourceInv, NEW r \in Requests, Stop(r)
  PROVE  NewRecordOf(r) /\ \A i \in DOMAIN records : Kept(i)
<1>1. IsNew(r) /\ r.request_id \notin DOMAIN records
  BY DEF Stop, Admissible, IsNew
<1>. DEFINE recs == [i \in DOMAIN records |-> Preempted(i)]
<1>2. Register(r, NewRecord(r, "completed", "none"), recs)
  BY DEF Stop
<1>3. /\ NewRecord(r, "completed", "none").request = r
      /\ NewRecord(r, "completed", "none").status = "completed"
  BY DEF NewRecord
<1>4. \A i \in DOMAIN records : records'[i] = Preempted(i)
  BY <1>1, <1>2 DEF Register
<1>5. NewRecordOf(r)
  BY <1>1, <1>2, <1>3, LegalMoves DEF NewRecordOf, Register
<1>6. ASSUME NEW i \in DOMAIN records PROVE Kept(i)
  <2>1. records[i] \in RecordType
    BY DEF TypeOK
  <2>2. CASE i = running
    <3>1. records[i].status = "running"
      BY <2>2, RequestsAssumption
         DEF ResourceInv, MotionResource, RunningIsTheSlot, WithStatus, TypeOK
    <3>2. /\ Preempted(i).request = records[i].request
          /\ Preempted(i).status = "cancelled"
      BY <2>1, <2>2 DEF Preempted, FinishedRecord, RecordType
    <3>. QED
      BY <1>4, <3>1, <3>2, LegalMoves DEF Kept, TerminalStatuses
  <2>3. CASE i # running /\ Waits(i)
    <3>1. records[i].status = "accepted"
      BY <2>3 DEF ResourceInv, MotionResource, QueueIsTheAccepted
    <3>2. /\ Preempted(i).request = records[i].request
          /\ Preempted(i).status = "cancelled"
      BY <2>1, <2>3 DEF Preempted, DroppedRecord, RecordType, Waits
    <3>. QED
      BY <1>4, <3>1, <3>2, LegalMoves DEF Kept, TerminalStatuses
  <2>4. CASE i # running /\ ~Waits(i)
    <3>1. Preempted(i) = records[i]
      BY <2>4 DEF Preempted, Waits
    <3>2. records[i].status \in ActionStatuses
      BY <2>1 DEF RecordType
    <3>. QED
      BY <1>4, <3>1, <3>2, LegalMoves DEF Kept
  <2>. QED
    BY <2>2, <2>3, <2>4
<1>. QED
  BY <1>5, <1>6

LEMMA FinishKeeps ==
  ASSUME TypeOK, ResourceInv, NEW id, IsRunning(id),
         NEW s \in {"completed", "failed", "cancelled"}, NEW c, Finish(id, s, c)
  PROVE  NoNewRecord /\ \A i \in DOMAIN records : Kept(i)
<1>1. id \in DOMAIN records /\ records[id].status = "running" /\ id = running /\ id # None
  <2>1. id \in WithStatus("running")
    BY DEF IsRunning, WithStatus
  <2>. QED
    BY <2>1 DEF ResourceInv, MotionResource, RunningIsTheSlot, WithStatus
<1>2. ~AutoComplete
  BY <1>1 DEF ResourceInv, AutoCompleteIdle
<1>3. PICK n \in 1..(Len(waiting) + 1) :
        records' = [i \in DOMAIN records |->
             IF i = id THEN FinishedRecord(records[i], s, c)
             ELSE IF \E k \in 1..(n - 1) : waiting[k] = i
               THEN DroppedRecord(records[i], "expired", "stale")
             ELSE IF n <= Len(waiting) /\ waiting[n] = i
               THEN StartedRecord(records[i].request)
             ELSE records[i]]
  BY DEF Finish
<1>4. NoNewRecord
  BY <1>3 DEF NoNewRecord, Finish
<1>5. ASSUME NEW i \in DOMAIN records PROVE Kept(i)
  <2>1. records[i] \in RecordType /\ Len(waiting) \in Nat
    BY LenProperties DEF TypeOK
  <2>2. CASE i = id
    <3>1. /\ records'[i].request = records[i].request
          /\ records'[i].status = s
      BY <1>3, <2>1, <2>2 DEF FinishedRecord, RecordType
    <3>. QED
      BY <1>1, <2>2, <3>1, LegalMoves DEF Kept, TerminalStatuses
  <2>3. CASE i # id /\ \E k \in 1..(n - 1) : waiting[k] = i
    <3>1. records[i].status = "accepted"
      BY <2>1, <2>3 DEF ResourceInv, MotionResource, QueueIsTheAccepted, Waits
    <3>2. /\ records'[i].request = records[i].request
          /\ records'[i].status = "expired"
      BY <1>3, <2>1, <2>3 DEF DroppedRecord, RecordType
    <3>. QED
      BY <3>1, <3>2, LegalMoves DEF Kept, TerminalStatuses
  <2>4. CASE /\ i # id /\ ~\E k \in 1..(n - 1) : waiting[k] = i
             /\ n <= Len(waiting) /\ waiting[n] = i
    <3>1. records[i].status = "accepted"
      BY <2>1, <2>4 DEF ResourceInv, MotionResource, QueueIsTheAccepted, Waits
    <3>2. /\ records'[i].request = records[i].request
          /\ records'[i].status = "running"
      BY <1>2, <1>3, <2>4 DEF StartedRecord, NewRecord
    <3>. QED
      BY <3>1, <3>2, LegalMoves DEF Kept, TerminalStatuses
  <2>5. CASE /\ i # id /\ ~\E k \in 1..(n - 1) : waiting[k] = i
             /\ ~(n <= Len(waiting) /\ waiting[n] = i)
    <3>1. records'[i] = records[i]
      BY <1>3, <2>5
    <3>2. records[i].status \in ActionStatuses
      BY <2>1 DEF RecordType
    <3>. QED
      BY <3>1, <3>2, LegalMoves DEF Kept
  <2>. QED
    BY <2>2, <2>3, <2>4, <2>5
<1>. QED
  BY <1>4, <1>5

LEMMA CancelWaitingKeeps ==
  ASSUME TypeOK, NEW id, CancelWaiting(id)
  PROVE  NoNewRecord /\ \A i \in DOMAIN records : Kept(i)
<1>1. records \in [DOMAIN records -> RecordType]
  BY DEF TypeOK
<1>2. records' = [records EXCEPT ![id] = DroppedRecord(@, "cancelled", "cancelled")]
  BY DEF CancelWaiting
<1>3. id \in DOMAIN records /\ records[id].status = "accepted"
  BY DEF CancelWaiting
<1>4. NoNewRecord
  BY <1>1, <1>2 DEF NoNewRecord, CancelWaiting
<1>5. ASSUME NEW i \in DOMAIN records PROVE Kept(i)
  <2>1. CASE i = id
    <3>1. /\ records'[i].request = records[i].request
          /\ records'[i].status = "cancelled"
      BY <1>1, <1>2, <1>3, <2>1 DEF DroppedRecord, RecordType
    <3>. QED
      BY <1>3, <2>1, <3>1, LegalMoves DEF Kept, TerminalStatuses
  <2>2. CASE i # id
    <3>1. records'[i] = records[i] /\ records[i].status \in ActionStatuses
      BY <1>1, <1>2, <2>2 DEF RecordType
    <3>. QED
      BY <3>1, LegalMoves DEF Kept
  <2>. QED
    BY <2>1, <2>2
<1>. QED
  BY <1>4, <1>5

LEMMA StepKeeps ==
  ASSUME TypeOK, ResourceInv, [Next]_vars
  PROVE  /\ NoNewRecord \/ \E r \in Requests : NewRecordOf(r)
         /\ \A i \in DOMAIN records : Kept(i)
<1>. DEFINE Goal == /\ NoNewRecord \/ \E r \in Requests : NewRecordOf(r)
                    /\ \A i \in DOMAIN records : Kept(i)
<1>1. ASSUME UNCHANGED <<records, idempotency>> PROVE Goal
  <2>1. \A i \in DOMAIN records : records[i].status \in ActionStatuses
    BY DEF TypeOK, RecordType
  <2>. QED
    BY <1>1, <2>1, LegalMoves DEF NoNewRecord, Kept
<1>2. ASSUME NEW r \in Requests,
             RejectUnavailable(r) \/ ExpireOnSubmit(r) \/ Observe(r) \/ RejectBusy(r)
      PROVE  Goal
  <2>1. PICK s \in {"rejected", "expired", "completed"}, c \in ErrorCategories :
          Immediate(r, s, c)
    BY <1>2, StatusMembers DEF RejectUnavailable, ExpireOnSubmit, Observe, RejectBusy
  <2>2. IsNew(r)
    BY <1>2 DEF RejectUnavailable, ExpireOnSubmit, Observe, RejectBusy, Admissible
  <2>3. NewRecord(r, s, c).request = r /\ NewRecord(r, s, c).status = s
    BY DEF NewRecord
  <2>4. Register(r, NewRecord(r, s, c), records)
    BY <2>1 DEF Immediate
  <2>. QED
    BY <2>2, <2>3, <2>4, LegalMoves, RegisterKeeps
<1>3. ASSUME NEW r \in Requests, Stop(r) PROVE Goal
  BY <1>3, StopKeeps
<1>4. ASSUME NEW r \in Requests, StartNow(r) PROVE Goal
  <2>1. /\ StartedRecord(r).request = r
        /\ StartedRecord(r).status \in {"completed", "running"}
    BY DEF StartedRecord, NewRecord
  <2>2. IsNew(r) /\ Register(r, StartedRecord(r), records)
    BY <1>4 DEF StartNow, Admissible
  <2>. QED
    BY <2>1, <2>2, LegalMoves, RegisterKeeps
<1>5. ASSUME NEW r \in Requests, Enqueue(r) PROVE Goal
  <2>1. /\ NewRecord(r, "accepted", "none").request = r
        /\ NewRecord(r, "accepted", "none").status = "accepted"
    BY DEF NewRecord
  <2>2. IsNew(r) /\ Register(r, NewRecord(r, "accepted", "none"), records)
    BY <1>5 DEF Enqueue, Admissible
  <2>. QED
    BY <2>1, <2>2, LegalMoves, RegisterKeeps
<1>6. ASSUME NEW id \in RequestIds, IsRunning(id),
             \/ Finish(id, "completed", "none")
             \/ Finish(id, "failed", "internal")
             \/ Finish(id, "cancelled", "cancelled")
      PROVE  Goal
  BY <1>6, FinishKeeps
<1>7. ASSUME NEW id \in RequestIds, CancelWaiting(id) PROVE Goal
  BY <1>7, CancelWaitingKeeps
<1>8. (Tick \/ StepWall \/ UNCHANGED vars) => UNCHANGED <<records, idempotency>>
  BY DEF Tick, StepWall, vars
<1>. HIDE DEF Goal
<1>9. Goal
  BY <1>1, <1>2, <1>3, <1>4, <1>5, <1>6, <1>7, <1>8, StepCases
<1>. QED
  BY <1>9 DEF Goal
-----------------------------------------------------------------------------
(* Identity *)

\* A record is never replaced, nor a terminal result changed, by any later call.
THEOREM TerminalCorrect == Spec => TerminalIsFinal
<1>1. TypeOK /\ ResourceInv /\ [Next]_vars =>
        [\A id \in DOMAIN records :
           /\ id \in DOMAIN records'
           /\ records'[id].request = records[id].request
           /\ records[id].status \in TerminalStatuses => records'[id] = records[id]]_vars
  BY StepKeeps DEF NoNewRecord, NewRecordOf, Kept
<1>. QED
  BY <1>1, ResourceInvariance, PTL DEF Spec, TerminalIsFinal

\* Keys and records name each other: no idempotency key is ever claimed twice.
THEOREM KeysCorrect == Spec => []KeysIdentify
<1>1. Init => KeysIdentify
  BY DEF Init, KeysIdentify
<1>2. TypeOK /\ ResourceInv /\ KeysIdentify /\ [Next]_vars => KeysIdentify'
  <2>. SUFFICES ASSUME TypeOK, ResourceInv, KeysIdentify, [Next]_vars
                PROVE  KeysIdentify'
    OBVIOUS
  <2>1. \A i \in DOMAIN records : records'[i].request = records[i].request
    BY StepKeeps DEF Kept
  <2>2. CASE NoNewRecord
    BY <2>1, <2>2 DEF NoNewRecord, KeysIdentify, KeyOf
  <2>3. ASSUME NEW r \in Requests, NewRecordOf(r) PROVE KeysIdentify'
    <3>1. r.request_id \notin DOMAIN records /\ KeyOf(r) \notin DOMAIN idempotency
      BY <2>3 DEF NewRecordOf, IsNew
    <3>2. \A id \in DOMAIN records' :
            /\ records'[id].request.request_id = id
            /\ KeyOf(records'[id].request) \in DOMAIN idempotency'
            /\ idempotency'[KeyOf(records'[id].request)] = id
      <4>1. \A id \in DOMAIN records :
              /\ records'[id].request.request_id = id
              /\ KeyOf(records'[id].request) \in DOMAIN idempotency
              /\ idempotency[KeyOf(records'[id].request)] = id
        BY <2>1 DEF KeysIdentify
      <4>2. \A k \in DOMAIN idempotency :
              k \in DOMAIN idempotency' /\ idempotency'[k] = idempotency[k]
        BY <2>3, <3>1 DEF NewRecordOf
      <4>. QED
        BY <2>3, <4>1, <4>2 DEF NewRecordOf
    <3>3. \A k \in DOMAIN idempotency' : idempotency'[k] \in DOMAIN records'
      BY <2>3, <3>1 DEF NewRecordOf, KeysIdentify
    <3>. QED
      BY <3>2, <3>3 DEF KeysIdentify, KeyOf
  <2>. QED
    BY <2>2, <2>3, StepKeeps
<1>. QED
  BY <1>1, <1>2, ResourceInvariance, PTL DEF Spec
-----------------------------------------------------------------------------
(* Refinement *)

LEMMA AbstractInit == Init => Lifecycle!Init
<1>. SUFFICES ASSUME Init PROVE AbstractStatus = [i \in RequestIds |-> "new"]
  BY DEF Lifecycle!Init
<1>1. DOMAIN records = {}
  BY DEF Init
<1>. QED
  BY <1>1 DEF AbstractStatus, StatusOf

\* In a state where the invariants hold the abstract status obeys the resource
\* rule.  Stated of the state after a step.
LEMMA AbstractRule ==
  ASSUME TypeOK', ResourceInv', KeysIdentify'
  PROVE  Lifecycle!ResourceRule(AbstractStatus')
<1>. DEFINE st == AbstractStatus'
<1>1. \A i \in RequestIds :
        st[i] = IF i \in DOMAIN records' THEN records'[i].status ELSE "new"
  BY DEF AbstractStatus, StatusOf
<1>2. DOMAIN records' \subseteq RequestIds
  BY DEF TypeOK
<1>. HIDE DEF st
<1>3. \A i \in RequestIds :
        st[i] \in {"accepted", "running"} =>
          i \in DOMAIN records' /\ records'[i].status = st[i]
  BY <1>1
<1>4. \A i \in RequestIds : st[i] = "running" <=> i = running' /\ i # None
  <2>1. {i \in DOMAIN records' : records'[i].status = "running"} = {running'} \ {None}
    BY DEF ResourceInv, MotionResource, RunningIsTheSlot, WithStatus
  <2>. QED
    BY <1>1, <1>2, <2>1
<1>5. \A i \in RequestIds : st[i] \in {"accepted", "running"} => i \in MotionIds
  <2>. SUFFICES ASSUME NEW i \in RequestIds, st[i] \in {"accepted", "running"}
                PROVE  i \in MotionIds
    OBVIOUS
  <2>1. i \in DOMAIN records' /\ records'[i].status \in {"accepted", "running"}
    BY <1>3
  <2>2. records'[i].request \in Requests
    BY <2>1 DEF TypeOK, RecordType
  <2>3. IsMotion(records'[i].request)
    BY <2>1 DEF ResourceInv, MotionResource, OnlyMotionsAlive, IsMotion
  <2>4. records'[i].request.request_id = i
    BY <2>1 DEF KeysIdentify
  <2>. QED
    BY <2>2, <2>3, <2>4 DEF MotionIds
<1>6. ASSUME NEW i \in RequestIds, st[i] = "accepted"
      PROVE  \E j \in RequestIds : st[j] = "running"
  <2>1. Waits(i)'
    BY <1>3, <1>6 DEF ResourceInv, MotionResource, QueueIsTheAccepted
  <2>2. waiting' # <<>>
    BY <2>1 DEF Waits
  <2>3. running' # None /\ running' \in RequestIds
    BY <2>2 DEF ResourceInv, MotionResource, NoIdleQueue, TypeOK
  <2>. QED
    BY <1>4, <2>3
<1>7. Lifecycle!ResourceRule(st)
  BY <1>4, <1>5, <1>6 DEF Lifecycle!ResourceRule, Lifecycle!Active
<1>. QED
  BY <1>7 DEF st

LEMMA AbstractStep ==
  ASSUME TypeOK, ResourceInv, [Next]_vars, TypeOK', ResourceInv', KeysIdentify'
  PROVE  Lifecycle!Advance
<1>1. \A i \in RequestIds :
        /\ AbstractStatus[i] = StatusOf(i)
        /\ AbstractStatus'[i] = StatusOf(i)'
  BY DEF AbstractStatus
<1>2. AbstractStatus' \in [RequestIds -> Lifecycle!Statuses]
  <2>1. \A i \in RequestIds : StatusOf(i)' \in Lifecycle!Statuses
    <3>1. \A i \in DOMAIN records' : records'[i].status \in ActionStatuses
      BY DEF TypeOK, RecordType
    <3>. QED
      BY <3>1 DEF StatusOf, ActionStatuses, TerminalStatuses,
                  Lifecycle!Statuses, Lifecycle!Terminal
  <2>. QED
    BY <2>1 DEF AbstractStatus
<1>3. ASSUME NEW i \in RequestIds, AbstractStatus'[i] # AbstractStatus[i]
      PROVE  AbstractStatus'[i] \in Lifecycle!Successors(AbstractStatus[i])
  <2>1. Moves(StatusOf(i), StatusOf(i)')
    <3>1. CASE i \in DOMAIN records
      <4>1. i \in DOMAIN records' /\ Kept(i)
        BY <3>1, StepKeeps DEF NoNewRecord, NewRecordOf
      <4>. QED
        BY <3>1, <4>1 DEF Kept, StatusOf
    <3>2. CASE i \notin DOMAIN records /\ i \in DOMAIN records'
      <4>1. PICK r \in Requests : NewRecordOf(r)
        BY <3>2, StepKeeps DEF NoNewRecord
      <4>2. i = r.request_id
        BY <3>2, <4>1 DEF NewRecordOf
      <4>. QED
        BY <3>2, <4>1, <4>2 DEF NewRecordOf, StatusOf
    <3>3. CASE i \notin DOMAIN records /\ i \notin DOMAIN records'
      BY <3>3 DEF StatusOf, Moves
    <3>. QED
      BY <3>1, <3>2, <3>3
  <2>. QED
    BY <1>1, <1>3, <2>1 DEF Moves
<1>4. Lifecycle!ResourceRule(AbstractStatus')
  BY AbstractRule
<1>. QED
  BY <1>2, <1>3, <1>4 DEF Lifecycle!Advance

\* The agent implements the abstract life cycle: whatever is submitted,
\* completed, failed or cancelled, every request moves only along the life cycle
\* and the motion resource is never shared and never left idle with work waiting.
THEOREM Refinement == Spec => ImplementsLifecycle
<1>1. Init => Lifecycle!Init
  BY AbstractInit
<1>2. /\ TypeOK /\ ResourceInv /\ [Next]_vars
      /\ (TypeOK /\ ResourceInv)' /\ KeysIdentify'
      => [Lifecycle!Advance]_AbstractStatus
  BY AbstractStep
<1>3. Spec => [](TypeOK /\ ResourceInv) /\ []KeysIdentify
  BY ResourceInvariance, KeysCorrect
<1>. QED
  BY <1>1, <1>2, <1>3, PTL DEF Spec, ImplementsLifecycle, Lifecycle!Spec
-----------------------------------------------------------------------------
(***************************************************************************)
(* Deadlines.  NeverStartsStale is about the events a step publishes: they *)
(* all belong to Timely, the events that start nothing stale.              *)
(***************************************************************************)

StartsInTime(id) ==
  LET r == records'[id].request IN wall <= r.created_at + r.ttl_seconds

Timely == {e \in Events : e.status = "running" => StartsInTime(e.request_id)}

TimelyStep ==
  \A k \in (Len(events) + 1)..Len(events') :
    events'[k].status = "running" => StartsInTime(events'[k].request_id)

LEMMA TimelyAreEvents ==
  ASSUME NEW new \in Seq(Timely)
  PROVE  new \in Seq(Events)
BY SeqMonotonic DEF Timely

LEMMA TimelyEvents ==
  ASSUME TypeOK, NEW new \in Seq(Timely), events' = events \o new
  PROVE  TimelyStep
<1>. SUFFICES ASSUME NEW k \in (Len(events) + 1)..Len(events'), events'[k].status = "running"
              PROVE  StartsInTime(events'[k].request_id)
  BY DEF TimelyStep
<1>1. events \in Seq(Events) /\ new \in Seq(Events)
  BY TimelyAreEvents DEF TypeOK, Events
<1>2. Len(events) \in Nat /\ Len(new) \in Nat /\ Len(events') = Len(events) + Len(new)
  BY <1>1, ConcatProperties, LenProperties
<1>3. k - Len(events) \in 1..Len(new) /\ events'[k] = new[k - Len(events)]
  BY <1>1, <1>2, ConcatProperties
<1>4. new[k - Len(events)] \in Timely
  BY <1>3, LenProperties
<1>. QED
  BY <1>3, <1>4 DEF Timely

\* Everything but a start is timely, and so is the start of a fresh request.
LEMMA TimelyEvent ==
  ASSUME NEW id \in RequestIds, NEW s \in ActionStatuses,
         s = "running" => StartsInTime(id)
  PROVE  Event(id, s) \in Timely /\ <<Event(id, s)>> \in Seq(Timely)
<1>1. Event(id, s) \in Timely
  BY EventType DEF Timely, Event
<1>. QED
  BY <1>1

LEMMA TimelyStart ==
  ASSUME NEW id \in RequestIds, StartsInTime(id)
  PROVE  StartEvents(id) \in Seq(Timely)
<1>1. Event(id, "running") \in Timely /\ Event(id, "completed") \in Timely
  BY TimelyEvent, StatusMembers
<1>. QED
  BY <1>1 DEF StartEvents

LEMMA TimelyQueue ==
  ASSUME TypeOK, NEW n \in 0..Len(waiting), NEW s \in {"expired", "cancelled"}
  PROVE  [k \in 1..n |-> Event(waiting[k], s)] \in Seq(Timely)
<1>1. n \in Nat /\ \A k \in 1..n : waiting[k] \in RequestIds
  <2>1. waiting \in Seq(RequestIds)
    BY DEF TypeOK
  <2>. QED
    BY <2>1, LenProperties
<1>2. \A k \in 1..n : Event(waiting[k], s) \in Timely
  BY <1>1, TimelyEvent, StatusMembers
<1>. QED
  BY <1>1, <1>2, IsASeq

LEMMA AppendTimely ==
  ASSUME TypeOK, NEW id \in RequestIds, NEW s \in ActionStatuses \ {"running"},
         events' = Append(events, Event(id, s))
  PROVE  TimelyStep
<1>1. <<Event(id, s)>> \in Seq(Timely)
  BY TimelyEvent
<1>2. events' = events \o <<Event(id, s)>>
  BY AppendProperties DEF TypeOK
<1>. QED
  BY <1>1, <1>2, TimelyEvents

LEMMA StopTimely ==
  ASSUME TypeOK, NEW r \in Requests, Stop(r)
  PROVE  TimelyStep
<1>1. [k \in 1..Len(waiting) |-> Event(waiting[k], "cancelled")] \in Seq(Timely)
  <2>1. Len(waiting) \in 0..Len(waiting)
    BY LenProperties DEF TypeOK
  <2>. QED
    BY <2>1, TimelyQueue
<1>2. (IF running = None THEN <<>> ELSE <<Event(running, "cancelled")>>) \in Seq(Timely)
  BY TimelyEvent, StatusMembers DEF TypeOK
<1>3. PreemptEvents \in Seq(Timely)
  BY <1>1, <1>2, ConcatProperties DEF PreemptEvents
<1>4. <<Event(r.request_id, "completed")>> \in Seq(Timely)
  BY TimelyEvent, StatusMembers DEF RequestIds
<1>5. PreemptEvents \o <<Event(r.request_id, "completed")>> \in Seq(Timely)
  BY <1>3, <1>4, ConcatProperties
<1>6. events' = events \o (PreemptEvents \o <<Event(r.request_id, "completed")>>)
  <2>. DEFINE a == PreemptEvents
              b == <<Event(r.request_id, "completed")>>
  <2>1. events \in Seq(Events) /\ a \in Seq(Events) /\ b \in Seq(Events)
    BY <1>3, <1>4, TimelyAreEvents DEF TypeOK, Events
  <2>2. events' = (events \o a) \o b
    BY DEF Stop
  <2>. HIDE DEF a, b
  <2>3. (events \o a) \o b = events \o (a \o b)
    BY <2>1, ConcatAssociative, SMTT(30)
  <2>4. events' = events \o (a \o b)
    BY <2>2, <2>3, Zenon
  <2>. QED
    BY <2>4 DEF a, b
<1>. QED
  BY <1>5, <1>6, TimelyEvents

LEMMA FinishTimely ==
  ASSUME TypeOK, ResourceInv, NEW id \in RequestIds, IsRunning(id),
         NEW s \in ActionStatuses \ {"running"}, NEW c \in ErrorCategories, Finish(id, s, c),
         \A i \in DOMAIN records : Kept(i)
  PROVE  TimelyStep
<1>1. waiting \in Seq(RequestIds) /\ Len(waiting) \in Nat
  BY LenProperties DEF TypeOK
<1>2. PICK n \in 1..(Len(waiting) + 1) :
        IsNextFresh(n) /\ events' = events \o FinishEvents(id, s, n)
  BY DEF Finish
<1>3. [k \in 1..(n - 1) |-> Event(waiting[k], "expired")] \in Seq(Timely)
  <2>1. n - 1 \in 0..Len(waiting)
    BY <1>1
  <2>. QED
    BY <2>1, TimelyQueue
<1>4. (IF n <= Len(waiting) THEN StartEvents(waiting[n]) ELSE <<>>) \in Seq(Timely)
  <2>1. CASE n <= Len(waiting)
    <3>1. waiting[n] \in RequestIds /\ waiting[n] \in DOMAIN records
      BY <1>1, <2>1, LenProperties DEF ResourceInv, MotionResource, QueueIsTheAccepted
    <3>2. records[waiting[n]].request \in Requests
      BY <3>1 DEF TypeOK, RecordType
    <3>3. StartsInTime(waiting[n])
      <4>. DEFINE r == records[waiting[n]].request
      <4>1. ~(wall > r.created_at + r.ttl_seconds)
        BY <1>2, <2>1 DEF IsNextFresh, IsStale
      <4>2. r.created_at \in Int /\ r.ttl_seconds \in Int /\ wall \in Int
        BY <3>2, RequestsAssumption, ConfigAssumption DEF TypeOK
      <4>3. records'[waiting[n]].request = r
        BY <3>1 DEF Kept
      <4>. HIDE DEF r
      <4>. QED
        BY <4>1, <4>2, <4>3 DEF StartsInTime
    <3>. QED
      BY <2>1, <3>1, <3>3, TimelyStart
  <2>2. CASE ~(n <= Len(waiting))
    BY <2>2, EmptySeq
  <2>. QED
    BY <2>1, <2>2
<1>5. <<Event(id, s)>> \in Seq(Timely)
  BY TimelyEvent
<1>6. FinishEvents(id, s, n) \in Seq(Timely)
  BY <1>3, <1>4, <1>5, ConcatProperties DEF FinishEvents
<1>. QED
  BY <1>2, <1>6, TimelyEvents

\* No motion starts after its deadline, wherever it was started from.
THEOREM DeadlinesCorrect == Spec => NeverStartsStale
<1>1. ASSUME TypeOK, ResourceInv, [Next]_vars PROVE TimelyStep
  <2>1. ASSUME UNCHANGED events PROVE TimelyStep
    BY <1>1, <2>1, LenProperties DEF TimelyStep, TypeOK
  <2>2. ASSUME NEW r \in Requests,
               RejectUnavailable(r) \/ ExpireOnSubmit(r) \/ Observe(r) \/ RejectBusy(r)
        PROVE  TimelyStep
    <3>1. PICK s \in {"rejected", "expired", "completed"} :
            events' = Append(events, Event(r.request_id, s))
      BY <2>2 DEF RejectUnavailable, ExpireOnSubmit, Observe, RejectBusy, Immediate
    <3>2. s \in ActionStatuses \ {"running"} /\ r.request_id \in RequestIds
      BY StatusMembers DEF RequestIds
    <3>. QED
      BY <1>1, <3>1, <3>2, AppendTimely
  <2>3. ASSUME NEW r \in Requests, Stop(r) PROVE TimelyStep
    BY <1>1, <2>3, StopTimely
  <2>4. ASSUME NEW r \in Requests, StartNow(r) PROVE TimelyStep
    <3>1. records'[r.request_id].request = r
      BY <2>4 DEF StartNow, Register, StartedRecord, NewRecord
    <3>2. StartsInTime(r.request_id)
      BY <1>1, <2>4, <3>1, RequestsAssumption DEF StartsInTime, StartNow, Admissible, IsStale, TypeOK
    <3>3. StartEvents(r.request_id) \in Seq(Timely)
      BY <3>2, TimelyStart DEF RequestIds
    <3>. QED
      BY <1>1, <2>4, <3>3, TimelyEvents DEF StartNow
  <2>5. ASSUME NEW r \in Requests, Enqueue(r) PROVE TimelyStep
    <3>1. r.request_id \in RequestIds /\ "accepted" \in ActionStatuses \ {"running"}
      BY StatusMembers DEF RequestIds
    <3>. QED
      BY <1>1, <2>5, <3>1, AppendTimely DEF Enqueue
  <2>6. ASSUME NEW id \in RequestIds, IsRunning(id),
               \/ Finish(id, "completed", "none")
               \/ Finish(id, "failed", "internal")
               \/ Finish(id, "cancelled", "cancelled")
        PROVE  TimelyStep
    BY <1>1, <2>6, StepKeeps, FinishTimely, StatusMembers
  <2>7. ASSUME NEW id \in RequestIds, CancelWaiting(id) PROVE TimelyStep
    BY <1>1, <2>7, AppendTimely, StatusMembers DEF CancelWaiting
  <2>8. Tick \/ StepWall \/ UNCHANGED vars => UNCHANGED events
    BY DEF Tick, StepWall, vars
  <2>. QED
    BY <1>1, <2>1, <2>2, <2>3, <2>4, <2>5, <2>6, <2>7, <2>8, StepCases
<1>2. ASSUME TimelyStep
      PROVE  \A k \in (Len(events) + 1)..Len(events') :
               events'[k].status = "running"
                 => LET r == records'[events'[k].request_id].request
                    IN  wall <= r.created_at + r.ttl_seconds
  BY <1>2 DEF TimelyStep, StartsInTime
<1>. QED
  BY <1>1, <1>2, ResourceInvariance, PTL DEF NeverStartsStale, Spec

\* The same as a fact about the records, for callers who read no events: with a wall
\* clock that is never set, what was started was started before its deadline.
StartedInTime(rec) ==
  IsMotion(rec.request) /\ rec.status \in {"running", "completed", "failed"}
    => rec.started_mono <= rec.request.created_at + rec.request.ttl_seconds

ClocksAgree ==
  config.clock = "fake" => /\ wall = mono
                           /\ \A i \in DOMAIN records : StartedInTime(records[i])

LEMMA RegisterInTime ==
  ASSUME ClocksAgree, NEW r, NEW rec, NEW recs, Register(r, rec, recs),
         UNCHANGED <<config, wall, mono>>,
         config.clock = "fake" => /\ StartedInTime(rec)
                                  /\ \A i \in DOMAIN records : StartedInTime(recs[i])
  PROVE  ClocksAgree'
<1>1. \A i \in DOMAIN records' :
        records'[i] = rec \/ (i \in DOMAIN records /\ records'[i] = recs[i])
  BY DEF Register
<1>2. config.clock = "fake" => \A i \in DOMAIN records' : StartedInTime(records'[i])
  BY <1>1, Zenon
<1>. QED
  BY <1>2 DEF ClocksAgree, StartedInTime

LEMMA FinishInTime ==
  ASSUME TypeOK, ClocksAgree, NEW id \in RequestIds, IsRunning(id),
         NEW s \in {"completed", "failed", "cancelled"}, NEW c, Finish(id, s, c)
  PROVE  ClocksAgree'
<1>1. PICK n \in 1..(Len(waiting) + 1) :
        /\ IsNextFresh(n)
        /\ records' = [i \in DOMAIN records |->
             IF i = id THEN FinishedRecord(records[i], s, c)
             ELSE IF \E k \in 1..(n - 1) : waiting[k] = i
               THEN DroppedRecord(records[i], "expired", "stale")
             ELSE IF n <= Len(waiting) /\ waiting[n] = i
               THEN StartedRecord(records[i].request)
             ELSE records[i]]
  BY DEF Finish
<1>2. UNCHANGED <<config, wall, mono>>
  BY DEF Finish
<1>3. ASSUME NEW i \in DOMAIN records, config.clock = "fake" PROVE StartedInTime(records'[i])
  <2>1. records[i] \in RecordType /\ records[i].request \in Requests
    BY DEF TypeOK, RecordType
  <2>2. StartedInTime(records[i])
    BY <1>3 DEF ClocksAgree
  <2>3. CASE i = id
    <3>1. records'[i] = FinishedRecord(records[i], s, c)
      BY <1>1, <2>3
    <3>2. /\ records'[i].request = records[i].request
          /\ records'[i].started_mono = records[i].started_mono
      BY <2>1, <3>1 DEF FinishedRecord, RecordType
    <3>3. records[i].status = "running"
      BY <2>3 DEF IsRunning
    <3>. QED
      BY <2>2, <3>2, <3>3 DEF StartedInTime
  <2>4. CASE i # id /\ \E k \in 1..(n - 1) : waiting[k] = i
    <3>1. records'[i] = DroppedRecord(records[i], "expired", "stale")
      BY <1>1, <2>4
    <3>2. records'[i].status = "expired"
      BY <2>1, <3>1 DEF DroppedRecord, RecordType
    <3>. QED
      BY <3>2 DEF StartedInTime
  <2>5. CASE /\ i # id /\ ~\E k \in 1..(n - 1) : waiting[k] = i
             /\ n <= Len(waiting) /\ waiting[n] = i
    <3>1. records'[i] = StartedRecord(records[i].request)
      BY <1>1, <2>5
    <3>2. records'[i].request = records[i].request /\ records'[i].started_mono = mono
      BY <3>1 DEF StartedRecord, NewRecord
    <3>3. ~IsStale(records[i].request) /\ wall = mono
      BY <1>1, <1>3, <2>5 DEF IsNextFresh, ClocksAgree
    <3>. QED
      BY <2>1, <3>2, <3>3, RequestsAssumption DEF StartedInTime, IsStale, TypeOK
  <2>6. CASE /\ i # id /\ ~\E k \in 1..(n - 1) : waiting[k] = i
             /\ ~(n <= Len(waiting) /\ waiting[n] = i)
    BY <1>1, <2>2, <2>6
  <2>. QED
    BY <2>3, <2>4, <2>5, <2>6
<1>4. DOMAIN records' = DOMAIN records
  BY <1>1
<1>5. config.clock = "fake" => \A i \in DOMAIN records' : StartedInTime(records'[i])
  BY <1>3, <1>4
<1>. QED
  BY <1>2, <1>5 DEF ClocksAgree, StartedInTime

LEMMA ClocksStep ==
  ASSUME TypeOK, ClocksAgree, [Next]_vars
  PROVE  ClocksAgree'
<1>1. config.clock = "fake" => \A i \in DOMAIN records : StartedInTime(records[i])
  BY DEF ClocksAgree
<1>2. ASSUME NEW r \in Requests, NEW s \in ActionStatuses, NEW c,
             s = "completed" => ~IsMotion(r), s \notin {"running", "failed"},
             Register(r, NewRecord(r, s, c), records), UNCHANGED <<config, wall, mono>>
      PROVE  ClocksAgree'
  <2>1. StartedInTime(NewRecord(r, s, c))
    BY <1>2 DEF StartedInTime, NewRecord
  <2>. QED
    BY <1>1, <1>2, <2>1, RegisterInTime
<1>3. ASSUME NEW r \in Requests,
             RejectUnavailable(r) \/ ExpireOnSubmit(r) \/ Observe(r) \/ RejectBusy(r)
      PROVE  ClocksAgree'
  <2>1. PICK s \in {"rejected", "expired", "completed"}, c \in ErrorCategories :
          Immediate(r, s, c) /\ (s = "completed" => ~IsMotion(r))
    BY <1>3, StatusMembers
    DEF RejectUnavailable, ExpireOnSubmit, Observe, RejectBusy, IsMotion, MotionCapabilities
  <2>. QED
    BY <1>2, <2>1, StatusMembers DEF Immediate
<1>4. ASSUME NEW r \in Requests, Stop(r) PROVE ClocksAgree'
  <2>. DEFINE recs == [i \in DOMAIN records |-> Preempted(i)]
              rec == NewRecord(r, "completed", "none")
  <2>1. Register(r, rec, recs) /\ UNCHANGED <<config, wall, mono>>
    BY <1>4 DEF Stop
  <2>2. StartedInTime(rec)
    BY <1>4 DEF StartedInTime, NewRecord, Stop, IsMotion, MotionCapabilities
  <2>3. ASSUME NEW i \in DOMAIN records, config.clock = "fake"
        PROVE  StartedInTime(recs[i])
    <3>1. records[i] \in RecordType
      BY DEF TypeOK
    <3>2. \/ recs[i] = records[i]
          \/ recs[i] = FinishedRecord(records[i], "cancelled", "cancelled")
          \/ recs[i] = DroppedRecord(records[i], "cancelled", "cancelled")
      BY DEF Preempted
    <3>3. /\ FinishedRecord(records[i], "cancelled", "cancelled").status = "cancelled"
          /\ DroppedRecord(records[i], "cancelled", "cancelled").status = "cancelled"
      BY <3>1 DEF FinishedRecord, DroppedRecord, RecordType
    <3>. QED
      BY <1>1, <2>3, <3>2, <3>3 DEF StartedInTime
  <2>. HIDE DEF rec, recs
  <2>. QED
    BY <2>1, <2>2, <2>3, RegisterInTime
<1>5. ASSUME NEW r \in Requests, StartNow(r) PROVE ClocksAgree'
  <2>1. Register(r, StartedRecord(r), records) /\ UNCHANGED <<config, wall, mono>>
    BY <1>5 DEF StartNow
  <2>2. StartedRecord(r).request = r /\ StartedRecord(r).started_mono = mono
    BY DEF StartedRecord, NewRecord
  <2>3. ~IsStale(r)
    BY <1>5 DEF StartNow, Admissible
  <2>4. config.clock = "fake" => StartedInTime(StartedRecord(r))
    BY <2>2, <2>3, RequestsAssumption DEF StartedInTime, IsStale, ClocksAgree, TypeOK
  <2>. QED
    BY <1>1, <2>1, <2>4, RegisterInTime
<1>6. ASSUME NEW r \in Requests, Enqueue(r) PROVE ClocksAgree'
  BY <1>2, <1>6, StatusMembers DEF Enqueue
<1>7. ASSUME NEW id \in RequestIds, IsRunning(id),
             \/ Finish(id, "completed", "none")
             \/ Finish(id, "failed", "internal")
             \/ Finish(id, "cancelled", "cancelled")
      PROVE  ClocksAgree'
  BY <1>7, FinishInTime
<1>8. ASSUME NEW id \in RequestIds, CancelWaiting(id) PROVE ClocksAgree'
  <2>1. /\ records' = [records EXCEPT ![id] = DroppedRecord(@, "cancelled", "cancelled")]
        /\ id \in DOMAIN records /\ UNCHANGED <<config, wall, mono>>
    BY <1>8 DEF CancelWaiting
  <2>2. records[id] \in RecordType
    BY <2>1 DEF TypeOK
  <2>3. records'[id].status = "cancelled"
    BY <2>1, <2>2 DEF DroppedRecord, RecordType
  <2>4. \A i \in DOMAIN records' : i \in DOMAIN records /\ (i # id => records'[i] = records[i])
    BY <2>1
  <2>. QED
    BY <1>1, <2>1, <2>3, <2>4 DEF ClocksAgree, StartedInTime
<1>9. CASE Tick
  BY <1>9 DEF Tick, ClocksAgree, StartedInTime
<1>10. CASE StepWall
  BY <1>10 DEF StepWall, ClocksAgree
<1>11. CASE UNCHANGED vars
  BY <1>11 DEF vars, ClocksAgree, StartedInTime
<1>. QED
  BY <1>3, <1>4, <1>5, <1>6, <1>7, <1>8, <1>9, <1>10, <1>11, StepCases
-----------------------------------------------------------------------------
(***************************************************************************)
(* The spans of the motions.  MotionTimeFits alone is not inductive: the   *)
(* motion that runs has no span yet, so it must be known to have started   *)
(* after every other one had ended (up to the rounding), and not later     *)
(* than now.                                                               *)
(***************************************************************************)

RunsLast(id) ==
  records[id].status = "running"
    => /\ records[id].started_mono <= mono
       /\ \A i \in DOMAIN records :
            BeforeRounded(Ended(records[i]), records[id].started_mono)

TimeInv == MotionTimeFits /\ \A id \in DOMAIN records : RunsLast(id)

\* What a call may make of the span of a record.
SameSpan(i) ==
  /\ i \in DOMAIN records
  /\ records'[i].started_mono = records[i].started_mono
  /\ records'[i].duration = records[i].duration
NoSpan(i) == records'[i].started_mono = 0 /\ records'[i].duration = 0
StartsNow(i) == records'[i].started_mono = mono /\ records'[i].duration = 0
EndsNow(i) ==
  /\ IsRunning(i)
  /\ records'[i].started_mono = records[i].started_mono
  /\ records'[i].duration = Elapsed(records[i])

\* At most one motion ends in a call, and one that runs afterwards has just started
\* or was running while no span changed.
LEMMA SpansStep ==
  ASSUME TypeOK, MotionResource, TimeInv, UNCHANGED mono,
         \A i \in DOMAIN records' :
           SameSpan(i) \/ NoSpan(i) \/ StartsNow(i) \/ EndsNow(i),
         \A id \in DOMAIN records' : records'[id].status = "running"
           => \/ StartsNow(id)
              \/ /\ IsRunning(id) /\ SameSpan(id)
                 /\ \A i \in DOMAIN records' : SameSpan(i) \/ NoSpan(i)
  PROVE  TimeInv'
<1>1. mono \in Nat
  BY ConfigAssumption DEF TypeOK
<1>2. \A i \in DOMAIN records : /\ records[i].started_mono \in Nat
                                /\ records[i].duration \in Nat
  BY ConfigAssumption DEF TypeOK, RecordType
<1>3. \A i, j \in DOMAIN records : IsRunning(i) /\ IsRunning(j) => i = j
  BY DEF MotionResource, RunningIsTheSlot, WithStatus, IsRunning
<1>4. \A i, j \in DOMAIN records :
        /\ Ended(records[i]) < mono + Micro
        /\ \/ i = j
           \/ Ended(records[i]) < records[j].started_mono + Micro
           \/ Ended(records[j]) < records[i].started_mono + Micro
        /\ IsRunning(j) => /\ records[j].started_mono <= mono
                           /\ Ended(records[i]) < records[j].started_mono + Micro
  BY DEF TimeInv, MotionTimeFits, RunsLast, IsRunning, BeforeRounded
<1>5. Micro \in Nat \ {0}
  BY ConfigAssumption
<1>6. ASSUME NEW i \in DOMAIN records', EndsNow(i)
      PROVE  /\ Ended(records'[i]) \in Nat /\ Ended(records'[i]) < mono + Micro
             /\ i \in DOMAIN records
  <2>1. i \in DOMAIN records /\ records[i].started_mono <= mono
    BY <1>4, <1>6 DEF EndsNow, IsRunning
  <2>2. /\ Elapsed(records[i]) \in Nat
        /\ records[i].started_mono + Elapsed(records[i]) < mono + Micro
    BY <1>1, <1>2, <2>1, ElapsedBound
  <2>. QED
    BY <1>2, <1>6, <2>1, <2>2 DEF EndsNow, Ended
<1>7. ASSUME NEW i \in DOMAIN records'
      PROVE  \/ i \in DOMAIN records /\ Ended(records'[i]) = Ended(records[i])
                /\ records'[i].started_mono = records[i].started_mono
             \/ Ended(records'[i]) = 0
             \/ Ended(records'[i]) = mono /\ records'[i].started_mono = mono
             \/ Ended(records'[i]) < mono + Micro /\ IsRunning(i) /\ i \in DOMAIN records
                /\ records'[i].started_mono = records[i].started_mono
  BY <1>1, <1>6 DEF SameSpan, NoSpan, StartsNow, EndsNow, Ended
<1>8. \A i \in DOMAIN records' : /\ records'[i].started_mono \in Nat
                                 /\ Ended(records'[i]) \in Nat
  BY <1>1, <1>2, <1>6 DEF SameSpan, NoSpan, StartsNow, EndsNow, Ended
<1>9. \A i \in DOMAIN records' : Ended(records'[i]) < mono + Micro
  BY <1>1, <1>4, <1>5, <1>7
<1>10. ASSUME NEW i \in DOMAIN records', NEW j \in DOMAIN records', i # j
       PROVE  \/ Ended(records'[i]) < records'[j].started_mono + Micro
              \/ Ended(records'[j]) < records'[i].started_mono + Micro
  BY <1>1, <1>2, <1>3, <1>4, <1>5, <1>7, <1>8, <1>9, <1>10
<1>11. ASSUME NEW id \in DOMAIN records', records'[id].status = "running"
       PROVE  /\ records'[id].started_mono <= mono
              /\ \A i \in DOMAIN records' :
                   Ended(records'[i]) < records'[id].started_mono + Micro
  <2>1. CASE StartsNow(id)
    BY <1>1, <1>9, <2>1 DEF StartsNow
  <2>2. CASE /\ IsRunning(id) /\ SameSpan(id)
             /\ \A i \in DOMAIN records' : SameSpan(i) \/ NoSpan(i)
    BY <1>2, <1>4, <1>5, <2>2 DEF SameSpan, NoSpan, Ended, IsRunning
  <2>. QED
    BY <1>11, <2>1, <2>2
<1>. QED
  BY <1>9, <1>10, <1>11 DEF TimeInv, MotionTimeFits, RunsLast, Ended, BeforeRounded

\* A call that records one more request, which at most starts while nothing runs.
LEMMA RegisterSpans ==
  ASSUME TypeOK, MotionResource, TimeInv, UNCHANGED mono,
         NEW r \in Requests, NEW rec, Register(r, rec, records), IsNew(r),
         rec.duration = 0,
         \/ rec.started_mono = 0 /\ rec.status # "running"
         \/ rec.started_mono = mono /\ running = None
  PROVE  TimeInv'
<1>. DEFINE id == r.request_id
<1>1. id \notin DOMAIN records
  BY DEF IsNew
<1>2. /\ DOMAIN records' = DOMAIN records \cup {id}
      /\ records'[id] = rec
      /\ \A i \in DOMAIN records : records'[i] = records[i]
  BY <1>1 DEF Register
<1>. HIDE DEF id
<1>3. \A i \in DOMAIN records : SameSpan(i)
  BY <1>2 DEF SameSpan
<1>4. NoSpan(id) \/ StartsNow(id)
  BY <1>2 DEF NoSpan, StartsNow
<1>5. \A i \in DOMAIN records : records'[i].status = "running" => IsRunning(i)
  BY <1>2 DEF IsRunning
<1>6. running = None => \A i \in DOMAIN records : ~IsRunning(i)
  BY DEF MotionResource, RunningIsTheSlot, WithStatus, IsRunning
<1>7. \/ records'[id].status # "running" /\ NoSpan(id)
      \/ StartsNow(id) /\ \A i \in DOMAIN records : ~IsRunning(i)
  BY <1>2, <1>6 DEF NoSpan, StartsNow
<1>. QED
  BY <1>2, <1>3, <1>4, <1>5, <1>7, SpansStep

LEMMA StopSpans ==
  ASSUME TypeOK, MotionResource, TimeInv, NEW r \in Requests, Stop(r)
  PROVE  TimeInv'
<1>. DEFINE id == r.request_id
<1>1. id \notin DOMAIN records /\ UNCHANGED mono
  BY DEF Stop, Admissible, IsNew
<1>2. /\ DOMAIN records' = DOMAIN records \cup {id}
      /\ records'[id] = NewRecord(r, "completed", "none")
      /\ \A i \in DOMAIN records : records'[i] = Preempted(i)
  BY <1>1 DEF Stop, Register
<1>. HIDE DEF id
<1>3. NoSpan(id) /\ records'[id].status # "running"
  BY <1>2 DEF NoSpan, NewRecord
<1>4. ASSUME NEW i \in DOMAIN records
      PROVE  (SameSpan(i) \/ EndsNow(i)) /\ records'[i].status # "running"
  <2>1. records[i] \in RecordType
    BY DEF TypeOK
  <2>2. IsRunning(i) <=> i = running /\ running # None
    BY DEF MotionResource, RunningIsTheSlot, WithStatus, IsRunning
  <2>3. running = i => IsRunning(i)
    BY <2>2, RequestsAssumption DEF TypeOK
  <2>4. CASE i = running
    BY <1>2, <2>1, <2>3, <2>4 DEF Preempted, FinishedRecord, RecordType, EndsNow
  <2>5. CASE i # running
    BY <1>2, <2>1, <2>2, <2>5 DEF Preempted, DroppedRecord, RecordType, SameSpan, IsRunning
  <2>. QED
    BY <2>4, <2>5
<1>. QED
  BY <1>1, <1>2, <1>3, <1>4, SpansStep

LEMMA FinishSpans ==
  ASSUME TypeOK, MotionResource, TimeInv, NEW id \in RequestIds, IsRunning(id),
         NEW s \in {"completed", "failed", "cancelled"}, NEW c, Finish(id, s, c)
  PROVE  TimeInv'
<1>1. PICK n \in 1..(Len(waiting) + 1) :
        records' = [i \in DOMAIN records |->
             IF i = id THEN FinishedRecord(records[i], s, c)
             ELSE IF \E k \in 1..(n - 1) : waiting[k] = i
               THEN DroppedRecord(records[i], "expired", "stale")
             ELSE IF n <= Len(waiting) /\ waiting[n] = i
               THEN StartedRecord(records[i].request)
             ELSE records[i]]
  BY DEF Finish
<1>2. UNCHANGED mono
  BY DEF Finish
<1>3. ASSUME NEW i \in DOMAIN records
      PROVE  /\ SameSpan(i) \/ StartsNow(i) \/ EndsNow(i)
             /\ records'[i].status = "running" => StartsNow(i)
  <2>1. records[i] \in RecordType
    BY DEF TypeOK
  <2>2. CASE i = id
    <3>1. records'[i] = FinishedRecord(records[i], s, c)
      BY <1>1, <2>2
    <3>. QED
      BY <2>1, <2>2, <3>1 DEF FinishedRecord, RecordType, EndsNow
  <2>3. CASE i # id /\ \E k \in 1..(n - 1) : waiting[k] = i
    <3>1. records'[i] = DroppedRecord(records[i], "expired", "stale")
      BY <1>1, <2>3
    <3>. QED
      BY <2>1, <3>1 DEF DroppedRecord, RecordType, SameSpan
  <2>4. CASE /\ i # id /\ ~\E k \in 1..(n - 1) : waiting[k] = i
             /\ n <= Len(waiting) /\ waiting[n] = i
    <3>1. records'[i] = StartedRecord(records[i].request)
      BY <1>1, <2>4
    <3>. QED
      BY <3>1 DEF StartedRecord, NewRecord, StartsNow
  <2>5. CASE /\ i # id /\ ~\E k \in 1..(n - 1) : waiting[k] = i
             /\ ~(n <= Len(waiting) /\ waiting[n] = i)
    <3>1. records'[i] = records[i]
      BY <1>1, <2>5
    <3>2. records[i].status # "running"
      BY <2>5 DEF MotionResource, RunningIsTheSlot, WithStatus, IsRunning
    <3>. QED
      BY <3>1, <3>2 DEF SameSpan
  <2>. QED
    BY <2>2, <2>3, <2>4, <2>5
<1>4. DOMAIN records' = DOMAIN records
  BY <1>1
<1>. QED
  BY <1>2, <1>3, <1>4, SpansStep

LEMMA TimeStep ==
  ASSUME TypeOK, MotionResource, TimeInv, [Next]_vars
  PROVE  TimeInv'
<1>1. ASSUME NEW r \in Requests, NEW s \in ActionStatuses \ {"running"}, NEW c,
             Register(r, NewRecord(r, s, c), records), IsNew(r), UNCHANGED mono
      PROVE  TimeInv'
  BY <1>1, RegisterSpans DEF NewRecord
<1>2. ASSUME NEW r \in Requests,
             RejectUnavailable(r) \/ ExpireOnSubmit(r) \/ Observe(r) \/ RejectBusy(r)
      PROVE  TimeInv'
  <2>1. PICK s \in {"rejected", "expired", "completed"}, c \in ErrorCategories :
          Immediate(r, s, c) /\ IsNew(r)
    BY <1>2, StatusMembers
    DEF RejectUnavailable, ExpireOnSubmit, Observe, RejectBusy, Admissible
  <2>. QED
    BY <1>1, <2>1, StatusMembers DEF Immediate
<1>3. ASSUME NEW r \in Requests, StartNow(r) PROVE TimeInv'
  <2>1. /\ Register(r, StartedRecord(r), records) /\ UNCHANGED mono
        /\ IsNew(r) /\ running = None
    BY <1>3 DEF StartNow, Admissible
  <2>2. StartedRecord(r).started_mono = mono /\ StartedRecord(r).duration = 0
    BY DEF StartedRecord, NewRecord
  <2>. QED
    BY <2>1, <2>2, RegisterSpans
<1>4. ASSUME NEW r \in Requests, Enqueue(r) PROVE TimeInv'
  BY <1>1, <1>4, StatusMembers DEF Enqueue, Admissible
<1>5. ASSUME NEW id \in RequestIds, CancelWaiting(id) PROVE TimeInv'
  <2>1. /\ records' = [records EXCEPT ![id] = DroppedRecord(@, "cancelled", "cancelled")]
        /\ id \in DOMAIN records /\ UNCHANGED mono
    BY <1>5 DEF CancelWaiting
  <2>2. records[id] \in RecordType
    BY <2>1 DEF TypeOK
  <2>3. SameSpan(id) /\ records'[id].status = "cancelled"
    BY <2>1, <2>2 DEF DroppedRecord, RecordType, SameSpan
  <2>4. \A i \in DOMAIN records : i # id => records'[i] = records[i]
    BY <2>1
  <2>5. /\ DOMAIN records' = DOMAIN records
        /\ \A i \in DOMAIN records : SameSpan(i)
        /\ \A i \in DOMAIN records : records'[i].status = "running" => IsRunning(i)
    BY <2>1, <2>3, <2>4 DEF SameSpan, IsRunning
  <2>. QED
    BY <2>1, <2>5, SpansStep
<1>6. CASE Tick
  <2>1. UNCHANGED records /\ mono' = mono + 1
    BY <1>6 DEF Tick
  <2>2. \A i \in DOMAIN records : /\ records[i].started_mono \in Nat
                                  /\ Ended(records[i]) \in Nat
    BY ConfigAssumption DEF TypeOK, RecordType, Ended
  <2>3. mono \in Nat
    BY ConfigAssumption DEF TypeOK
  <2>. QED
    BY <2>1, <2>2, <2>3, ConfigAssumption
    DEF TimeInv, MotionTimeFits, RunsLast, Ended, BeforeRounded
<1>7. CASE StepWall \/ UNCHANGED vars
  BY <1>7 DEF StepWall, vars, TimeInv, MotionTimeFits, RunsLast, Ended, BeforeRounded
<1>. QED
  BY <1>2, <1>3, <1>4, <1>5, <1>6, <1>7, StopSpans, FinishSpans, StepCases

\* The durations that are reported fit together into the time that has passed, up to
\* the microsecond they are rounded to: for every order of calls, every length of the
\* motions, whole microseconds or not, and every setting of the clock.
THEOREM TimeCorrect == Spec => []MotionTimeFits
<1>1. Init => TimeInv
  BY DEF Init, TimeInv, MotionTimeFits, RunsLast
<1>2. TypeOK /\ ResourceInv /\ TimeInv /\ [Next]_vars => TimeInv'
  BY TimeStep DEF ResourceInv
<1>3. TimeInv => MotionTimeFits
  BY DEF TimeInv
<1>. QED
  BY <1>1, <1>2, <1>3, ResourceInvariance, PTL DEF Spec
=============================================================================
