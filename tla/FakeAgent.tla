----------------------------- MODULE FakeAgent ------------------------------
(***************************************************************************)
(* FakeNAOExecutionAgent (execution/fake_agent.py) and the two clocks it   *)
(* reads (execution/clock.py).  The agent is single-threaded: every public *)
(* call runs to completion, so a call is one step and time does not move   *)
(* inside it.  The concurrency is that of the requests: several motions    *)
(* are alive at once and calls about them arrive in any order.             *)
(*                                                                         *)
(* Left out: payloads and observations, reasons, wall-clock stamps of      *)
(* results, the optional logger (its failures are swallowed).  The result  *)
(* a call returns is the one it records; a call that records nothing only  *)
(* answers, and is a step that changes nothing.                            *)
(*                                                                         *)
(* An operator named Wrong... is a mistake one could make in the operator  *)
(* after it; nothing uses it.  Putting it in that operator's place must    *)
(* break a property, which shows that the property watches that line.      *)
(***************************************************************************)
EXTENDS Integers, SequencesExt

CONSTANTS
  Requests,          \* the ActionRequest values callers may submit
  Configs,           \* the settings agents are constructed with
  MaxTime,           \* bound of both clocks
  Micro,             \* ticks in the microsecond durations are rounded to; 1 when
                     \* a tick is a whole number of microseconds
  None               \* no running motion

VARIABLES
  config,        \* this agent's settings, fixed by its constructor
  records,       \* _records: request_id -> the request with its latest result
  idempotency,   \* _idempotency: <<session_id, idempotency_key>> -> request_id
  running,       \* _running_motion
  waiting,       \* _waiting, the queue of motions
  events,        \* events: what _emit published, in order
  wall, mono     \* the clock's now() and monotonic()

vars == <<config, records, idempotency, running, waiting, events, wall, mono>>
-----------------------------------------------------------------------------
MotionCapabilities == {"stand", "walk"}
Capabilities == MotionCapabilities \cup {"observe", "stop"}
TerminalStatuses == {"completed", "rejected", "expired", "cancelled", "failed"}
ActionStatuses == {"accepted", "running"} \cup TerminalStatuses
ErrorCategories ==
  {"none", "invalid_parameters", "schema_incompatible", "unknown_request",
   "duplicate", "idempotency_conflict", "stale", "cancelled",
   "target_unavailable", "resource_conflict", "queue_full", "internal"}

RequestIds == {r.request_id : r \in Requests}
KeyOf(r) == <<r.session_id, r.idempotency_key>>
IsMotion(r) == r.capability \in MotionCapabilities

ASSUME RequestsAssumption ==
  /\ \A r \in Requests : /\ r.capability \in Capabilities
                         /\ r.created_at \in Int
                         /\ r.ttl_seconds \in Nat \ {0}
  /\ None \notin RequestIds

\* clock is "fake" (FakeClock) or "real" (Clock: time.time() may be set).
ASSUME ConfigAssumption ==
  /\ Configs \subseteq [queue_capacity : Nat, auto_complete : BOOLEAN,
                         target_available : BOOLEAN, clock : {"fake", "real"}]
  /\ MaxTime \in Nat
  /\ Micro \in Nat \ {0}

QueueCapacity == config.queue_capacity      \* the running motion is not counted
AutoComplete == config.auto_complete        \* finish in the call that starts
TargetAvailable == config.target_available

\* now() > created_at + ttl_seconds: a request is still valid at its deadline.
IsStale(r) == wall > r.created_at + r.ttl_seconds

-----------------------------------------------------------------------------
(* Records, results and events *)

Event(id, status) == [request_id |-> id, status |-> status]

\* The record of a request whose result is immediate (_immediate) or that waits.
NewRecord(r, status, category) ==
  [request |-> r, status |-> status, error_category |-> category,
   started_mono |-> 0, duration |-> 0]

WrongStartedLeftRunning(r) ==
  [NewRecord(r, "running", "none") EXCEPT !.started_mono = mono]
\* A motion as _start_running leaves it; with auto_complete it is finished too,
\* at the same clock reading.
StartedRecord(r) ==
  [NewRecord(r, IF AutoComplete THEN "completed" ELSE "running", "none")
     EXCEPT !.started_mono = mono]
StartEvents(id) ==
  IF AutoComplete THEN <<Event(id, "running"), Event(id, "completed")>>
                  ELSE <<Event(id, "running")>>

\* round(d, 6): the nearest microsecond, the even one of two.  (Readings of the
\* clocks are exact here; the error of a binary fraction is left out.)
Rounded(d) ==
  LET q == d \div Micro
      r == d % Micro
  IN  Micro * (IF 2 * r < Micro \/ (2 * r = Micro /\ q % 2 = 0) THEN q ELSE q + 1)

WrongElapsedByWallClock(rec) ==
  Rounded(IF wall >= rec.started_mono THEN wall - rec.started_mono ELSE 0)
Elapsed(rec) ==
  Rounded(IF mono >= rec.started_mono THEN mono - rec.started_mono ELSE 0)

FinishedRecord(rec, status, category) ==
  [rec EXCEPT !.status = status, !.error_category = category,
              !.duration = Elapsed(rec)]

WrongDroppedSwapped(rec, status, category) ==
  [rec EXCEPT !.status = category, !.error_category = status]
\* A request that leaves the queue without ever running.
DroppedRecord(rec, status, category) ==
  [rec EXCEPT !.status = status, !.error_category = category]

\* _record_of: the record and its idempotency key are registered together.
\* recs are the other records as the same call leaves them.
Register(r, rec, recs) ==
  /\ records' = [i \in DOMAIN records \cup {r.request_id} |->
                   IF i = r.request_id THEN rec ELSE recs[i]]
  /\ idempotency' = [k \in DOMAIN idempotency \cup {KeyOf(r)} |->
                       IF k = KeyOf(r) THEN r.request_id ELSE idempotency[k]]

\* A call that only answers: a refusal, or a result already recorded.
OnlyAnswers == UNCHANGED vars
-----------------------------------------------------------------------------
(* submit *)

\* A raw dict that strict parsing refuses is rejected and not recorded.
SubmitMalformed == OnlyAnswers

\* _check_duplicate comes before every other check.
Replay(r) ==
  /\ r.request_id \in DOMAIN records
  /\ records[r.request_id].request = r
  /\ OnlyAnswers

RejectConflict(r) ==
  /\ IF r.request_id \in DOMAIN records
       THEN records[r.request_id].request # r
       ELSE KeyOf(r) \in DOMAIN idempotency
  /\ OnlyAnswers

WrongNewAfterSettling(r) ==
  \/ r.request_id \notin DOMAIN records /\ KeyOf(r) \notin DOMAIN idempotency
  \/ r.request_id \in DOMAIN records /\ records[r.request_id].status \in TerminalStatuses
WrongNewById(r) == r.request_id \notin DOMAIN records
IsNew(r) == r.request_id \notin DOMAIN records /\ KeyOf(r) \notin DOMAIN idempotency

\* _immediate: recorded, terminal at once, and the key stays occupied.
Immediate(r, status, category) ==
  /\ Register(r, NewRecord(r, status, category), records)
  /\ events' = Append(events, Event(r.request_id, status))
  /\ UNCHANGED <<config, running, waiting, wall, mono>>

RejectUnavailable(r) ==
  /\ IsNew(r) /\ ~TargetAvailable
  /\ Immediate(r, "rejected", "target_unavailable")

ExpireOnSubmit(r) ==
  /\ IsNew(r) /\ TargetAvailable
  /\ IsStale(r)
  /\ Immediate(r, "expired", "stale")

Admissible(r) == IsNew(r) /\ TargetAvailable /\ ~IsStale(r)

Observe(r) ==
  /\ Admissible(r) /\ r.capability = "observe"
  /\ Immediate(r, "completed", "none")

\* _preempt: the running motion is finished as cancelled without promoting the
\* next one, then the queue is emptied in order; the stop itself completes last.
WrongPreemptedSlotOnly(id) ==
  IF id = running THEN FinishedRecord(records[id], "cancelled", "cancelled") ELSE records[id]
Preempted(id) ==
  IF id = running
    THEN FinishedRecord(records[id], "cancelled", "cancelled")
    ELSE IF \E k \in 1..Len(waiting) : waiting[k] = id
           THEN DroppedRecord(records[id], "cancelled", "cancelled")
           ELSE records[id]

WrongPreemptSilently ==
  IF running = None THEN <<>> ELSE <<Event(running, "cancelled")>>
PreemptEvents ==
  (IF running = None THEN <<>> ELSE <<Event(running, "cancelled")>>)
    \o [k \in 1..Len(waiting) |-> Event(waiting[k], "cancelled")]

Stop(r) ==
  /\ Admissible(r) /\ r.capability = "stop"
  /\ Register(r, NewRecord(r, "completed", "none"),
              [i \in DOMAIN records |-> Preempted(i)])
  /\ events' = events \o PreemptEvents \o <<Event(r.request_id, "completed")>>
  /\ running' = None
  /\ waiting' = <<>>
  /\ UNCHANGED <<config, wall, mono>>

\* _admit_motion with the motion resource free: _start_running.
StartNow(r) ==
  /\ Admissible(r) /\ IsMotion(r)
  /\ running = None /\ waiting = <<>>
  /\ Register(r, StartedRecord(r), records)
  /\ events' = events \o StartEvents(r.request_id)
  /\ running' = IF AutoComplete THEN None ELSE r.request_id
  /\ UNCHANGED <<config, waiting, wall, mono>>

MotionBusy == running # None \/ waiting # <<>>

WrongQueueFull == Len(waiting) > QueueCapacity
QueueFull == Len(waiting) >= QueueCapacity

RejectBusy(r) ==
  /\ Admissible(r) /\ IsMotion(r) /\ MotionBusy
  /\ QueueFull
  /\ Immediate(r, "rejected",
               IF QueueCapacity = 0 THEN "resource_conflict" ELSE "queue_full")

WrongQueuedInFront(id) == <<id>> \o waiting
QueuedBehind(id) == Append(waiting, id)

Enqueue(r) ==
  /\ Admissible(r) /\ IsMotion(r) /\ MotionBusy
  /\ ~QueueFull
  /\ waiting' = QueuedBehind(r.request_id)
  /\ Register(r, NewRecord(r, "accepted", "none"), records)
  /\ events' = Append(events, Event(r.request_id, "accepted"))
  /\ UNCHANGED <<config, running, wall, mono>>

Submit(r) ==
  \/ Replay(r)
  \/ RejectConflict(r)
  \/ RejectUnavailable(r)
  \/ ExpireOnSubmit(r)
  \/ Observe(r)
  \/ Stop(r)
  \/ StartNow(r)
  \/ RejectBusy(r)
  \/ Enqueue(r)
-----------------------------------------------------------------------------
(* complete, fail, cancel *)

WrongNextUnchecked(n) == n = 1
\* The position of the motion _promote_next starts: the first one in the queue
\* that is not stale, or one past the end when there is none.
IsNextFresh(n) ==
  /\ \A k \in 1..(n - 1) : IsStale(records[waiting[k]].request)
  /\ n <= Len(waiting) => ~IsStale(records[waiting[n]].request)

\* What _finish and then _promote_next publish.
WrongPromotedFirst(id, status, n) ==
  [k \in 1..(n - 1) |-> Event(waiting[k], "expired")]
    \o (IF n <= Len(waiting) THEN StartEvents(waiting[n]) ELSE <<>>)
    \o <<Event(id, status)>>
FinishEvents(id, status, n) ==
  <<Event(id, status)>>
    \o [k \in 1..(n - 1) |-> Event(waiting[k], "expired")]
    \o (IF n <= Len(waiting) THEN StartEvents(waiting[n]) ELSE <<>>)

\* _finish of the running motion, then _promote_next: what is stale at the head
\* of the queue expires, the first fresh motion starts.  Promotion under
\* auto_complete is not written out: a motion waits only behind a running one,
\* and auto_complete leaves none (the invariant AutoCompleteIdle).
Finish(id, status, category) ==
  \E n \in 1..(Len(waiting) + 1) :
    LET expired == 1..(n - 1)
        starts  == n <= Len(waiting)
    IN
    /\ IsNextFresh(n)
    /\ records' = [i \in DOMAIN records |->
         IF i = id THEN FinishedRecord(records[i], status, category)
         ELSE IF \E k \in expired : waiting[k] = i
           THEN DroppedRecord(records[i], "expired", "stale")
         ELSE IF starts /\ waiting[n] = i THEN StartedRecord(records[i].request)
         ELSE records[i]]
    /\ events' = events \o FinishEvents(id, status, n)
    /\ running' = IF starts THEN waiting[n] ELSE None
    /\ waiting' = SubSeq(waiting, n + 1, Len(waiting))
    /\ UNCHANGED <<config, idempotency, wall, mono>>

IsRunning(id) == id \in DOMAIN records /\ records[id].status = "running"

RejectUnknown(id) ==
  /\ id \notin DOMAIN records
  /\ OnlyAnswers

RejectNotRunning(id) ==
  /\ id \in DOMAIN records /\ ~IsRunning(id)
  /\ OnlyAnswers

Complete(id) ==
  \/ RejectUnknown(id)
  \/ RejectNotRunning(id)
  \/ IsRunning(id) /\ Finish(id, "completed", "none")

WrongFailWithoutPromotion(id) ==
  /\ IsRunning(id)
  /\ records' = [records EXCEPT ![id] = FinishedRecord(@, "failed", "internal")]
  /\ events' = Append(events, Event(id, "failed"))
  /\ running' = None
  /\ UNCHANGED <<config, idempotency, waiting, wall, mono>>
\* The caller names the category of an injected failure; the default is internal.
Fail(id) ==
  \/ RejectUnknown(id)
  \/ RejectNotRunning(id)
  \/ IsRunning(id) /\ Finish(id, "failed", "internal")

CancelWaiting(id) ==
  /\ id \in DOMAIN records /\ records[id].status = "accepted"
  /\ \E k \in 1..Len(waiting) :
       /\ waiting[k] = id
       /\ waiting' = RemoveAt(waiting, k)
  /\ records' = [records EXCEPT ![id] = DroppedRecord(@, "cancelled", "cancelled")]
  /\ events' = Append(events, Event(id, "cancelled"))
  /\ UNCHANGED <<config, idempotency, running, wall, mono>>

\* Cancelling anything else returns the latest result and does nothing.
CancelIgnored(id) ==
  /\ id \in DOMAIN records /\ ~IsRunning(id)
  /\ ~(records[id].status = "accepted" /\ \E k \in 1..Len(waiting) : waiting[k] = id)
  /\ OnlyAnswers

Cancel(id) ==
  \/ RejectUnknown(id)
  \/ IsRunning(id) /\ Finish(id, "cancelled", "cancelled")
  \/ CancelWaiting(id)
  \/ CancelIgnored(id)
-----------------------------------------------------------------------------
(* The clocks *)

Tick ==
  /\ wall < MaxTime /\ mono < MaxTime
  /\ wall' = wall + 1
  /\ mono' = mono + 1
  /\ UNCHANGED <<config, records, idempotency, running, waiting, events>>

\* The operator or NTP sets the wall clock; the monotonic clock is not affected.
StepWall ==
  /\ config.clock = "real"
  /\ wall' \in (0..MaxTime) \ {wall}
  /\ UNCHANGED <<config, records, idempotency, running, waiting, events, mono>>
-----------------------------------------------------------------------------
Init ==
  /\ config \in Configs
  /\ records = [i \in {} |-> None]
  /\ idempotency = [k \in {} |-> None]
  /\ running = None
  /\ waiting = <<>>
  /\ events = <<>>
  /\ wall = 0
  /\ mono = 0

Next ==
  \/ \E r \in Requests : Submit(r)
  \/ \E id \in RequestIds :
       Complete(id) \/ Fail(id) \/ Cancel(id)
  \/ SubmitMalformed
  \/ Tick
  \/ StepWall

Spec == Init /\ [][Next]_vars
=============================================================================
