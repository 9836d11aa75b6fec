------------------------ MODULE FakeAgentProperties -------------------------
(***************************************************************************)
(* What FakeAgent must satisfy.  The event log is the agent's only memory  *)
(* of order, so the properties about order are stated over it.             *)
(***************************************************************************)
EXTENDS FakeAgent

RecordType == [request : Requests, status : ActionStatuses,
               error_category : ErrorCategories,
               started_mono : 0..MaxTime, duration : 0..(MaxTime + Micro)]

\* Every variable has its type; records and keys are partial functions.
TypeOK ==
  /\ config \in Configs
  /\ DOMAIN records \subseteq RequestIds
  /\ records \in [DOMAIN records -> RecordType]
  /\ DOMAIN idempotency \subseteq {KeyOf(r) : r \in Requests}
  /\ idempotency \in [DOMAIN idempotency -> RequestIds]
  /\ running \in RequestIds \cup {None}
  /\ waiting \in Seq(RequestIds)
  /\ events \in Seq([request_id : RequestIds, status : ActionStatuses])
  /\ wall \in 0..MaxTime
  /\ mono \in 0..MaxTime
-----------------------------------------------------------------------------
(* The motion resource *)

WithStatus(s) == {i \in DOMAIN records : records[i].status = s}
Waits(id) == \E k \in 1..Len(waiting) : waiting[k] = id

RunningIsTheSlot == WithStatus("running") = {running} \ {None}
QueueIsTheAccepted ==
  /\ \A id \in DOMAIN records : records[id].status = "accepted" <=> Waits(id)
  /\ \A k \in 1..Len(waiting) : waiting[k] \in DOMAIN records
NoDuplicateWaits == \A j, k \in 1..Len(waiting) : waiting[j] = waiting[k] => j = k
NoIdleQueue == running = None => waiting = <<>>
QueueBounded == Len(waiting) <= QueueCapacity
OnlyMotionsAlive ==
  \A id \in DOMAIN records :
    records[id].status \in {"accepted", "running"} => IsMotion(records[id].request)

\* The slot, the queue and the statuses of the records are three copies of one
\* fact, written by different lines of submit, _finish, _promote_next, _preempt
\* and cancel: they never disagree, the queue never exceeds its capacity, and no
\* motion is left waiting for a resource that nothing holds.
MotionResource ==
  /\ RunningIsTheSlot
  /\ QueueIsTheAccepted
  /\ NoDuplicateWaits
  /\ NoIdleQueue
  /\ QueueBounded
  /\ OnlyMotionsAlive

\* auto_complete: between two calls nothing runs, nothing waits and every
\* request known to the agent is settled.
AutoCompleteIdle ==
  AutoComplete => /\ running = None
                  /\ waiting = <<>>
                  /\ \A id \in DOMAIN records : records[id].status \in TerminalStatuses

-----------------------------------------------------------------------------
(* Identity *)

\* Every recorded request occupies its (session_id, idempotency_key) and no key
\* stands for two requests, whatever the outcome of the first: rejected and
\* expired requests occupy theirs too.
KeysIdentify ==
  /\ \A id \in DOMAIN records :
       LET r == records[id].request
       IN  /\ r.request_id = id
           /\ KeyOf(r) \in DOMAIN idempotency
           /\ idempotency[KeyOf(r)] = id
  /\ \A k \in DOMAIN idempotency : idempotency[k] \in DOMAIN records

\* No later call, on this request or another, overwrites a recorded request or
\* changes a result that was terminal.
TerminalIsFinal ==
  [][\A id \in DOMAIN records :
       /\ id \in DOMAIN records'
       /\ records'[id].request = records[id].request
       /\ records[id].status \in TerminalStatuses => records'[id] = records[id]]_vars
-----------------------------------------------------------------------------
(* The abstract specification *)

StatusOf(id) == IF id \in DOMAIN records THEN records[id].status ELSE "new"

AbstractStatus == [id \in RequestIds |-> StatusOf(id)]
MotionIds == {r.request_id : r \in {q \in Requests : IsMotion(q)}}

Lifecycle == INSTANCE ActionLifecycle WITH
  Ids <- RequestIds, Motions <- MotionIds, status <- AbstractStatus

\* The agent implements ActionLifecycle: every call moves every request along
\* the life cycle and leaves the motion resource well used.
ImplementsLifecycle == Lifecycle!Spec
-----------------------------------------------------------------------------
(* The event log *)

\* Nothing is published about id from position i to position j of a log.
Silent(log, id, i, j) == \A k \in i..j : log[k].request_id # id

\* The first k events of a log say that the status of id is s: the last one about
\* it says so, or there is none and s is what was known before.
Says(log, before, id, k, s) ==
  \/ s = before[id] /\ Silent(log, id, 1, k)
  \/ \E j \in 1..k : /\ log[j].request_id = id
                     /\ log[j].status = s
                     /\ Silent(log, id, j + 1, k)

\* A log that takes the statuses from before to after, every event being a legal
\* move from what the events before it say.
Tells(log, before, after) ==
  /\ \A k \in 1..Len(log) :
       \E s \in Lifecycle!Statuses :
         /\ Says(log, before, log[k].request_id, k - 1, s)
         /\ log[k].status \in Lifecycle!Successors(s)
  /\ \A id \in RequestIds : Says(log, before, id, Len(log), after[id])

NothingYet == [id \in RequestIds |-> "new"]

\* The log tells one story per request: it starts at most once, settles at most
\* once, says nothing after that, and its last word is the recorded status.
LogTellsEachStoryOnce == Tells(events, NothingYet, AbstractStatus)

EndsBetween(id, i, j) ==
  \E l \in (i + 1)..(j - 1) : /\ events[l].request_id = id
                              /\ events[l].status \in TerminalStatuses

\* In the log, a motion starts only after the end of every motion that started
\* before it: observers of the events never see two motions at once.
OneMotionInTheLog ==
  \A i, j \in 1..Len(events) :
    (i < j /\ events[i].status = "running" /\ events[j].status = "running")
      => EndsBetween(events[i].request_id, i, j)

\* A motion accepted into the queue is overtaken by none that was accepted or
\* submitted later: when another starts, it has itself started or been settled.
FirstInFirstStarted ==
  \A i, k \in 1..Len(events) :
    LET a == events[i].request_id
        b == events[k].request_id
    IN
    (/\ i < k /\ a # b
     /\ events[i].status = "accepted" /\ events[k].status = "running"
     /\ ~\E m \in 1..(i - 1) : events[m] = Event(b, "accepted"))
      => \E l \in (i + 1)..(k - 1) : events[l].request_id = a

\* When the completion of a stop is published, everything published before it
\* is already settled: no motion survives, running or queued.
StopSettlesEverything ==
  \A i, k \in 1..Len(events) :
    LET s == events[k].request_id
    IN
    (/\ i < k
     /\ events[k].status = "completed" /\ records[s].request.capability = "stop"
     /\ events[i].status \in {"accepted", "running"})
      => EndsBetween(events[i].request_id, i, k)
-----------------------------------------------------------------------------
(* Time *)

\* No motion starts after its deadline, neither at submission nor when it leaves
\* the queue, even if it was fresh when it was accepted.
NeverStartsStale ==
  [][\A k \in (Len(events) + 1)..Len(events') :
       events'[k].status = "running"
         => LET r == records'[events'[k].request_id].request
            IN  wall <= r.created_at + r.ttl_seconds]_vars

\* When a motion ended by the duration reported for it.  What never ran has the
\* empty span at the start of time.
Ended(rec) == rec.started_mono + rec.duration

\* One moment is before another, up to the rounding of durations.
BeforeRounded(end, moment) == end < moment + Micro

\* The reported spans of any two motions overlap by less than a microsecond and
\* reach less than a microsecond beyond the present, whatever is done to the wall
\* clock.  Not less than that: a duration is rounded to the nearest microsecond, so
\* it may reach into the span of the motion that follows at once.
MotionTimeFits ==
  \A a, b \in DOMAIN records :
    /\ BeforeRounded(Ended(records[a]), mono)
    /\ \/ a = b
       \/ BeforeRounded(Ended(records[a]), records[b].started_mono)
       \/ BeforeRounded(Ended(records[b]), records[a].started_mono)
-----------------------------------------------------------------------------
(* Progress.  Whoever drives a manual agent completes what runs. *)

CompleteRunning == running # None /\ Complete(running)
FairSpec == Spec /\ WF_vars(CompleteRunning)

\* Under that assumption no accepted motion is starved: it is settled in the
\* end, whatever else is submitted, cancelled or failed meanwhile.
AcceptedSettles ==
  \A id \in RequestIds :
    id \in WithStatus("accepted")
      ~> (id \in DOMAIN records /\ records[id].status \in TerminalStatuses)
-----------------------------------------------------------------------------
(* What the documents say and the code does not do *)

\* The module docstring: "Stop (EMERGENCY) always preempts Stand and Walk motion
\* requests".  Stated of every stop that is not a duplicate or a conflict.
StopAlwaysPreempts ==
  [][\A r \in Requests :
       (r.capability = "stop" /\ IsNew(r) /\ Submit(r))
         => running' = None /\ waiting' = <<>>]_vars

\* Section 6 of the Phase 2 document lists the legal transitions: completed is
\* reached from running only.
CompletedOnlyFromRunning ==
  \A k \in 1..Len(events) :
    events[k].status = "completed"
      => \E i \in 1..(k - 1) : events[i] = Event(events[k].request_id, "running")
=============================================================================
