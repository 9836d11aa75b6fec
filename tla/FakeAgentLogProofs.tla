------------------------- MODULE FakeAgentLogProofs --------------------------
(***************************************************************************)
(* Theorems about the event log of FakeAgent: what the events, read alone  *)
(* and in order, tell an observer of the agent.                            *)
(***************************************************************************)
EXTENDS FakeAgentProofs

-----------------------------------------------------------------------------
(* Logs as sequences *)

\* Publishing more events leaves those already published where they are.
LEMMA LogConcat ==
  ASSUME NEW a \in Seq(Events), NEW b \in Seq(Events)
  PROVE  /\ Len(a) \in Nat /\ Len(b) \in Nat
         /\ a \o b \in Seq(Events)
         /\ Len(a \o b) = Len(a) + Len(b)
         /\ \A k \in 1..Len(a) : (a \o b)[k] = a[k]
         /\ \A k \in 1..Len(b) : (a \o b)[Len(a) + k] = b[k]
<1>1. Len(a) \in Nat /\ Len(b) \in Nat
  BY LenProperties
<1>2. /\ a \o b \in Seq(Events)
      /\ Len(a \o b) = Len(a) + Len(b)
      /\ \A i \in 1..(Len(a) + Len(b)) :
           (a \o b)[i] = IF i <= Len(a) THEN a[i] ELSE b[i - Len(a)]
  BY ConcatProperties
<1>3. ASSUME NEW k \in 1..Len(b) PROVE (a \o b)[Len(a) + k] = b[k]
  <2>1. /\ Len(a) + k \in 1..(Len(a) + Len(b))
        /\ ~(Len(a) + k <= Len(a))
        /\ (Len(a) + k) - Len(a) = k
    BY <1>1
  <2>. QED
    BY <1>2, <2>1
<1>. QED
  BY <1>1, <1>2, <1>3

\* Two logs that fit together tell one story.
LEMMA TellsConcat ==
  ASSUME NEW a \in Seq(Events), NEW b \in Seq(Events),
         NEW before, NEW middle, NEW after,
         Tells(a, before, middle), Tells(b, middle, after)
  PROVE  Tells(a \o b, before, after)
<1>. DEFINE c == a \o b
            n == Len(a)
<1>1. /\ n \in Nat /\ Len(b) \in Nat
      /\ Len(c) = n + Len(b)
      /\ \A k \in 1..n : c[k] = a[k]
      /\ \A k \in 1..Len(b) : c[n + k] = b[k]
  BY LogConcat
<1>2. \A k \in 1..Len(b) : b[k].request_id \in RequestIds
  <2>1. \A k \in 1..Len(b) : b[k] \in Events
    BY LenProperties
  <2>. QED
    BY <2>1 DEF Events
<1>. HIDE DEF c, n
<1>3. ASSUME NEW id, NEW s, NEW k \in 0..n, Says(a, before, id, k, s)
      PROVE  Says(c, before, id, k, s)
  <2>1. \A l \in 1..k : c[l] = a[l]
    BY <1>1
  <2>2. CASE s = before[id] /\ Silent(a, id, 1, k)
    BY <2>1, <2>2 DEF Says, Silent
  <2>3. ASSUME NEW j \in 1..k, a[j].request_id = id, a[j].status = s, Silent(a, id, j + 1, k)
        PROVE  Says(c, before, id, k, s)
    <3>1. Silent(c, id, j + 1, k)
      BY <1>1, <2>1, <2>3 DEF Silent
    <3>. QED
      BY <2>1, <2>3, <3>1 DEF Says
  <2>. QED
    BY <1>3, <2>2, <2>3 DEF Says
<1>4. ASSUME NEW id \in RequestIds, NEW s, NEW k \in 0..Len(b), Says(b, middle, id, k, s)
      PROVE  Says(c, before, id, n + k, s)
  <2>1. CASE s = middle[id] /\ Silent(b, id, 1, k)
    <3>1. \A l \in (n + 1)..(n + k) : c[l].request_id # id
      <4>1. ASSUME NEW l \in (n + 1)..(n + k) PROVE c[l].request_id # id
        <5>1. l - n \in 1..k /\ l - n \in 1..Len(b) /\ n + (l - n) = l
          BY <1>1
        <5>. QED
          BY <1>1, <2>1, <5>1 DEF Silent
      <4>. QED
        BY <4>1
    <3>2. Says(c, before, id, n, s)
      <4>1. Says(a, before, id, n, s)
        BY <2>1 DEF Tells, n
      <4>2. n \in 0..n
        BY <1>1
      <4>. QED
        BY <1>3, <4>1, <4>2
    <3>3. CASE s = before[id] /\ Silent(c, id, 1, n)
      <4>1. Silent(c, id, 1, n + k)
        BY <1>1, <3>1, <3>3 DEF Silent
      <4>. QED
        BY <3>3, <4>1 DEF Says
    <3>4. ASSUME NEW j \in 1..n, c[j].request_id = id, c[j].status = s, Silent(c, id, j + 1, n)
          PROVE  Says(c, before, id, n + k, s)
      <4>1. Silent(c, id, j + 1, n + k) /\ j \in 1..(n + k)
        BY <1>1, <3>1, <3>4 DEF Silent
      <4>. QED
        BY <3>4, <4>1 DEF Says
    <3>. QED
      BY <3>2, <3>3, <3>4 DEF Says
  <2>2. ASSUME NEW j \in 1..k, b[j].request_id = id, b[j].status = s, Silent(b, id, j + 1, k)
        PROVE  Says(c, before, id, n + k, s)
    <3>1. n + j \in 1..(n + k) /\ c[n + j] = b[j]
      BY <1>1
    <3>2. ASSUME NEW l \in (n + j + 1)..(n + k) PROVE c[l].request_id # id
      <4>1. l - n \in (j + 1)..k /\ l - n \in 1..Len(b) /\ n + (l - n) = l
        BY <1>1
      <4>. QED
        BY <1>1, <2>2, <4>1 DEF Silent
    <3>. QED
      BY <2>2, <3>1, <3>2 DEF Says, Silent
  <2>. QED
    BY <1>4, <2>1, <2>2 DEF Says
<1>5. ASSUME NEW k \in 1..Len(c)
      PROVE  \E s \in Lifecycle!Statuses :
               /\ Says(c, before, c[k].request_id, k - 1, s)
               /\ c[k].status \in Lifecycle!Successors(s)
  <2>1. CASE k <= n
    <3>1. k \in 1..n /\ k - 1 \in 0..n
      BY <1>1, <2>1
    <3>2. PICK s \in Lifecycle!Statuses :
            /\ Says(a, before, a[k].request_id, k - 1, s)
            /\ a[k].status \in Lifecycle!Successors(s)
      BY <3>1 DEF Tells, n
    <3>. QED
      BY <1>1, <1>3, <3>1, <3>2
  <2>2. CASE ~(k <= n)
    <3>. DEFINE l == k - n
    <3>1. l \in 1..Len(b) /\ l - 1 \in 0..Len(b) /\ n + l = k /\ n + (l - 1) = k - 1
      BY <1>1, <2>2
    <3>. HIDE DEF l
    <3>2. PICK s \in Lifecycle!Statuses :
            /\ Says(b, middle, b[l].request_id, l - 1, s)
            /\ b[l].status \in Lifecycle!Successors(s)
      BY <3>1 DEF Tells
    <3>3. Says(c, before, b[l].request_id, n + (l - 1), s)
      BY <1>2, <1>4, <3>1, <3>2
    <3>4. c[k] = b[l]
      BY <1>1, <3>1
    <3>. QED
      BY <3>1, <3>2, <3>3, <3>4
  <2>. QED
    BY <2>1, <2>2
<1>6. ASSUME NEW id \in RequestIds PROVE Says(c, before, id, Len(c), after[id])
  <2>1. Says(b, middle, id, Len(b), after[id]) /\ Len(b) \in 0..Len(b)
    BY <1>1 DEF Tells
  <2>. QED
    BY <1>1, <1>4, <2>1
<1>7. Tells(c, before, after)
  BY <1>5, <1>6 DEF Tells
<1>. QED
  BY <1>7 DEF c

\* Events about different requests, each a legal move of its request, tell where
\* the requests end.
LEMMA DistinctTells ==
  ASSUME NEW b \in Seq(Events), NEW before, NEW after,
         \A j, k \in 1..Len(b) : b[j].request_id = b[k].request_id => j = k,
         \A k \in 1..Len(b) :
           /\ before[b[k].request_id] \in Lifecycle!Statuses
           /\ b[k].status \in Lifecycle!Successors(before[b[k].request_id])
           /\ after[b[k].request_id] = b[k].status,
         \A id \in RequestIds :
           after[id] = before[id] \/ \E k \in 1..Len(b) : b[k].request_id = id
  PROVE  Tells(b, before, after)
<1>1. Len(b) \in Nat
  BY LenProperties
<1>2. ASSUME NEW k \in 1..Len(b)
      PROVE  \E s \in Lifecycle!Statuses :
               /\ Says(b, before, b[k].request_id, k - 1, s)
               /\ b[k].status \in Lifecycle!Successors(s)
  <2>1. Silent(b, b[k].request_id, 1, k - 1)
    BY <1>1 DEF Silent
  <2>2. Says(b, before, b[k].request_id, k - 1, before[b[k].request_id])
    BY <2>1 DEF Says
  <2>. QED
    BY <2>2
<1>3. ASSUME NEW id \in RequestIds PROVE Says(b, before, id, Len(b), after[id])
  <2>1. ASSUME NEW k \in 1..Len(b), b[k].request_id = id
        PROVE  Says(b, before, id, Len(b), after[id])
    <3>1. Silent(b, id, k + 1, Len(b))
      BY <1>1, <2>1 DEF Silent
    <3>2. b[k].status = after[id]
      BY <2>1
    <3>. QED
      BY <2>1, <3>1, <3>2 DEF Says
  <2>2. CASE ~\E k \in 1..Len(b) : b[k].request_id = id
    <3>1. Silent(b, id, 1, Len(b)) /\ after[id] = before[id]
      BY <2>2 DEF Silent
    <3>. QED
      BY <3>1 DEF Says
  <2>. QED
    BY <2>1, <2>2
<1>. QED
  BY <1>2, <1>3 DEF Tells
-----------------------------------------------------------------------------
(***************************************************************************)
(* The inductive invariant.  The four properties of the log speak of the   *)
(* events alone; what connects them to the state is that an event which    *)
(* leaves its motion alive is still true of the records or is followed by  *)
(* the end of that motion, and that the queue is in the order in which its *)
(* entries were accepted.                                                  *)
(***************************************************************************)

Still(s) == IF s = "accepted" THEN {"accepted", "running"} ELSE {"running"}

EndsIn(log, id, i, j) == \E l \in i..j : /\ log[l].request_id = id
                                         /\ log[l].status \in TerminalStatuses

AliveOrEnded ==
  \A i \in 1..Len(events) :
    events[i].status \in {"accepted", "running"}
      => \/ StatusOf(events[i].request_id) \in Still(events[i].status)
         \/ EndsIn(events, events[i].request_id, i + 1, Len(events))

QueueInOrder ==
  \A p, q \in 1..Len(waiting), i, m \in 1..Len(events) :
    (/\ p < q
     /\ events[i].request_id = waiting[p] /\ events[i].status = "accepted"
     /\ events[m].request_id = waiting[q] /\ events[m].status = "accepted")
      => i < m

LogInv ==
  /\ LogTellsEachStoryOnce
  /\ AliveOrEnded
  /\ QueueInOrder
  /\ OneMotionInTheLog
  /\ FirstInFirstStarted
  /\ StopSettlesEverything
-----------------------------------------------------------------------------
(***************************************************************************)
(* What the events b of one call look like, whichever call it is.          *)
(***************************************************************************)

\* The status of a request when the call returns.
NextStatusOf(id) == IF id \in DOMAIN records' THEN records'[id].status ELSE "new"

\* What is left alive is so in the records too.
LeavesAlive(b) ==
  \A k \in 1..Len(b) :
    b[k].status \in {"accepted", "running"}
      => \/ NextStatusOf(b[k].request_id) = b[k].status
         \/ EndsIn(b, b[k].request_id, k + 1, Len(b))

\* An acceptance is the only event of its call and concerns a new request.
AcceptsAlone(b) ==
  \A k \in 1..Len(b) :
    b[k].status = "accepted" => Len(b) = 1 /\ StatusOf(b[k].request_id) = "new"

\* A motion starts once, when the motion in the slot has ended and all that was
\* queued before it has been settled.
StartsInTurn(b) ==
  \A k \in 1..Len(b) :
    b[k].status = "running" =>
      /\ \A j \in 1..Len(b) : b[j].status = "running" => j = k
      /\ running # None => EndsIn(b, running, 1, k - 1)
      /\ \A p \in 1..Len(waiting) :
           \/ \E q \in 1..p : b[k].request_id = waiting[q]
           \/ \E l \in 1..(k - 1) : b[l].request_id = waiting[p]

\* The completion of a stop follows the end of everything that was alive.
StopsLast(b) ==
  \A k \in 1..Len(b) :
    (/\ b[k].status = "completed"
     /\ records'[b[k].request_id].request.capability = "stop") =>
      /\ \A j \in 1..Len(b) : b[j].status \notin {"accepted", "running"}
      /\ \A id \in RequestIds :
           StatusOf(id) \in {"accepted", "running"} => EndsIn(b, id, 1, k - 1)

\* The queue keeps its order; a new entry goes behind the others.
QueueKeepsOrder ==
  \A p, q \in 1..Len(waiting') :
    p < q =>
      /\ \E i \in 1..Len(waiting) : waiting'[p] = waiting[i]
      /\ \/ StatusOf(waiting'[q]) = "new"
         \/ \E i, j \in 1..Len(waiting) :
              i < j /\ waiting'[p] = waiting[i] /\ waiting'[q] = waiting[j]

Publishes(b) ==
  /\ b \in Seq(Events)
  /\ events' = events \o b
  /\ Tells(b, AbstractStatus, AbstractStatus')
  /\ LeavesAlive(b)
  /\ AcceptsAlone(b)
  /\ StartsInTurn(b)
  /\ StopsLast(b)
  /\ QueueKeepsOrder
-----------------------------------------------------------------------------
(* Such a call keeps the invariant. *)

LEMMA NextStatuses == AbstractStatus' = [id \in RequestIds |-> NextStatusOf(id)]
BY DEF AbstractStatus, StatusOf, NextStatusOf

LEMMA StatusMoves ==
  ASSUME TypeOK, ResourceInv, [Next]_vars, NEW i \in RequestIds
  PROVE  Moves(StatusOf(i), NextStatusOf(i))
<1>1. CASE i \in DOMAIN records
  <2>1. i \in DOMAIN records' /\ Kept(i)
    BY <1>1, StepKeeps DEF NoNewRecord, NewRecordOf
  <2>. QED
    BY <1>1, <2>1 DEF Kept, StatusOf, NextStatusOf
<1>2. CASE i \notin DOMAIN records /\ i \in DOMAIN records'
  <2>1. PICK r \in Requests : NewRecordOf(r)
    BY <1>2, StepKeeps DEF NoNewRecord
  <2>2. i = r.request_id
    BY <1>2, <2>1 DEF NewRecordOf
  <2>. QED
    BY <1>2, <2>1, <2>2 DEF NewRecordOf, StatusOf, NextStatusOf
<1>3. CASE i \notin DOMAIN records /\ i \notin DOMAIN records'
  BY <1>3 DEF StatusOf, NextStatusOf, Moves
<1>. QED
  BY <1>1, <1>2, <1>3

\* The log of a state, and what it says of a request.
LEMMA LogFacts ==
  ASSUME TypeOK
  PROVE  /\ events \in Seq(Events)
         /\ Len(events) \in Nat
         /\ \A k \in 1..Len(events) : /\ events[k].request_id \in RequestIds
                                      /\ events[k].status \in ActionStatuses
<1>1. events \in Seq(Events)
  BY DEF TypeOK, Events
<1>2. \A k \in 1..Len(events) : events[k] \in Events
  BY <1>1, LenProperties
<1>. QED
  BY <1>1, <1>2, LenProperties DEF Events

\* A request is new exactly when nothing was published about it; otherwise the
\* last event about it says what its record says.
LEMMA LastEvent ==
  ASSUME TypeOK, LogTellsEachStoryOnce, NEW id \in RequestIds
  PROVE  \/ StatusOf(id) = "new" /\ Silent(events, id, 1, Len(events))
         \/ /\ id \in DOMAIN records
            /\ \E j \in 1..Len(events) : /\ events[j].request_id = id
                                         /\ events[j].status = StatusOf(id)
                                         /\ Silent(events, id, j + 1, Len(events))
<1>1. Says(events, NothingYet, id, Len(events), StatusOf(id))
  BY DEF LogTellsEachStoryOnce, Tells, AbstractStatus
<1>2. NothingYet[id] = "new"
  BY DEF NothingYet
<1>3. "new" \notin ActionStatuses
  BY DEF ActionStatuses, TerminalStatuses
<1>4. \A k \in 1..Len(events) : events[k].status \in ActionStatuses
  BY LogFacts
<1>. QED
  BY <1>1, <1>2, <1>3, <1>4 DEF Says, StatusOf

\* A motion that was accepted waits in the queue until another event about it.
LEMMA AcceptedWaits ==
  ASSUME TypeOK, ResourceInv, LogTellsEachStoryOnce,
         NEW i \in 1..Len(events), events[i].status = "accepted"
  PROVE  \/ Waits(events[i].request_id)
         \/ \E l \in (i + 1)..Len(events) : events[l].request_id = events[i].request_id
<1>. DEFINE id == events[i].request_id
<1>1. id \in RequestIds /\ Len(events) \in Nat
  BY LogFacts
<1>2. PICK j \in 1..Len(events) : /\ events[j].request_id = id
                                  /\ events[j].status = StatusOf(id)
                                  /\ Silent(events, id, j + 1, Len(events))
                                  /\ id \in DOMAIN records
  BY <1>1, LastEvent DEF Silent
<1>3. ~(j < i)
  BY <1>1, <1>2 DEF Silent
<1>4. CASE j = i
  BY <1>2, <1>4 DEF StatusOf, ResourceInv, MotionResource, QueueIsTheAccepted
<1>5. CASE j > i
  BY <1>1, <1>2, <1>5
<1>. QED
  BY <1>1, <1>3, <1>4, <1>5

\* Every entry of the queue was published as accepted.
LEMMA WaitingWasAccepted ==
  ASSUME TypeOK, ResourceInv, LogTellsEachStoryOnce, NEW p \in 1..Len(waiting)
  PROVE  /\ StatusOf(waiting[p]) = "accepted"
         /\ \E m \in 1..Len(events) : /\ events[m].request_id = waiting[p]
                                      /\ events[m].status = "accepted"
<1>1. waiting[p] \in DOMAIN records /\ records[waiting[p]].status = "accepted"
  BY DEF ResourceInv, MotionResource, QueueIsTheAccepted, Waits
<1>2. StatusOf(waiting[p]) = "accepted" /\ waiting[p] \in RequestIds
  BY <1>1 DEF StatusOf, TypeOK
<1>. QED
  BY <1>2, LastEvent

\* Old and new positions of the log after a call.
LEMMA LogGrows ==
  ASSUME TypeOK, NEW b, Publishes(b)
  PROVE  /\ Len(events) \in Nat /\ Len(b) \in Nat
         /\ Len(events') = Len(events) + Len(b)
         /\ \A k \in 1..Len(events) : events'[k] = events[k]
         /\ \A k \in 1..Len(b) : events'[Len(events) + k] = b[k]
         /\ \A k \in 1..Len(events') :
              k \in 1..Len(events) \/ \E l \in 1..Len(b) : k = Len(events) + l
<1>1. b \in Seq(Events) /\ events' = events \o b
  BY DEF Publishes
<1>2. /\ Len(events) \in Nat /\ Len(b) \in Nat
      /\ Len(events') = Len(events) + Len(b)
      /\ \A k \in 1..Len(events) : events'[k] = events[k]
      /\ \A k \in 1..Len(b) : events'[Len(events) + k] = b[k]
  BY <1>1, LogFacts, LogConcat
<1>3. ASSUME NEW k \in 1..Len(events'), k \notin 1..Len(events)
      PROVE  \E l \in 1..Len(b) : k = Len(events) + l
  <2>1. k - Len(events) \in 1..Len(b) /\ k = Len(events) + (k - Len(events))
    BY <1>2, <1>3
  <2>. QED
    BY <2>1
<1>. QED
  BY <1>2, <1>3

\* A motion whose end was published, before the call or by it.
LEMMA EndedBefore ==
  ASSUME TypeOK, NEW b, Publishes(b), NEW id, NEW i \in 1..(Len(events) + 1),
         EndsIn(events, id, i, Len(events)), NEW j \in Int, j >= Len(events)
  PROVE  EndsIn(events', id, i, j)
<1>1. /\ Len(events) \in Nat
      /\ \A k \in 1..Len(events) : events'[k] = events[k]
  BY LogGrows
<1>2. PICK l \in i..Len(events) :
        events[l].request_id = id /\ events[l].status \in TerminalStatuses
  BY DEF EndsIn
<1>3. l \in 1..Len(events) /\ l \in i..j
  BY <1>1, <1>2
<1>. QED
  BY <1>1, <1>2, <1>3 DEF EndsIn

LEMMA EndedByCall ==
  ASSUME TypeOK, NEW b, Publishes(b), NEW id,
         NEW c \in 1..(Len(b) + 1), NEW d \in 0..Len(b), EndsIn(b, id, c, d),
         NEW i \in Int, i <= Len(events) + c, NEW j \in Int, j >= Len(events) + d
  PROVE  EndsIn(events', id, i, j)
<1>1. /\ Len(events) \in Nat /\ Len(b) \in Nat
      /\ \A k \in 1..Len(b) : events'[Len(events) + k] = b[k]
  BY LogGrows
<1>2. PICK l \in c..d : b[l].request_id = id /\ b[l].status \in TerminalStatuses
  BY DEF EndsIn
<1>3. l \in 1..Len(b) /\ Len(events) + l \in i..j
  BY <1>1, <1>2
<1>. QED
  BY <1>1, <1>2, <1>3 DEF EndsIn

LEMMA StoryKept ==
  ASSUME TypeOK, LogTellsEachStoryOnce, NEW b, Publishes(b)
  PROVE  LogTellsEachStoryOnce'
<1>1. events \in Seq(Events) /\ b \in Seq(Events) /\ events' = events \o b
  BY LogFacts DEF Publishes
<1>2. Tells(events, NothingYet, AbstractStatus) /\ Tells(b, AbstractStatus, AbstractStatus')
  BY DEF LogTellsEachStoryOnce, Publishes
<1>3. Tells(events \o b, NothingYet, AbstractStatus')
  BY <1>1, <1>2, TellsConcat
<1>4. Tells(events', NothingYet, AbstractStatus')
  BY <1>1, <1>3
<1>. QED
  BY <1>4 DEF LogTellsEachStoryOnce, NothingYet, Tells, Says, Silent

LEMMA AliveKept ==
  ASSUME TypeOK, ResourceInv, [Next]_vars, LogTellsEachStoryOnce, AliveOrEnded,
         NEW b, Publishes(b)
  PROVE  AliveOrEnded'
<1>1. /\ Len(events) \in Nat /\ Len(b) \in Nat
      /\ Len(events') = Len(events) + Len(b)
      /\ \A k \in 1..Len(events) : events'[k] = events[k]
      /\ \A k \in 1..Len(b) : events'[Len(events) + k] = b[k]
      /\ \A k \in 1..Len(events') :
           k \in 1..Len(events) \/ \E l \in 1..Len(b) : k = Len(events) + l
  BY LogGrows
<1>. DEFINE Good(i) ==
       \/ NextStatusOf(events'[i].request_id) \in Still(events'[i].status)
       \/ EndsIn(events', events'[i].request_id, i + 1, Len(events'))
<1>2. ASSUME NEW i \in 1..Len(events), events'[i].status \in {"accepted", "running"}
      PROVE  Good(i)
  <2>. DEFINE id == events[i].request_id
              s == events[i].status
  <2>1. events'[i] = events[i] /\ id \in RequestIds
    BY <1>1, LogFacts
  <2>2. CASE EndsIn(events, id, i + 1, Len(events))
    <3>1. Len(events') \in Int /\ Len(events') >= Len(events) /\ i + 1 \in 1..(Len(events) + 1)
      BY <1>1
    <3>2. EndsIn(events', id, i + 1, Len(events'))
      BY <2>2, <3>1, EndedBefore
    <3>. QED
      BY <2>1, <3>2
  <2>3. CASE StatusOf(id) \in Still(s)
    <3>1. NextStatusOf(id) = StatusOf(id)
            \/ \E k \in 1..Len(b) : b[k].request_id = id /\ b[k].status = NextStatusOf(id)
      <4>1. Says(b, AbstractStatus, id, Len(b), AbstractStatus'[id])
        BY <2>1 DEF Publishes, Tells
      <4>2. AbstractStatus[id] = StatusOf(id) /\ AbstractStatus'[id] = NextStatusOf(id)
        BY <2>1, NextStatuses DEF AbstractStatus
      <4>. QED
        BY <4>1, <4>2 DEF Says
    <3>2. NextStatusOf(id) = StatusOf(id) \/ NextStatusOf(id) \in Lifecycle!Successors(StatusOf(id))
      BY <2>1, StatusMoves DEF Moves
    <3>3. NextStatusOf(id) \in Still(s) \/ NextStatusOf(id) \in TerminalStatuses
      <4>1. s \in {"accepted", "running"}
        BY <1>2, <2>1
      <4>2. Lifecycle!Successors("accepted") \subseteq {"running"} \cup TerminalStatuses
        BY DEF Lifecycle!Successors, TerminalStatuses
      <4>3. Lifecycle!Successors("running") \subseteq TerminalStatuses
        BY DEF Lifecycle!Successors, TerminalStatuses
      <4>. QED
        BY <2>3, <3>2, <4>1, <4>2, <4>3 DEF Still
    <3>4. CASE /\ NextStatusOf(id) \notin Still(s)
               /\ \E k \in 1..Len(b) : b[k].request_id = id /\ b[k].status = NextStatusOf(id)
      <4>1. EndsIn(b, id, 1, Len(b))
        BY <3>3, <3>4 DEF EndsIn
      <4>2. /\ Len(events') \in Int /\ Len(events') >= Len(events) + Len(b)
            /\ i + 1 \in Int /\ i + 1 <= Len(events) + 1
            /\ 1 \in 1..(Len(b) + 1) /\ Len(b) \in 0..Len(b)
        BY <1>1
      <4>3. EndsIn(events', id, i + 1, Len(events'))
        BY <4>1, <4>2, EndedByCall
      <4>. QED
        BY <2>1, <4>3
    <3>. QED
      BY <2>1, <2>3, <3>1, <3>4
  <2>4. EndsIn(events, id, i + 1, Len(events)) \/ StatusOf(id) \in Still(s)
    BY <1>2, <2>1 DEF AliveOrEnded
  <2>. QED
    BY <2>2, <2>3, <2>4
<1>3. ASSUME NEW l \in 1..Len(b), b[l].status \in {"accepted", "running"}
      PROVE  Good(Len(events) + l)
  <2>. DEFINE id == b[l].request_id
  <2>1. events'[Len(events) + l] = b[l]
    BY <1>1
  <2>2. CASE NextStatusOf(id) = b[l].status
    BY <1>3, <2>1, <2>2 DEF Still
  <2>3. CASE EndsIn(b, id, l + 1, Len(b))
    <3>1. /\ Len(events) + l + 1 \in Int /\ Len(events) + l + 1 <= Len(events) + (l + 1)
          /\ Len(events') \in Int /\ Len(events') >= Len(events) + Len(b)
          /\ l + 1 \in 1..(Len(b) + 1) /\ Len(b) \in 0..Len(b)
      BY <1>1
    <3>2. EndsIn(events', id, Len(events) + l + 1, Len(events'))
      BY <2>3, <3>1, EndedByCall
    <3>. QED
      BY <2>1, <3>2
  <2>. QED
    BY <1>3, <2>2, <2>3 DEF Publishes, LeavesAlive
<1>. HIDE DEF Good
<1>4. \A i \in 1..Len(events') : events'[i].status \in {"accepted", "running"} => Good(i)
  BY <1>1, <1>2, <1>3
<1>. QED
  BY <1>4 DEF Good, AliveOrEnded, NextStatusOf, StatusOf, EndsIn

LEMMA OneMotionKept ==
  ASSUME TypeOK, ResourceInv, AliveOrEnded, OneMotionInTheLog, NEW b, Publishes(b)
  PROVE  OneMotionInTheLog'
<1>1. /\ Len(events) \in Nat /\ Len(b) \in Nat
      /\ Len(events') = Len(events) + Len(b)
      /\ \A k \in 1..Len(events) : events'[k] = events[k]
      /\ \A k \in 1..Len(b) : events'[Len(events) + k] = b[k]
      /\ \A k \in 1..Len(events') :
           k \in 1..Len(events) \/ \E l \in 1..Len(b) : k = Len(events) + l
  BY LogGrows
<1>2. ASSUME NEW i \in 1..Len(events'), NEW j \in 1..Len(events'), i < j,
             events'[i].status = "running", events'[j].status = "running"
      PROVE  EndsIn(events', events'[i].request_id, i + 1, j - 1)
  <2>1. CASE j \in 1..Len(events)
    <3>1. i \in 1..Len(events) /\ events'[i] = events[i] /\ events'[j] = events[j]
      BY <1>1, <1>2, <2>1
    <3>2. PICK l \in (i + 1)..(j - 1) : /\ events[l].request_id = events[i].request_id
                                        /\ events[l].status \in TerminalStatuses
      BY <1>2, <2>1, <3>1 DEF OneMotionInTheLog, EndsBetween
    <3>3. l \in 1..Len(events)
      BY <1>1, <2>1, <3>1
    <3>. QED
      BY <1>1, <3>1, <3>2, <3>3 DEF EndsIn
  <2>2. ASSUME NEW k \in 1..Len(b), j = Len(events) + k, i \in 1..Len(events)
        PROVE  EndsIn(events', events'[i].request_id, i + 1, j - 1)
    <3>1. events'[i] = events[i] /\ b[k].status = "running"
      BY <1>1, <1>2, <2>2
    <3>2. CASE EndsIn(events, events[i].request_id, i + 1, Len(events))
      <4>1. i + 1 \in 1..(Len(events) + 1) /\ j - 1 \in Int /\ j - 1 >= Len(events)
        BY <1>1, <2>2
      <4>. QED
        BY <2>2, <3>1, <3>2, <4>1, EndedBefore
    <3>3. CASE StatusOf(events[i].request_id) = "running"
      <4>1. events[i].request_id = running /\ running # None
        BY <3>3 DEF StatusOf, ResourceInv, MotionResource, RunningIsTheSlot, WithStatus
      <4>2. EndsIn(b, running, 1, k - 1)
        BY <3>1, <4>1 DEF Publishes, StartsInTurn
      <4>3. /\ 1 \in 1..(Len(b) + 1) /\ k - 1 \in 0..Len(b)
            /\ i + 1 \in Int /\ i + 1 <= Len(events) + 1
            /\ j - 1 \in Int /\ j - 1 >= Len(events) + (k - 1)
        BY <1>1, <2>2
      <4>. QED
        BY <3>1, <4>1, <4>2, <4>3, EndedByCall
    <3>. QED
      BY <1>2, <2>2, <3>1, <3>2, <3>3 DEF AliveOrEnded, Still
  <2>3. ASSUME NEW k \in 1..Len(b), j = Len(events) + k, NEW l \in 1..Len(b), i = Len(events) + l
        PROVE  FALSE
    <3>1. b[k].status = "running" /\ b[l].status = "running"
      BY <1>1, <1>2, <2>3
    <3>2. l = k
      BY <3>1 DEF Publishes, StartsInTurn
    <3>. QED
      BY <1>1, <1>2, <2>3, <3>2
  <2>. QED
    BY <1>1, <2>1, <2>2, <2>3
<1>. QED
  BY <1>2 DEF OneMotionInTheLog, EndsBetween, EndsIn

\* The acceptances of what waits are all older than the call, but for one: that
\* of the request the call itself puts behind the others.
LEMMA QueueOrderKept ==
  ASSUME TypeOK, ResourceInv, LogTellsEachStoryOnce, QueueInOrder,
         NEW b, Publishes(b), TypeOK'
  PROVE  QueueInOrder'
<1>1. /\ Len(events) \in Nat /\ Len(b) \in Nat
      /\ Len(events') = Len(events) + Len(b)
      /\ \A k \in 1..Len(events) : events'[k] = events[k]
      /\ \A k \in 1..Len(b) : events'[Len(events) + k] = b[k]
      /\ \A k \in 1..Len(events') :
           k \in 1..Len(events) \/ \E l \in 1..Len(b) : k = Len(events) + l
  BY LogGrows
<1>2. ASSUME NEW p \in 1..Len(waiting'), NEW q \in 1..Len(waiting'),
             NEW i \in 1..Len(events'), NEW m \in 1..Len(events'), p < q,
             events'[i].request_id = waiting'[p], events'[i].status = "accepted",
             events'[m].request_id = waiting'[q], events'[m].status = "accepted"
      PROVE  i < m
  <2>1. PICK i1 \in 1..Len(waiting) : waiting'[p] = waiting[i1]
    BY <1>2 DEF Publishes, QueueKeepsOrder
  <2>2. i \in 1..Len(events)
    <3>1. SUFFICES ASSUME NEW l \in 1..Len(b), i = Len(events) + l PROVE FALSE
      BY <1>1
    <3>2. StatusOf(waiting[i1]) = "new"
      BY <1>1, <1>2, <2>1, <3>1 DEF Publishes, AcceptsAlone
    <3>. QED
      BY <3>2, WaitingWasAccepted
  <2>3. CASE StatusOf(waiting'[q]) = "new"
    <3>1. waiting'[q] \in RequestIds
      <4>1. waiting' \in Seq(RequestIds)
        BY DEF TypeOK
      <4>. QED
        BY <4>1, LenProperties
    <3>2. Silent(events, waiting'[q], 1, Len(events))
      <4>1. "new" \notin ActionStatuses
        BY DEF ActionStatuses, TerminalStatuses
      <4>. QED
        BY <2>3, <3>1, <4>1, LastEvent, LogFacts
    <3>3. m \notin 1..Len(events)
      BY <1>1, <1>2, <3>2 DEF Silent
    <3>. QED
      BY <1>1, <2>2, <3>3
  <2>4. ASSUME NEW i2 \in 1..Len(waiting), NEW j2 \in 1..Len(waiting), i2 < j2,
               waiting'[p] = waiting[i2], waiting'[q] = waiting[j2]
        PROVE  i < m
    <3>1. m \in 1..Len(events)
      <4>1. SUFFICES ASSUME NEW l \in 1..Len(b), m = Len(events) + l PROVE FALSE
        BY <1>1
      <4>2. StatusOf(waiting[j2]) = "new"
        BY <1>1, <1>2, <2>4, <4>1 DEF Publishes, AcceptsAlone
      <4>. QED
        BY <4>2, WaitingWasAccepted
    <3>. QED
      BY <1>1, <1>2, <2>2, <2>4, <3>1 DEF QueueInOrder
  <2>. QED
    BY <1>2, <2>3, <2>4 DEF Publishes, QueueKeepsOrder
<1>. QED
  BY <1>2 DEF QueueInOrder

LEMMA FirstInKept ==
  ASSUME TypeOK, ResourceInv, LogTellsEachStoryOnce, QueueInOrder, FirstInFirstStarted,
         NEW b, Publishes(b)
  PROVE  FirstInFirstStarted'
<1>1. /\ Len(events) \in Nat /\ Len(b) \in Nat
      /\ Len(events') = Len(events) + Len(b)
      /\ \A k \in 1..Len(events) : events'[k] = events[k]
      /\ \A k \in 1..Len(b) : events'[Len(events) + k] = b[k]
      /\ \A k \in 1..Len(events') :
           k \in 1..Len(events) \/ \E l \in 1..Len(b) : k = Len(events) + l
  BY LogGrows
<1>2. ASSUME NEW i \in 1..Len(events'), NEW k \in 1..Len(events'), i < k,
             events'[i].request_id # events'[k].request_id,
             events'[i].status = "accepted", events'[k].status = "running",
             ~\E m \in 1..(i - 1) : events'[m] = Event(events'[k].request_id, "accepted")
      PROVE  \E l \in (i + 1)..(k - 1) : events'[l].request_id = events'[i].request_id
  <2>1. CASE k \in 1..Len(events)
    <3>1. i \in 1..Len(events) /\ events'[i] = events[i] /\ events'[k] = events[k]
      BY <1>1, <1>2, <2>1
    <3>2. ~\E m \in 1..(i - 1) : events[m] = Event(events[k].request_id, "accepted")
      BY <1>1, <1>2, <3>1
    <3>3. PICK l \in (i + 1)..(k - 1) : events[l].request_id = events[i].request_id
      BY <1>2, <2>1, <3>1, <3>2 DEF FirstInFirstStarted
    <3>. QED
      BY <1>1, <2>1, <3>1, <3>3
  <2>2. ASSUME NEW c \in 1..Len(b), k = Len(events) + c, i \in 1..Len(events)
        PROVE  \E l \in (i + 1)..(k - 1) : events'[l].request_id = events'[i].request_id
    <3>1. /\ events'[i] = events[i] /\ events'[k] = b[c]
          /\ \A l \in (i + 1)..Len(events) : events'[l] = events[l] /\ l \in (i + 1)..(k - 1)
      BY <1>1, <2>2
    <3>2. CASE \E l \in (i + 1)..Len(events) : events[l].request_id = events[i].request_id
      BY <3>1, <3>2
    <3>3. ASSUME NEW p \in 1..Len(waiting), waiting[p] = events[i].request_id
          PROVE  \E l \in (i + 1)..(k - 1) : events'[l].request_id = events'[i].request_id
      <4>1. CASE \E l \in 1..(c - 1) : b[l].request_id = waiting[p]
        <5>1. PICK l \in 1..(c - 1) : b[l].request_id = waiting[p]
          BY <4>1
        <5>2. l \in 1..Len(b) /\ Len(events) + l \in (i + 1)..(k - 1)
          BY <1>1, <2>2
        <5>. QED
          BY <1>1, <3>1, <3>3, <5>1, <5>2
      <4>2. ASSUME NEW q \in 1..p, b[c].request_id = waiting[q] PROVE FALSE
        <5>1. q \in 1..Len(waiting) /\ q < p
          <6>1. q # p
            BY <1>2, <3>1, <3>3, <4>2
          <6>2. Len(waiting) \in Nat
            BY LenProperties DEF TypeOK
          <6>. QED
            BY <6>1, <6>2
        <5>2. PICK m \in 1..Len(events) : /\ events[m].request_id = waiting[q]
                                          /\ events[m].status = "accepted"
          BY <5>1, WaitingWasAccepted
        <5>3. m < i
          BY <1>2, <2>2, <3>1, <3>3, <5>1, <5>2 DEF QueueInOrder
        <5>4. events[m] = Event(waiting[q], "accepted")
          <6>1. events[m] \in Events
            BY LogFacts, LenProperties
          <6>. QED
            BY <5>2, <6>1 DEF Events, Event
        <5>5. m \in 1..(i - 1) /\ events'[m] = Event(events'[k].request_id, "accepted")
          BY <1>1, <2>2, <3>1, <4>2, <5>3, <5>4
        <5>. QED
          BY <1>2, <5>5
      <4>3. b[c].status = "running"
        BY <1>2, <3>1
      <4>. QED
        BY <4>1, <4>2, <4>3 DEF Publishes, StartsInTurn
    <3>4. events[i].status = "accepted"
      BY <1>2, <3>1
    <3>. QED
      BY <2>2, <3>2, <3>3, <3>4, AcceptedWaits DEF Waits
  <2>3. ASSUME NEW c \in 1..Len(b), k = Len(events) + c, NEW a \in 1..Len(b), i = Len(events) + a
        PROVE  FALSE
    <3>1. b[a].status = "accepted"
      BY <1>1, <1>2, <2>3
    <3>2. Len(b) = 1
      BY <3>1 DEF Publishes, AcceptsAlone
    <3>. QED
      BY <1>1, <1>2, <2>3, <3>2
  <2>. QED
    BY <1>1, <2>1, <2>2, <2>3
<1>. QED
  BY <1>2 DEF FirstInFirstStarted, Event

LEMMA StopsKept ==
  ASSUME TypeOK, ResourceInv, [Next]_vars, LogTellsEachStoryOnce, AliveOrEnded,
         StopSettlesEverything, NEW b, Publishes(b)
  PROVE  StopSettlesEverything'
<1>1. /\ Len(events) \in Nat /\ Len(b) \in Nat
      /\ Len(events') = Len(events) + Len(b)
      /\ \A k \in 1..Len(events) : events'[k] = events[k]
      /\ \A k \in 1..Len(b) : events'[Len(events) + k] = b[k]
      /\ \A k \in 1..Len(events') :
           k \in 1..Len(events) \/ \E l \in 1..Len(b) : k = Len(events) + l
  BY LogGrows
<1>2. ASSUME NEW i \in 1..Len(events'), NEW k \in 1..Len(events'), i < k,
             events'[k].status = "completed",
             records'[events'[k].request_id].request.capability = "stop",
             events'[i].status \in {"accepted", "running"}
      PROVE  EndsIn(events', events'[i].request_id, i + 1, k - 1)
  <2>1. CASE k \in 1..Len(events)
    <3>1. i \in 1..Len(events) /\ events'[i] = events[i] /\ events'[k] = events[k]
      BY <1>1, <1>2, <2>1
    <3>2. events[k].request_id \in DOMAIN records
      BY <2>1, LogFacts, LastEvent DEF Silent
    <3>3. records[events[k].request_id].request.capability = "stop"
      BY <1>2, <3>1, <3>2, StepKeeps DEF Kept
    <3>4. PICK l \in (i + 1)..(k - 1) : /\ events[l].request_id = events[i].request_id
                                        /\ events[l].status \in TerminalStatuses
      BY <1>2, <2>1, <3>1, <3>3 DEF StopSettlesEverything, EndsBetween
    <3>5. l \in 1..Len(events)
      BY <1>1, <2>1, <3>1
    <3>. QED
      BY <1>1, <3>1, <3>4, <3>5 DEF EndsIn
  <2>2. ASSUME NEW c \in 1..Len(b), k = Len(events) + c
        PROVE  EndsIn(events', events'[i].request_id, i + 1, k - 1)
    <3>1. /\ \A j \in 1..Len(b) : b[j].status \notin {"accepted", "running"}
          /\ \A id \in RequestIds :
               StatusOf(id) \in {"accepted", "running"} => EndsIn(b, id, 1, c - 1)
      BY <1>1, <1>2, <2>2 DEF Publishes, StopsLast
    <3>2. i \in 1..Len(events) /\ events'[i] = events[i]
      BY <1>1, <1>2, <3>1
    <3>3. CASE EndsIn(events, events[i].request_id, i + 1, Len(events))
      <4>1. i + 1 \in 1..(Len(events) + 1) /\ k - 1 \in Int /\ k - 1 >= Len(events)
        BY <1>1, <2>2, <3>2
      <4>. QED
        BY <3>2, <3>3, <4>1, EndedBefore
    <3>4. CASE StatusOf(events[i].request_id) \in {"accepted", "running"}
      <4>1. EndsIn(b, events[i].request_id, 1, c - 1)
        BY <3>1, <3>2, <3>4, LogFacts
      <4>2. /\ 1 \in 1..(Len(b) + 1) /\ c - 1 \in 0..Len(b)
            /\ i + 1 \in Int /\ i + 1 <= Len(events) + 1
            /\ k - 1 \in Int /\ k - 1 >= Len(events) + (c - 1)
        BY <1>1, <2>2, <3>2
      <4>. QED
        BY <3>2, <4>1, <4>2, EndedByCall
    <3>. QED
      BY <1>2, <3>2, <3>3, <3>4 DEF AliveOrEnded, Still
  <2>. QED
    BY <1>1, <2>1, <2>2
<1>. QED
  BY <1>2 DEF StopSettlesEverything, EndsBetween, EndsIn

\* Whatever a call publishes in this way keeps the invariant of the log.
LEMMA PublishingKeepsLog ==
  ASSUME TypeOK, ResourceInv, [Next]_vars, TypeOK', LogInv, NEW b, Publishes(b)
  PROVE  LogInv'
<1>1. LogTellsEachStoryOnce' /\ AliveOrEnded' /\ QueueInOrder'
  BY StoryKept, AliveKept, QueueOrderKept DEF LogInv
<1>2. OneMotionInTheLog' /\ FirstInFirstStarted' /\ StopSettlesEverything'
  BY OneMotionKept, FirstInKept, StopsKept DEF LogInv
<1>. QED
  BY <1>1, <1>2 DEF LogInv

\* So does a step that publishes nothing and moves no request.
LEMMA SilenceKeepsLog ==
  ASSUME LogInv, UNCHANGED <<records, running, waiting, events>>
  PROVE  LogInv'
<1>1. LogTellsEachStoryOnce'
  BY DEF LogInv, LogTellsEachStoryOnce, Tells, Says, Silent, NothingYet, AbstractStatus, StatusOf
<1>2. AliveOrEnded' /\ QueueInOrder'
  BY DEF LogInv, AliveOrEnded, QueueInOrder, EndsIn, StatusOf
<1>3. OneMotionInTheLog' /\ FirstInFirstStarted' /\ StopSettlesEverything'
  BY DEF LogInv, OneMotionInTheLog, FirstInFirstStarted, StopSettlesEverything, EndsBetween
<1>. QED
  BY <1>1, <1>2, <1>3 DEF LogInv
-----------------------------------------------------------------------------
(***************************************************************************)
(* Every call publishes in this way.  All but one publish at most one      *)
(* event about each request, the one that brings it where the call leaves  *)
(* it; a motion completed in the call that starts it has two.              *)
(***************************************************************************)

OnePerRequest(b) ==
  /\ \A j, k \in 1..Len(b) : b[j].request_id = b[k].request_id => j = k
  /\ \A k \in 1..Len(b) : /\ NextStatusOf(b[k].request_id) = b[k].status
                          /\ StatusOf(b[k].request_id) # b[k].status
  /\ \A id \in RequestIds : \/ NextStatusOf(id) = StatusOf(id)
                            \/ \E k \in 1..Len(b) : b[k].request_id = id

LEMMA OnePerRequestTells ==
  ASSUME TypeOK, ResourceInv, [Next]_vars, NEW b \in Seq(Events), OnePerRequest(b)
  PROVE  Tells(b, AbstractStatus, AbstractStatus') /\ LeavesAlive(b)
<1>1. \A k \in 1..Len(b) : b[k].request_id \in RequestIds
  <2>1. \A k \in 1..Len(b) : b[k] \in Events
    BY LenProperties
  <2>. QED
    BY <2>1 DEF Events
<1>2. \A id \in RequestIds : /\ AbstractStatus[id] = StatusOf(id)
                             /\ AbstractStatus'[id] = NextStatusOf(id)
  BY NextStatuses DEF AbstractStatus
<1>3. \A id \in RequestIds : StatusOf(id) \in Lifecycle!Statuses
  BY DEF StatusOf, TypeOK, RecordType, ActionStatuses, TerminalStatuses,
         Lifecycle!Statuses, Lifecycle!Terminal
<1>4. ASSUME NEW k \in 1..Len(b)
      PROVE  /\ AbstractStatus[b[k].request_id] \in Lifecycle!Statuses
             /\ b[k].status \in Lifecycle!Successors(AbstractStatus[b[k].request_id])
             /\ AbstractStatus'[b[k].request_id] = b[k].status
  <2>1. Moves(StatusOf(b[k].request_id), NextStatusOf(b[k].request_id))
    BY <1>1, StatusMoves
  <2>. QED
    BY <1>1, <1>2, <1>3, <2>1 DEF OnePerRequest, Moves
<1>5. Tells(b, AbstractStatus, AbstractStatus')
  <2>1. \A id \in RequestIds : AbstractStatus'[id] = AbstractStatus[id]
                                 \/ \E k \in 1..Len(b) : b[k].request_id = id
    BY <1>2 DEF OnePerRequest
  <2>2. \A j, k \in 1..Len(b) : b[j].request_id = b[k].request_id => j = k
    BY DEF OnePerRequest
  <2>. DEFINE before == AbstractStatus
              after == AbstractStatus'
  <2>. HIDE DEF before, after
  <2>3. Tells(b, before, after)
    BY <1>4, <2>1, <2>2, DistinctTells DEF before, after
  <2>. QED
    BY <2>3 DEF before, after
<1>6. LeavesAlive(b)
  BY DEF LeavesAlive, OnePerRequest
<1>. QED
  BY <1>5, <1>6

LEMMA SameQueueKeepsOrder ==
  ASSUME UNCHANGED waiting
  PROVE  QueueKeepsOrder
BY DEF QueueKeepsOrder

\* A call that publishes one event, of any kind but a start.
LEMMA OneEventPublishes ==
  ASSUME TypeOK, ResourceInv, [Next]_vars, NEW id \in RequestIds,
         NEW s \in ActionStatuses \ {"running"},
         events' = Append(events, Event(id, s)),
         NextStatusOf(id) = s, StatusOf(id) # s,
         \A i \in RequestIds \ {id} : NextStatusOf(i) = StatusOf(i),
         s = "accepted" => StatusOf(id) = "new",
         s = "completed" => records'[id].request.capability # "stop",
         QueueKeepsOrder
  PROVE  \E b \in Seq(Events) : Publishes(b)
<1>. DEFINE b == <<Event(id, s)>>
<1>1. /\ b \in Seq(Events) /\ Len(b) = 1
      /\ b[1].request_id = id /\ b[1].status = s
  BY EventType DEF Event
<1>2. events' = events \o b
  BY AppendProperties, LogFacts
<1>. HIDE DEF b
<1>3. OnePerRequest(b)
  BY <1>1 DEF OnePerRequest
<1>4. Tells(b, AbstractStatus, AbstractStatus') /\ LeavesAlive(b)
  BY <1>1, <1>3, OnePerRequestTells
<1>5. AcceptsAlone(b) /\ StartsInTurn(b) /\ StopsLast(b)
  BY <1>1 DEF AcceptsAlone, StartsInTurn, StopsLast
<1>. QED
  BY <1>1, <1>2, <1>4, <1>5 DEF Publishes

\* What a call that registers one request does to the statuses.
LEMMA RegisterStatuses ==
  ASSUME NEW r \in Requests, IsNew(r), NEW rec, Register(r, rec, records)
  PROVE  /\ r.request_id \in RequestIds
         /\ StatusOf(r.request_id) = "new"
         /\ NextStatusOf(r.request_id) = rec.status
         /\ records'[r.request_id] = rec
         /\ \A i \in RequestIds \ {r.request_id} : NextStatusOf(i) = StatusOf(i)
BY DEF Register, IsNew, RequestIds, StatusOf, NextStatusOf

LEMMA ImmediatePublishes ==
  ASSUME TypeOK, ResourceInv, [Next]_vars, NEW r \in Requests, IsNew(r),
         NEW s \in {"rejected", "expired", "completed"}, NEW c, Immediate(r, s, c),
         s = "completed" => r.capability # "stop"
  PROVE  \E b \in Seq(Events) : Publishes(b)
<1>1. /\ NewRecord(r, s, c).status = s
      /\ NewRecord(r, s, c).request = r
  BY DEF NewRecord
<1>2. Register(r, NewRecord(r, s, c), records)
  BY DEF Immediate
<1>3. /\ r.request_id \in RequestIds
      /\ StatusOf(r.request_id) = "new"
      /\ NextStatusOf(r.request_id) = s
      /\ records'[r.request_id].request = r
      /\ \A i \in RequestIds \ {r.request_id} : NextStatusOf(i) = StatusOf(i)
  BY <1>1, <1>2, RegisterStatuses
<1>4. s \in ActionStatuses \ {"running"} /\ s # "accepted" /\ s # "new"
  BY StatusMembers
<1>5. QueueKeepsOrder /\ events' = Append(events, Event(r.request_id, s))
  BY SameQueueKeepsOrder DEF Immediate
<1>. QED
  BY <1>3, <1>4, <1>5, OneEventPublishes

LEMMA EnqueuePublishes ==
  ASSUME TypeOK, ResourceInv, [Next]_vars, NEW r \in Requests, Enqueue(r)
  PROVE  \E b \in Seq(Events) : Publishes(b)
<1>1. IsNew(r) /\ Register(r, NewRecord(r, "accepted", "none"), records)
  BY DEF Enqueue, Admissible
<1>2. NewRecord(r, "accepted", "none").status = "accepted"
  BY DEF NewRecord
<1>3. /\ r.request_id \in RequestIds
      /\ StatusOf(r.request_id) = "new"
      /\ NextStatusOf(r.request_id) = "accepted"
      /\ \A i \in RequestIds \ {r.request_id} : NextStatusOf(i) = StatusOf(i)
  BY <1>1, <1>2, RegisterStatuses
<1>4. QueueKeepsOrder
  <2>1. waiting \in Seq(RequestIds) /\ waiting' = Append(waiting, r.request_id)
    BY DEF TypeOK, Enqueue, QueuedBehind
  <2>2. /\ Len(waiting) \in Nat /\ Len(waiting') = Len(waiting) + 1
        /\ \A k \in 1..Len(waiting) : waiting'[k] = waiting[k]
        /\ waiting'[Len(waiting) + 1] = r.request_id
    BY <1>3, <2>1, AppendProperties, LenProperties
  <2>. QED
    BY <1>3, <2>2 DEF QueueKeepsOrder
<1>5. "accepted" \in ActionStatuses \ {"running"}
  BY StatusMembers
<1>6. events' = Append(events, Event(r.request_id, "accepted"))
  BY DEF Enqueue
<1>. QED
  BY <1>3, <1>4, <1>5, <1>6, OneEventPublishes

LEMMA CancelWaitingPublishes ==
  ASSUME TypeOK, ResourceInv, [Next]_vars, NEW id \in RequestIds, CancelWaiting(id)
  PROVE  \E b \in Seq(Events) : Publishes(b)
<1>1. /\ id \in DOMAIN records /\ records[id].status = "accepted"
      /\ records' = [records EXCEPT ![id] = DroppedRecord(@, "cancelled", "cancelled")]
      /\ events' = Append(events, Event(id, "cancelled"))
  BY DEF CancelWaiting
<1>2. records \in [DOMAIN records -> RecordType]
  BY DEF TypeOK
<1>3. /\ records'[id].status = "cancelled" /\ DOMAIN records' = DOMAIN records
      /\ \A i \in DOMAIN records \ {id} : records'[i] = records[i]
  BY <1>1, <1>2 DEF DroppedRecord, RecordType
<1>4. /\ StatusOf(id) = "accepted" /\ NextStatusOf(id) = "cancelled"
      /\ \A i \in RequestIds \ {id} : NextStatusOf(i) = StatusOf(i)
  BY <1>1, <1>3 DEF StatusOf, NextStatusOf
<1>5. QueueKeepsOrder
  <2>1. PICK n \in 1..Len(waiting) : waiting' = RemoveAt(waiting, n)
    BY DEF CancelWaiting
  <2>2. waiting \in Seq(RequestIds) /\ Len(waiting) \in Nat
    BY LenProperties DEF TypeOK
  <2>3. /\ Len(waiting') = Len(waiting) - 1
        /\ \A k \in 1..Len(waiting') :
             waiting'[k] = IF k < n THEN waiting[k] ELSE waiting[k + 1]
    BY <2>1, <2>2, QueueRemoval
  <2>4. ASSUME NEW p \in 1..Len(waiting'), NEW q \in 1..Len(waiting'), p < q
        PROVE  \E i, j \in 1..Len(waiting) :
                 i < j /\ waiting'[p] = waiting[i] /\ waiting'[q] = waiting[j]
    <3>. DEFINE i == IF p < n THEN p ELSE p + 1
                j == IF q < n THEN q ELSE q + 1
    <3>1. i \in 1..Len(waiting) /\ j \in 1..Len(waiting) /\ i < j
      BY <2>2, <2>3, <2>4
    <3>2. waiting'[p] = waiting[i] /\ waiting'[q] = waiting[j]
      BY <2>3
    <3>. QED
      BY <3>1, <3>2
  <2>. QED
    BY <2>4 DEF QueueKeepsOrder
<1>6. "cancelled" \in ActionStatuses \ {"running"}
  BY StatusMembers
<1>. QED
  BY <1>1, <1>4, <1>5, <1>6, OneEventPublishes

LEMMA StartNowPublishes ==
  ASSUME TypeOK, ResourceInv, [Next]_vars, NEW r \in Requests, StartNow(r)
  PROVE  \E b \in Seq(Events) : Publishes(b)
<1>. DEFINE id == r.request_id
            b == StartEvents(id)
<1>1. IsNew(r) /\ Register(r, StartedRecord(r), records)
  BY DEF StartNow, Admissible
<1>2. /\ StartedRecord(r).status = IF AutoComplete THEN "completed" ELSE "running"
      /\ StartedRecord(r).request = r
  BY DEF StartedRecord, NewRecord
<1>3. /\ id \in RequestIds /\ StatusOf(id) = "new"
      /\ NextStatusOf(id) = IF AutoComplete THEN "completed" ELSE "running"
      /\ records'[id].request = r
      /\ \A i \in RequestIds \ {id} : NextStatusOf(i) = StatusOf(i)
  BY <1>1, <1>2, RegisterStatuses
<1>4. /\ b \in Seq(Events) /\ events' = events \o b
  BY <1>3, StartEventsType DEF StartNow
<1>5. /\ running = None /\ waiting = <<>> /\ waiting' = waiting
      /\ r.capability # "stop"
  BY DEF StartNow, IsMotion, MotionCapabilities
<1>6. CASE AutoComplete
  <2>1. /\ Len(b) = 2
        /\ b[1].request_id = id /\ b[1].status = "running"
        /\ b[2].request_id = id /\ b[2].status = "completed"
    BY <1>6 DEF StartEvents, Event
  <2>. HIDE DEF b, id
  <2>2. Tells(b, AbstractStatus, AbstractStatus')
    <3>1. \A i \in RequestIds : /\ AbstractStatus[i] = StatusOf(i)
                                /\ AbstractStatus'[i] = NextStatusOf(i)
      BY NextStatuses DEF AbstractStatus
    <3>2. /\ Says(b, AbstractStatus, id, 0, "new")
          /\ Says(b, AbstractStatus, id, 1, "running")
      BY <1>3, <2>1, <3>1 DEF Says, Silent
    <3>3. /\ "new" \in Lifecycle!Statuses /\ "running" \in Lifecycle!Successors("new")
          /\ "running" \in Lifecycle!Statuses
          /\ "completed" \in Lifecycle!Successors("running")
      BY DEF Lifecycle!Statuses, Lifecycle!Successors, Lifecycle!Terminal
    <3>4. ASSUME NEW k \in 1..Len(b)
          PROVE  \E s \in Lifecycle!Statuses :
                   /\ Says(b, AbstractStatus, b[k].request_id, k - 1, s)
                   /\ b[k].status \in Lifecycle!Successors(s)
      <4>1. k = 1 \/ k = 2
        BY <2>1
      <4>2. CASE k = 1
        BY <2>1, <3>2, <3>3, <4>2
      <4>3. CASE k = 2
        BY <2>1, <3>2, <3>3, <4>3
      <4>. QED
        BY <4>1, <4>2, <4>3
    <3>5. ASSUME NEW i \in RequestIds
          PROVE  Says(b, AbstractStatus, i, Len(b), AbstractStatus'[i])
      <4>1. CASE i = id
        <5>1. AbstractStatus'[i] = "completed"
          BY <1>3, <1>6, <3>1, <4>1
        <5>2. Silent(b, id, 2 + 1, 2)
          BY DEF Silent
        <5>. QED
          BY <2>1, <4>1, <5>1, <5>2 DEF Says
      <4>2. CASE i # id
        <5>1. AbstractStatus'[i] = AbstractStatus[i]
          BY <1>3, <3>1, <4>2
        <5>2. Silent(b, i, 1, 2)
          BY <2>1, <4>2 DEF Silent
        <5>. QED
          BY <2>1, <5>1, <5>2 DEF Says
      <4>. QED
        BY <4>1, <4>2
    <3>. QED
      BY <3>4, <3>5 DEF Tells
  <2>3. LeavesAlive(b)
    <3>1. EndsIn(b, id, 2, 2)
      BY <2>1 DEF EndsIn, TerminalStatuses
    <3>. QED
      BY <2>1, <3>1 DEF LeavesAlive
  <2>4. AcceptsAlone(b) /\ StopsLast(b)
    BY <1>3, <1>5, <2>1 DEF AcceptsAlone, StopsLast
  <2>5. StartsInTurn(b)
    <3>1. Len(waiting) = 0
      BY <1>5
    <3>. QED
      BY <1>5, <2>1, <3>1 DEF StartsInTurn
  <2>. QED
    BY <1>4, <1>5, <2>2, <2>3, <2>4, <2>5, SameQueueKeepsOrder DEF Publishes
<1>7. CASE ~AutoComplete
  <2>1. /\ Len(b) = 1
        /\ b[1].request_id = id /\ b[1].status = "running"
    BY <1>7 DEF StartEvents, Event
  <2>. HIDE DEF b, id
  <2>2. OnePerRequest(b)
    BY <1>3, <1>7, <2>1 DEF OnePerRequest
  <2>3. Tells(b, AbstractStatus, AbstractStatus') /\ LeavesAlive(b)
    BY <1>4, <2>2, OnePerRequestTells
  <2>4. AcceptsAlone(b) /\ StopsLast(b)
    BY <2>1 DEF AcceptsAlone, StopsLast
  <2>5. StartsInTurn(b)
    <3>1. Len(waiting) = 0
      BY <1>5
    <3>. QED
      BY <1>5, <2>1, <3>1 DEF StartsInTurn
  <2>. QED
    BY <1>4, <1>5, <2>3, <2>4, <2>5, SameQueueKeepsOrder DEF Publishes
<1>. QED
  BY <1>6, <1>7

\* What _finish and _promote_next publish, event by event.
TellsTheFinish(b, id, s, n) ==
  /\ b \in Seq(Events)
  /\ Len(b) = IF n <= Len(waiting) THEN n + 1 ELSE n
  /\ b[1].request_id = id /\ b[1].status = s
  /\ \A k \in 2..Len(b) : /\ b[k].request_id = waiting[k - 1]
                          /\ b[k].status = IF k <= n THEN "expired" ELSE "running"

LEMMA FinishEventsShape ==
  ASSUME TypeOK, ~AutoComplete, NEW id \in RequestIds, NEW s \in ActionStatuses,
         NEW n \in 1..(Len(waiting) + 1)
  PROVE  TellsTheFinish(FinishEvents(id, s, n), id, s, n)
<1>. DEFINE a == <<Event(id, s)>>
            q == [k \in 1..(n - 1) |-> Event(waiting[k], "expired")]
            c == IF n <= Len(waiting) THEN StartEvents(waiting[n]) ELSE <<>>
            b == FinishEvents(id, s, n)
<1>1. waiting \in Seq(RequestIds) /\ Len(waiting) \in Nat
  BY LenProperties DEF TypeOK
<1>2. a \in Seq(Events) /\ Len(a) = 1 /\ a[1] = Event(id, s)
  BY EventType
<1>3. /\ q \in Seq(Events) /\ Len(q) = n - 1
      /\ \A k \in 1..(n - 1) : q[k] = Event(waiting[k], "expired")
  <2>1. n - 1 \in 0..Len(waiting)
    BY <1>1
  <2>2. q \in Seq(Events)
    BY <2>1, QueueEvents, StatusMembers
  <2>3. DOMAIN q = 1..(n - 1) /\ n - 1 \in Nat
    BY <2>1
  <2>. QED
    BY <2>2, <2>3, LenProperties
<1>4. /\ c \in Seq(Events) /\ Len(c) = IF n <= Len(waiting) THEN 1 ELSE 0
      /\ n <= Len(waiting) => c[1] = Event(waiting[n], "running")
  <2>1. CASE n <= Len(waiting)
    <3>1. waiting[n] \in RequestIds
      BY <1>1, <2>1, LenProperties
    <3>2. c = <<Event(waiting[n], "running")>>
      BY <2>1 DEF StartEvents
    <3>. QED
      BY <2>1, <3>1, <3>2, StartEventsType
  <2>2. CASE ~(n <= Len(waiting))
    BY <2>2, EmptySeq
  <2>. QED
    BY <2>1, <2>2
<1>5. b = (a \o q) \o c
  BY DEF FinishEvents
<1>. HIDE DEF a, q, c, b
<1>6. /\ a \o q \in Seq(Events) /\ Len(a \o q) = n
      /\ (a \o q)[1] = Event(id, s)
      /\ \A k \in 1..(n - 1) : (a \o q)[1 + k] = Event(waiting[k], "expired")
  <2>1. /\ a \o q \in Seq(Events) /\ Len(a \o q) = Len(a) + Len(q)
        /\ \A k \in 1..Len(a) : (a \o q)[k] = a[k]
        /\ \A k \in 1..Len(q) : (a \o q)[Len(a) + k] = q[k]
    BY <1>2, <1>3, LogConcat
  <2>. QED
    BY <1>2, <1>3, <2>1
<1>7. /\ b \in Seq(Events) /\ Len(b) = n + Len(c)
      /\ \A k \in 1..n : b[k] = (a \o q)[k]
      /\ \A k \in 1..Len(c) : b[n + k] = c[k]
  BY <1>4, <1>5, <1>6, LogConcat
<1>8. Len(b) = IF n <= Len(waiting) THEN n + 1 ELSE n
  BY <1>1, <1>4, <1>7
<1>9. b[1].request_id = id /\ b[1].status = s
  BY <1>6, <1>7 DEF Event
<1>10. ASSUME NEW k \in 2..Len(b)
       PROVE  /\ b[k].request_id = waiting[k - 1]
              /\ b[k].status = IF k <= n THEN "expired" ELSE "running"
  <2>1. CASE k <= n
    <3>1. k - 1 \in 1..(n - 1) /\ 1 + (k - 1) = k /\ k \in 1..n
      BY <2>1
    <3>2. b[k] = Event(waiting[k - 1], "expired")
      BY <1>6, <1>7, <3>1
    <3>. QED
      BY <2>1, <3>2 DEF Event
  <2>2. CASE ~(k <= n)
    <3>1. n <= Len(waiting) /\ k = n + 1 /\ k - 1 = n /\ Len(c) = 1
      BY <1>1, <1>4, <1>8, <2>2
    <3>2. b[k] = Event(waiting[k - 1], "running")
      BY <1>4, <1>7, <3>1
    <3>. QED
      BY <2>2, <3>2 DEF Event
  <2>. QED
    BY <2>1, <2>2
<1>11. TellsTheFinish(b, id, s, n)
  BY <1>7, <1>8, <1>9, <1>10 DEF TellsTheFinish
<1>. QED
  BY <1>11 DEF b

LEMMA FinishPublishes ==
  ASSUME TypeOK, ResourceInv, [Next]_vars, NEW id \in RequestIds, IsRunning(id),
         NEW s \in {"completed", "failed", "cancelled"}, NEW c, Finish(id, s, c)
  PROVE  \E b \in Seq(Events) : Publishes(b)
<1>1. id \in DOMAIN records /\ records[id].status = "running" /\ id = running /\ id # None
  <2>1. id \in WithStatus("running")
    BY DEF IsRunning, WithStatus
  <2>. QED
    BY <2>1 DEF ResourceInv, MotionResource, RunningIsTheSlot, WithStatus
<1>2. ~AutoComplete
  BY <1>1 DEF ResourceInv, AutoCompleteIdle
<1>3. waiting \in Seq(RequestIds) /\ Len(waiting) \in Nat
  BY LenProperties DEF TypeOK
<1>4. PICK n \in 1..(Len(waiting) + 1) :
        /\ records' = [i \in DOMAIN records |->
             IF i = id THEN FinishedRecord(records[i], s, c)
             ELSE IF \E k \in 1..(n - 1) : waiting[k] = i
               THEN DroppedRecord(records[i], "expired", "stale")
             ELSE IF n <= Len(waiting) /\ waiting[n] = i
               THEN StartedRecord(records[i].request)
             ELSE records[i]]
        /\ events' = events \o FinishEvents(id, s, n)
        /\ waiting' = SubSeq(waiting, n + 1, Len(waiting))
  BY DEF Finish
<1>. DEFINE b == FinishEvents(id, s, n)
<1>5. /\ b \in Seq(Events)
      /\ Len(b) = IF n <= Len(waiting) THEN n + 1 ELSE n
      /\ b[1].request_id = id /\ b[1].status = s
      /\ \A k \in 2..Len(b) : /\ b[k].request_id = waiting[k - 1]
                              /\ b[k].status = IF k <= n THEN "expired" ELSE "running"
  <2>1. s \in ActionStatuses
    BY StatusMembers
  <2>2. TellsTheFinish(FinishEvents(id, s, n), id, s, n)
    BY <1>2, <2>1, FinishEventsShape
  <2>. HIDE DEF b
  <2>3. TellsTheFinish(b, id, s, n)
    BY <2>2 DEF b
  <2>. QED
    BY <2>3 DEF TellsTheFinish
<1>6. events' = events \o b
  BY <1>4
<1>. HIDE DEF b
<1>7. \A k \in 2..Len(b) : k - 1 \in 1..Len(waiting)
  BY <1>3, <1>5
<1>8. \A k \in 1..Len(waiting) : /\ waiting[k] \in DOMAIN records
                                 /\ records[waiting[k]].status = "accepted"
                                 /\ waiting[k] # id
  BY <1>1 DEF ResourceInv, MotionResource, QueueIsTheAccepted, Waits
<1>9. NoDuplicateWaits
  BY DEF ResourceInv, MotionResource
<1>10. \A i \in DOMAIN records : records[i] \in RecordType
  BY DEF TypeOK
<1>11. OnePerRequest(b)
  <2>1. ASSUME NEW j \in 1..Len(b), NEW k \in 1..Len(b), b[j].request_id = b[k].request_id
        PROVE  j = k
    <3>1. CASE j = 1 \/ k = 1
      <4>1. \A l \in 1..Len(b) : l # 1 => b[l].request_id # id
        BY <1>5, <1>7, <1>8
      <4>. QED
        BY <1>5, <2>1, <3>1, <4>1
    <3>2. CASE j # 1 /\ k # 1
      <4>1. j \in 2..Len(b) /\ k \in 2..Len(b)
        BY <3>2
      <4>2. waiting[j - 1] = waiting[k - 1]
        BY <1>5, <2>1, <4>1
      <4>3. j - 1 = k - 1
        BY <1>7, <1>9, <4>1, <4>2 DEF NoDuplicateWaits
      <4>. QED
        BY <4>1, <4>3
    <3>. QED
      BY <3>1, <3>2
  <2>2. ASSUME NEW k \in 1..Len(b)
        PROVE  /\ NextStatusOf(b[k].request_id) = b[k].status
               /\ StatusOf(b[k].request_id) # b[k].status
    <3>1. CASE k = 1
      <4>1. records'[id].status = s /\ id \in DOMAIN records'
        BY <1>1, <1>4, <1>10 DEF FinishedRecord, RecordType
      <4>. QED
        BY <1>1, <1>5, <3>1, <4>1 DEF NextStatusOf, StatusOf
    <3>2. CASE k # 1
      <4>. DEFINE i == waiting[k - 1]
      <4>1. k \in 2..Len(b) /\ k - 1 \in 1..Len(waiting)
        BY <1>7, <3>2
      <4>2. i \in DOMAIN records /\ records[i].status = "accepted" /\ i # id
        BY <1>8, <4>1
      <4>3. i \in DOMAIN records'
        BY <1>4, <4>2
      <4>4. CASE k <= n
        <5>1. k - 1 \in 1..(n - 1)
          BY <4>1, <4>4
        <5>2. records'[i] = DroppedRecord(records[i], "expired", "stale")
          BY <1>4, <4>2, <5>1
        <5>3. records'[i].status = "expired"
          BY <1>10, <4>2, <5>2 DEF DroppedRecord, RecordType
        <5>. QED
          BY <1>5, <4>1, <4>2, <4>3, <4>4, <5>3 DEF NextStatusOf, StatusOf
      <4>5. CASE ~(k <= n)
        <5>1. k - 1 = n /\ n <= Len(waiting)
          BY <1>3, <1>5, <4>1, <4>5
        <5>2. ~\E l \in 1..(n - 1) : waiting[l] = i
          BY <1>9, <4>1, <5>1 DEF NoDuplicateWaits
        <5>3. records'[i] = StartedRecord(records[i].request)
          BY <1>4, <4>2, <5>1, <5>2
        <5>4. records'[i].status = "running"
          BY <1>2, <5>3 DEF StartedRecord, NewRecord
        <5>. QED
          BY <1>5, <4>1, <4>2, <4>3, <4>5, <5>4 DEF NextStatusOf, StatusOf
      <4>. QED
        BY <4>4, <4>5
    <3>. QED
      BY <3>1, <3>2
  <2>3. ASSUME NEW i \in RequestIds, ~\E k \in 1..Len(b) : b[k].request_id = i
        PROVE  NextStatusOf(i) = StatusOf(i)
    <3>1. i # id
      BY <1>5, <2>3
    <3>2. \A k \in 1..Len(waiting) : k + 1 \in 2..Len(b) => waiting[k] # i
      <4>1. ASSUME NEW k \in 1..Len(waiting), k + 1 \in 2..Len(b) PROVE waiting[k] # i
        <5>1. b[k + 1].request_id = waiting[k]
          <6>1. (k + 1) - 1 = k
            OBVIOUS
          <6>. QED
            BY <1>5, <4>1, <6>1
        <5>2. k + 1 \in 1..Len(b)
          BY <4>1
        <5>. QED
          BY <2>3, <5>1, <5>2
      <4>. QED
        BY <4>1
    <3>3. \A k \in 1..(n - 1) : waiting[k] # i
      <4>1. \A k \in 1..(n - 1) : k \in 1..Len(waiting) /\ k + 1 \in 2..Len(b)
        BY <1>3, <1>5
      <4>. QED
        BY <3>2, <4>1
    <3>4. n <= Len(waiting) => waiting[n] # i
      BY <1>3, <1>5, <3>2
    <3>5. \A j \in DOMAIN records : j = i => records'[j] = records[j]
      BY <1>4, <3>1, <3>3, <3>4
    <3>6. DOMAIN records' = DOMAIN records
      BY <1>4
    <3>. QED
      BY <3>5, <3>6 DEF NextStatusOf, StatusOf
  <2>. QED
    BY <2>1, <2>2, <2>3 DEF OnePerRequest
<1>12. Tells(b, AbstractStatus, AbstractStatus') /\ LeavesAlive(b)
  BY <1>5, <1>11, OnePerRequestTells
<1>13. AcceptsAlone(b)
  <2>1. \A k \in 1..Len(b) : b[k].status # "accepted"
    BY <1>5
  <2>. QED
    BY <2>1 DEF AcceptsAlone
<1>14. StartsInTurn(b)
  <2>1. ASSUME NEW k \in 1..Len(b), b[k].status = "running"
        PROVE  k = n + 1 /\ n <= Len(waiting) /\ b[k].request_id = waiting[n]
    BY <1>3, <1>5, <2>1
  <2>2. ASSUME NEW k \in 1..Len(b), b[k].status = "running"
        PROVE  EndsIn(b, running, 1, k - 1)
    <3>1. 1 \in 1..(k - 1)
      BY <2>1, <2>2
    <3>. QED
      BY <1>1, <1>5, <3>1 DEF EndsIn, TerminalStatuses
  <2>3. ASSUME NEW k \in 1..Len(b), b[k].status = "running", NEW p \in 1..Len(waiting)
        PROVE  \/ \E q \in 1..p : b[k].request_id = waiting[q]
               \/ \E l \in 1..(k - 1) : b[l].request_id = waiting[p]
    <3>1. CASE n <= p
      <4>1. n \in 1..p
        BY <3>1
      <4>. QED
        BY <2>1, <2>3, <4>1
    <3>2. CASE ~(n <= p)
      <4>1. p + 1 \in 1..(k - 1) /\ p + 1 \in 2..Len(b) /\ (p + 1) - 1 = p
        BY <1>3, <1>5, <2>1, <2>3, <3>2
      <4>2. b[p + 1].request_id = waiting[p]
        BY <1>5, <4>1
      <4>. QED
        BY <4>1, <4>2
    <3>. QED
      BY <3>1, <3>2
  <2>4. ASSUME NEW k \in 1..Len(b), b[k].status = "running",
               NEW j \in 1..Len(b), b[j].status = "running"
        PROVE  j = k
    BY <2>1, <2>4
  <2>. QED
    BY <2>2, <2>3, <2>4 DEF StartsInTurn
<1>15. StopsLast(b)
  <2>1. ASSUME NEW k \in 1..Len(b), b[k].status = "completed" PROVE b[k].request_id = id
    <3>1. k \notin 2..Len(b)
      BY <1>5, <2>1
    <3>2. k = 1
      BY <1>3, <1>5, <3>1
    <3>. QED
      BY <1>5, <3>2
  <2>2. records'[id].request.capability # "stop"
    <3>1. records'[id].request = records[id].request
      BY <1>1, StepKeeps DEF Kept
    <3>2. IsMotion(records[id].request)
      BY <1>1 DEF ResourceInv, MotionResource, OnlyMotionsAlive
    <3>. QED
      BY <3>1, <3>2 DEF IsMotion, MotionCapabilities
  <2>. QED
    BY <2>1, <2>2 DEF StopsLast
<1>16. QueueKeepsOrder
  <2>1. /\ Len(waiting') = IF n <= Len(waiting) THEN Len(waiting) - n ELSE 0
        /\ \A k \in 1..Len(waiting') : waiting'[k] = waiting[n + k]
    BY <1>3, <1>4, QueueTail
  <2>2. \A k \in 1..Len(waiting') : n + k \in 1..Len(waiting)
    BY <1>3, <2>1
  <2>3. ASSUME NEW p \in 1..Len(waiting'), NEW q \in 1..Len(waiting'), p < q
        PROVE  \E i, j \in 1..Len(waiting) :
                 i < j /\ waiting'[p] = waiting[i] /\ waiting'[q] = waiting[j]
    <3>1. n + p < n + q
      BY <2>3
    <3>. QED
      BY <2>1, <2>2, <3>1
  <2>. QED
    BY <2>3 DEF QueueKeepsOrder
<1>. QED
  BY <1>5, <1>6, <1>12, <1>13, <1>14, <1>15, <1>16 DEF Publishes

\* What _preempt publishes, event by event: the slot first, then the queue.
SlotSize == IF running = None THEN 0 ELSE 1

LEMMA PreemptEventsShape ==
  ASSUME TypeOK
  PROVE  LET b == PreemptEvents
         IN  /\ b \in Seq(Events)
             /\ Len(b) = SlotSize + Len(waiting)
             /\ running # None => b[1].request_id = running /\ b[1].status = "cancelled"
             /\ \A k \in 1..Len(waiting) : /\ b[SlotSize + k].request_id = waiting[k]
                                           /\ b[SlotSize + k].status = "cancelled"
<1>. DEFINE a == IF running = None THEN <<>> ELSE <<Event(running, "cancelled")>>
            q == [k \in 1..Len(waiting) |-> Event(waiting[k], "cancelled")]
            b == PreemptEvents
<1>1. Len(waiting) \in Nat
  BY LenProperties DEF TypeOK
<1>2. /\ a \in Seq(Events) /\ Len(a) = SlotSize
      /\ running # None => a[1] = Event(running, "cancelled")
  BY EventType, StatusMembers, EmptySeq DEF SlotSize, TypeOK
<1>3. /\ q \in Seq(Events) /\ Len(q) = Len(waiting)
      /\ \A k \in 1..Len(waiting) : q[k] = Event(waiting[k], "cancelled")
  <2>1. Len(waiting) \in 0..Len(waiting)
    BY <1>1
  <2>2. q \in Seq(Events)
    BY <2>1, QueueEvents, StatusMembers
  <2>3. DOMAIN q = 1..Len(waiting)
    OBVIOUS
  <2>. QED
    BY <1>1, <2>2, <2>3, LenProperties
<1>4. b = a \o q
  BY DEF PreemptEvents
<1>. HIDE DEF a, q, b
<1>5. /\ b \in Seq(Events) /\ Len(b) = Len(a) + Len(q)
      /\ \A k \in 1..Len(a) : b[k] = a[k]
      /\ \A k \in 1..Len(q) : b[Len(a) + k] = q[k]
  BY <1>2, <1>3, <1>4, LogConcat
<1>6. running # None => b[1] = Event(running, "cancelled")
  BY <1>2, <1>5 DEF SlotSize
<1>7. \A k \in 1..Len(waiting) : b[SlotSize + k] = Event(waiting[k], "cancelled")
  BY <1>2, <1>3, <1>5
<1>8. /\ b \in Seq(Events)
      /\ Len(b) = SlotSize + Len(waiting)
      /\ running # None => b[1].request_id = running /\ b[1].status = "cancelled"
      /\ \A k \in 1..Len(waiting) : /\ b[SlotSize + k].request_id = waiting[k]
                                    /\ b[SlotSize + k].status = "cancelled"
  <2>1. running # None => b[1].request_id = running /\ b[1].status = "cancelled"
    BY <1>6 DEF Event
  <2>2. \A k \in 1..Len(waiting) : /\ b[SlotSize + k].request_id = waiting[k]
                                   /\ b[SlotSize + k].status = "cancelled"
    <3>1. ASSUME NEW k \in 1..Len(waiting)
          PROVE  /\ b[SlotSize + k].request_id = waiting[k]
                 /\ b[SlotSize + k].status = "cancelled"
      <4>1. b[SlotSize + k] = Event(waiting[k], "cancelled")
        BY <1>7
      <4>. QED
        BY <4>1 DEF Event
    <3>. QED
      BY <3>1
  <2>. QED
    BY <1>2, <1>3, <1>5, <2>1, <2>2
<1>. QED
  BY <1>8 DEF b

LEMMA StopPublishes ==
  ASSUME TypeOK, ResourceInv, [Next]_vars, NEW r \in Requests, Stop(r)
  PROVE  \E b \in Seq(Events) : Publishes(b)
<1>. DEFINE id == r.request_id
            a == PreemptEvents
            e == <<Event(id, "completed")>>
            b == a \o e
            h == SlotSize
            m == Len(waiting)
<1>1. m \in Nat /\ waiting \in Seq(RequestIds) /\ h \in {0, 1}
  BY LenProperties DEF TypeOK, SlotSize
<1>2. /\ a \in Seq(Events) /\ Len(a) = h + m
      /\ running # None => a[1].request_id = running /\ a[1].status = "cancelled"
      /\ \A k \in 1..m : a[h + k].request_id = waiting[k] /\ a[h + k].status = "cancelled"
  BY PreemptEventsShape
<1>3. id \in RequestIds
  BY DEF RequestIds
<1>4. /\ e \in Seq(Events) /\ Len(e) = 1
      /\ e[1].request_id = id /\ e[1].status = "completed"
  BY <1>3, EventType, StatusMembers DEF Event
<1>5. events' = events \o b
  <2>1. events' = (events \o a) \o e
    BY DEF Stop
  <2>. HIDE DEF a, e
  <2>2. (events \o a) \o e = events \o (a \o e)
    BY <1>2, <1>4, LogFacts, ConcatAssociative, SMTT(30)
  <2>. QED
    BY <2>1, <2>2, Zenon
<1>6. /\ IsNew(r) /\ id \notin DOMAIN records
      /\ records' = [i \in DOMAIN records \cup {id} |->
           IF i = id THEN NewRecord(r, "completed", "none") ELSE Preempted(i)]
      /\ waiting' = <<>>
  BY DEF Stop, Admissible, IsNew, Register
<1>. HIDE DEF id, a, e
<1>7. /\ b \in Seq(Events) /\ Len(b) = h + m + 1
      /\ running # None => b[1].request_id = running /\ b[1].status = "cancelled"
      /\ \A k \in 1..m : b[h + k].request_id = waiting[k] /\ b[h + k].status = "cancelled"
      /\ b[h + m + 1].request_id = id /\ b[h + m + 1].status = "completed"
  <2>1. /\ b \in Seq(Events) /\ Len(b) = Len(a) + Len(e)
        /\ \A k \in 1..Len(a) : b[k] = a[k]
        /\ \A k \in 1..Len(e) : b[Len(a) + k] = e[k]
    BY <1>2, <1>4, LogConcat
  <2>2. running # None => 1 \in 1..Len(a)
    BY <1>1, <1>2 DEF SlotSize
  <2>3. \A k \in 1..m : h + k \in 1..Len(a)
    BY <1>1, <1>2
  <2>. QED
    BY <1>1, <1>2, <1>4, <2>1, <2>2, <2>3
<1>8. \A k \in 1..Len(b) : \/ k = 1 /\ h = 1 /\ running # None
                           \/ \E j \in 1..m : k = h + j
                           \/ k = h + m + 1
  <2>1. ASSUME NEW k \in 1..Len(b), k # h + m + 1, ~(k = 1 /\ h = 1)
        PROVE  k - h \in 1..m /\ k = h + (k - h)
    <3>. HIDE DEF b, h, m
    <3>1. k \in 1..(h + m + 1)
      BY <1>7
    <3>2. k > h
      BY <1>1, <2>1, <3>1
    <3>. QED
      BY <1>1, <2>1, <3>1, <3>2
  <2>2. h = 1 => running # None
    BY DEF SlotSize
  <2>. QED
    BY <2>1, <2>2
<1>9. \A k \in 1..m : /\ waiting[k] \in DOMAIN records
                      /\ records[waiting[k]].status = "accepted"
  BY DEF ResourceInv, MotionResource, QueueIsTheAccepted, Waits
<1>10. running # None => /\ running \in DOMAIN records
                         /\ records[running].status = "running"
  BY DEF ResourceInv, MotionResource, RunningIsTheSlot, WithStatus
<1>11. NoDuplicateWaits
  BY DEF ResourceInv, MotionResource
<1>12. \A i \in DOMAIN records :
         /\ records'[i] = Preempted(i) /\ i \in DOMAIN records' /\ i # id
         /\ records[i] \in RecordType
  BY <1>6 DEF TypeOK
<1>13. /\ records'[id] = NewRecord(r, "completed", "none") /\ id \in DOMAIN records'
       /\ \A i \in DOMAIN records' : i \in DOMAIN records \/ i = id
  BY <1>6
<1>14. running # None => records'[running].status = "cancelled"
  BY <1>10, <1>12 DEF Preempted, FinishedRecord, RecordType
<1>15. \A k \in 1..m : records'[waiting[k]].status = "cancelled"
  <2>1. ASSUME NEW k \in 1..m PROVE records'[waiting[k]].status = "cancelled"
    <3>1. waiting[k] # running
      <4>1. waiting[k] \in RequestIds
        BY <1>1, LenProperties
      <4>. QED
        BY <1>9, <1>10, <4>1, RequestsAssumption
    <3>2. Preempted(waiting[k]) = DroppedRecord(records[waiting[k]], "cancelled", "cancelled")
      BY <3>1 DEF Preempted
    <3>. QED
      BY <1>9, <1>12, <3>2 DEF DroppedRecord, RecordType
  <2>. QED
    BY <2>1
<1>. HIDE DEF b, h, m
<1>16. OnePerRequest(b)
  <2>1. ASSUME NEW j \in 1..Len(b), NEW k \in 1..Len(b), b[j].request_id = b[k].request_id
        PROVE  j = k
    <3>1. ASSUME NEW x \in 1..m, NEW y \in 1..m, waiting[x] = waiting[y] PROVE x = y
      BY <1>11, <3>1 DEF NoDuplicateWaits, m
    <3>2. \A x \in 1..m : waiting[x] # id /\ (running # None => waiting[x] # running)
      BY <1>6, <1>9, <1>10
    <3>3. running # None => running # id
      BY <1>6, <1>10
    <3>4. CASE j = 1 /\ h = 1 /\ running # None
      BY <1>7, <1>8, <2>1, <3>2, <3>3, <3>4
    <3>5. ASSUME NEW x \in 1..m, j = h + x PROVE j = k
      <4>1. b[j].request_id = waiting[x] /\ waiting[x] # id
            /\ (running # None => waiting[x] # running)
        BY <1>7, <3>2, <3>5
      <4>2. ASSUME NEW y \in 1..m, k = h + y PROVE j = k
        BY <1>7, <2>1, <3>1, <3>5, <4>1, <4>2
      <4>. QED
        BY <1>7, <1>8, <2>1, <4>1, <4>2
    <3>6. CASE j = h + m + 1
      BY <1>7, <1>8, <2>1, <3>2, <3>3, <3>6
    <3>. QED
      BY <1>8, <3>4, <3>5, <3>6
  <2>2. ASSUME NEW k \in 1..Len(b)
        PROVE  /\ NextStatusOf(b[k].request_id) = b[k].status
               /\ StatusOf(b[k].request_id) # b[k].status
    <3>1. CASE k = 1 /\ h = 1 /\ running # None
      BY <1>7, <1>10, <1>12, <1>14, <3>1 DEF NextStatusOf, StatusOf
    <3>2. ASSUME NEW j \in 1..m, k = h + j
          PROVE  /\ NextStatusOf(b[k].request_id) = b[k].status
                 /\ StatusOf(b[k].request_id) # b[k].status
      BY <1>7, <1>9, <1>12, <1>15, <3>2 DEF NextStatusOf, StatusOf
    <3>3. CASE k = h + m + 1
      BY <1>6, <1>7, <1>13, <3>3 DEF NextStatusOf, StatusOf, NewRecord
    <3>. QED
      BY <1>8, <3>1, <3>2, <3>3
  <2>3. ASSUME NEW i \in RequestIds, ~\E k \in 1..Len(b) : b[k].request_id = i
        PROVE  NextStatusOf(i) = StatusOf(i)
    <3>1. i # id
      <4>1. h + m + 1 \in 1..Len(b)
        BY <1>1, <1>7 DEF h, m
      <4>. QED
        BY <1>7, <2>3, <4>1
    <3>2. i # running
      <4>1. running # None => 1 \in 1..Len(b)
        BY <1>1, <1>7 DEF h, m
      <4>. QED
        BY <1>7, <2>3, <4>1, RequestsAssumption
    <3>3. \A k \in 1..m : waiting[k] # i
      <4>1. \A k \in 1..m : h + k \in 1..Len(b)
        BY <1>1, <1>7 DEF h, m
      <4>. QED
        BY <1>7, <2>3, <4>1
    <3>4. Preempted(i) = records[i]
      BY <3>2, <3>3 DEF Preempted, m
    <3>. QED
      BY <1>12, <1>13, <3>1, <3>4 DEF NextStatusOf, StatusOf
  <2>. QED
    BY <2>1, <2>2, <2>3 DEF OnePerRequest
<1>17. Tells(b, AbstractStatus, AbstractStatus') /\ LeavesAlive(b)
  BY <1>7, <1>16, OnePerRequestTells
<1>18. \A k \in 1..Len(b) : b[k].status \in {"cancelled", "completed"}
  BY <1>7, <1>8
<1>19. AcceptsAlone(b) /\ StartsInTurn(b)
  BY <1>18 DEF AcceptsAlone, StartsInTurn
<1>20. StopsLast(b)
  <2>1. ASSUME NEW k \in 1..Len(b), b[k].status = "completed" PROVE k = h + m + 1
    BY <1>7, <1>8, <2>1
  <2>2. ASSUME NEW i \in RequestIds, StatusOf(i) \in {"accepted", "running"}
        PROVE  EndsIn(b, i, 1, h + m)
    <3>1. i \in DOMAIN records /\ records[i].status = StatusOf(i)
      BY <2>2 DEF StatusOf
    <3>2. CASE StatusOf(i) = "running"
      <4>1. i = running /\ running # None
        BY <3>1, <3>2 DEF ResourceInv, MotionResource, RunningIsTheSlot, WithStatus
      <4>2. 1 \in 1..(h + m)
        BY <1>1, <4>1 DEF h, m, SlotSize
      <4>. QED
        BY <1>7, <4>1, <4>2 DEF EndsIn, TerminalStatuses
    <3>3. CASE StatusOf(i) = "accepted"
      <4>1. PICK k \in 1..m : waiting[k] = i
        BY <3>1, <3>3 DEF ResourceInv, MotionResource, QueueIsTheAccepted, Waits, m
      <4>2. h + k \in 1..(h + m)
        BY <1>1 DEF h, m
      <4>. QED
        BY <1>7, <4>1, <4>2 DEF EndsIn, TerminalStatuses
    <3>. QED
      BY <2>2, <3>2, <3>3
  <2>. QED
    <3>1. ASSUME NEW k \in 1..Len(b), b[k].status = "completed",
                 NEW i \in RequestIds, StatusOf(i) \in {"accepted", "running"}
          PROVE  EndsIn(b, i, 1, k - 1)
      <4>1. k - 1 = h + m
        BY <1>1, <2>1, <3>1 DEF h, m
      <4>2. EndsIn(b, i, 1, h + m)
        BY <2>2, <3>1
      <4>. QED
        BY <4>1, <4>2
    <3>. QED
      BY <1>18, <3>1 DEF StopsLast
<1>21. QueueKeepsOrder
  <2>1. Len(waiting') = 0
    BY <1>6
  <2>. QED
    BY <2>1 DEF QueueKeepsOrder
<1>. QED
  BY <1>5, <1>7, <1>17, <1>19, <1>20, <1>21 DEF Publishes
-----------------------------------------------------------------------------
(* The theorems *)

LEMMA InitLog == Init => LogInv
<1>. SUFFICES ASSUME Init PROVE LogInv
  OBVIOUS
<1>1. events = <<>> /\ Len(events) = 0 /\ waiting = <<>> /\ Len(waiting) = 0
  BY DEF Init
<1>2. DOMAIN records = {}
  BY DEF Init
<1>3. LogTellsEachStoryOnce
  BY <1>1, <1>2
  DEF LogTellsEachStoryOnce, Tells, Says, Silent, NothingYet, AbstractStatus, StatusOf
<1>4. AliveOrEnded /\ QueueInOrder
  BY <1>1 DEF AliveOrEnded, QueueInOrder
<1>5. OneMotionInTheLog /\ FirstInFirstStarted /\ StopSettlesEverything
  BY <1>1 DEF OneMotionInTheLog, FirstInFirstStarted, StopSettlesEverything
<1>. QED
  BY <1>3, <1>4, <1>5 DEF LogInv

LEMMA LogStep == TypeOK /\ ResourceInv /\ LogInv /\ [Next]_vars /\ TypeOK' => LogInv'
<1>. SUFFICES ASSUME TypeOK, ResourceInv, LogInv, [Next]_vars, TypeOK' PROVE LogInv'
  OBVIOUS
<1>. DEFINE Good == \E b \in Seq(Events) : Publishes(b)
<1>1. ASSUME Good PROVE LogInv'
  BY <1>1, PublishingKeepsLog
<1>2. ASSUME NEW r \in Requests,
             RejectUnavailable(r) \/ ExpireOnSubmit(r) \/ Observe(r) \/ RejectBusy(r)
      PROVE  Good
  <2>1. PICK s \in {"rejected", "expired", "completed"}, c \in ErrorCategories :
          Immediate(r, s, c) /\ (s = "completed" => r.capability # "stop")
    BY <1>2, StatusMembers DEF RejectUnavailable, ExpireOnSubmit, Observe, RejectBusy
  <2>2. IsNew(r)
    BY <1>2 DEF RejectUnavailable, ExpireOnSubmit, Observe, RejectBusy, Admissible
  <2>. QED
    BY <2>1, <2>2, ImmediatePublishes
<1>3. ASSUME NEW r \in Requests, Stop(r) PROVE Good
  BY <1>3, StopPublishes
<1>4. ASSUME NEW r \in Requests, StartNow(r) PROVE Good
  BY <1>4, StartNowPublishes
<1>5. ASSUME NEW r \in Requests, Enqueue(r) PROVE Good
  BY <1>5, EnqueuePublishes
<1>6. ASSUME NEW id \in RequestIds, IsRunning(id),
             \/ Finish(id, "completed", "none")
             \/ Finish(id, "failed", "internal")
             \/ Finish(id, "cancelled", "cancelled")
      PROVE  Good
  BY <1>6, FinishPublishes
<1>7. ASSUME NEW id \in RequestIds, CancelWaiting(id) PROVE Good
  BY <1>7, CancelWaitingPublishes
<1>8. ASSUME Tick \/ StepWall \/ UNCHANGED vars PROVE LogInv'
  <2>1. UNCHANGED <<records, running, waiting, events>>
    BY <1>8 DEF Tick, StepWall, vars
  <2>. QED
    BY <2>1, SilenceKeepsLog
<1>. HIDE DEF Good
<1>. QED
  BY <1>1, <1>2, <1>3, <1>4, <1>5, <1>6, <1>7, <1>8, StepCases

LEMMA LogInvariance == Spec => []LogInv
<1>1. Init => LogInv
  BY InitLog
<1>2. (TypeOK /\ ResourceInv) /\ LogInv /\ [Next]_vars /\ (TypeOK /\ ResourceInv)' => LogInv'
  BY LogStep
<1>. QED
  BY <1>1, <1>2, ResourceInvariance, PTL DEF Spec

\* The events about a request are a path through its life cycle that ends in the
\* status of its record: no outcome is published twice, lost or out of order.
THEOREM StoryCorrect == Spec => []LogTellsEachStoryOnce
BY LogInvariance, PTL DEF LogInv

\* Between two starts in the log the first motion has ended.
THEOREM OneMotionCorrect == Spec => []OneMotionInTheLog
BY LogInvariance, PTL DEF LogInv

\* Motions start in the order in which they were accepted.
THEOREM FirstInCorrect == Spec => []FirstInFirstStarted
BY LogInvariance, PTL DEF LogInv

\* When a stop reports its completion, all that was alive before it has ended.
THEOREM StopsCorrect == Spec => []StopSettlesEverything
BY LogInvariance, PTL DEF LogInv
=============================================================================
