# Agent4NAO: models, checks and proofs

This directory is the formal side of Agent4NAO: TLA+ modules translated from the
Python source, the TLC configurations that model-check them, and theorems about
them that TLAPS checks. Paths of the source are given from the root of the
repository, which holds a directory `src` with the package: `src/agent4nao/...`
below is `src/src/agent4nao/...` in PROJECT.json.

To run: `tlc -config session.cfg MCConversationSession.tla`,
`tlapm ConversationSessionProofs.tla`, and so on for the others.

## 1. The system

Agent4NAO is a text conversation with a local model whose answers may be action
proposals for a NAO robot. Nothing moves: the only executor in the repository is
a simulated agent. A text goes through these parts.

```
 cli ── send, cancel, close ──> ConversationSession ── worker thread ──> ModelProvider
                                      │ text of the answer               (fake, Ollama)
        ActionSession <───────────────┘
              │ parse_proposal, authorize, build_request   (action contract)
              └── submit ──> FakeNAOExecutionAgent ── reads ──> Clock / FakeClock
                                      └── events, results
```

| component | state | operations | talks to |
| --- | --- | --- | --- |
| conversation session (`conversation/session.py`) | `_messages`, `_closed`, `_in_flight` under `_lock`; `_cancel_event` outside it; one abandoned or live worker per turn | `send`, `cancel`, `close`, `clear`, `history` | a daemon thread per turn that calls `provider.generate`; `provider.cancel` |
| model providers (`model/`) | fake: a cancel event; Ollama: none | `generate`, `cancel` | Ollama over HTTP |
| action contract (`action/`) | immutable values only | `parse_proposal`, `authorize`, `build_request`, `request_from_dict`, `to_dict` | called by the action session and by the agent |
| execution agent (`execution/fake_agent.py`) | records, idempotency keys, the running motion, the queue, the event log | `submit`, `complete`, `fail`, `cancel` | reads the clock |
| action session (`conversation/execution.py`) | none of its own | `send`, `authorize` and delegation | the three above |
| configuration (`config/config.py`) | immutable | load and check | everybody |
| command line (`cli.py`) | none | a read loop | the session |
| log (`log.py`) | none | format and redact a line | session and agent, which swallow its failures |
| robot side (`nao/`, `gait/`, `ros2/`) | no code yet | | |

### Where it is hard, and what makes each part correct

**Conversation session.** It is shared by threads. `send` holds `_lock` only at
its ends; between them it polls three things that other threads write. `cancel`
takes no lock. Workers are never joined, so a worker may finish long after its
turn was answered. Correct means: one send at a time; a cancellation or a passed
deadline ends the send whatever the provider does; a closed session cannot be
revived by a send that started before; the history contains whole turns that
were answered, and nothing an abandoned worker says later. An exception inside
`send` passes through without a handler: it may cost the session, never its
guarantees.

**Execution agent.** It runs on one thread and each public call runs to its end,
so its difficulty is sequences of calls: motions compete for one resource while
requests go stale, ids and keys are reused, stops preempt, and completion
promotes what waits. One fact (who holds the resource, who waits) is written in
three places, by five methods. Correct means: the three copies agree; one motion
at a time, in order, never after its deadline; results are final; ids and keys
stand for one request; a stop settles everything; nothing accepted is starved.

**Action contract.** A long chain of checks made by different functions in
different files on values that come from a language model or off a wire. Correct
means: only legal requests come into being whichever way they came; a request
survives `to_dict` and `request_from_dict`; what `authorize` lets through can be
built; a refusal is one of the typed errors.

**Action session.** It builds the request outside the `try` that turns errors
into rejections, it may be asked to authorize one proposal twice or on a closed
session, it stamps a request with one clock and hands it to an agent that reads
another, and its caller keeps an answer while the agent goes on. Correct means:
one action per authorization, the one that was proposed, and none without; what
was answered stays true; nothing starts later than the two clocks allow; a stop
ends what was authorized before; everything authorized comes to an end.

**Chat: command line, configuration, Ollama.** One thread, but a long way from
an environment variable to a line on the terminal: settings from three sources
with checks across them, texts that are counted, trimmed, cut and remembered in
different methods, and a transport whose errors are classified by where they
happen. Correct means: the context is the newest part of the conversation that
fits; every limit holds; the model remembers what the user saw; only a complete
reply is an answer; every line gets one.

Every hazard of this kind that the code has is in PROJECT.json under `hazards`,
at its line, with the properties that watch it.

## 2. The modules

| module | models | checked by | proved in |
| --- | --- | --- | --- |
| `FakeAgent` | `execution/fake_agent.py`, `clock.py` | `agent_*`, `action_session` | `FakeAgentProofs`, `FakeAgentLogProofs` |
| `ActionLifecycle` | what the agent promises: the abstract specification | property `ImplementsLifecycle` | theorem `Refinement` |
| `ConversationSession` | `conversation/session.py`, `model/fake.py` as the session sees it | `session*` | `ConversationSessionProofs` |
| `ConversationTurns` | what the session promises: the abstract specification | property `ImplementsTurns` | theorem `Refinement` |
| `TurnResults` | results of a generation, statuses of a turn, trimming by count: what the conversation models share | | |
| `Configuration` | `config/config.py` | `desktop_chat` | `DesktopChatProofs` |
| `OllamaProvider` | `model/ollama.py` | `desktop_chat` | |
| `DesktopChat` | `cli.py` with the three above and the sizes in `conversation/session.py` | `desktop_chat` | `DesktopChatProofs`, `DesktopChatContextProofs` |
| `ActionSchema` | `action/*.py` as values and functions | | |
| `ActionContract` | the calls of `action/`, one after the other | `contract*` | `ActionContractProofs` |
| `ActionSession` | `conversation/execution.py`, composing `ConversationTurns`, `ActionSchema` and `FakeAgent` | `action_session` | `ActionSessionProofs` |
| `...Properties` | the properties of a model, and its refinement mapping | | |
| `MC...` | the instances for TLC | | |

Definitions called `Wrong...` are mistakes one could make in the definition that
follows them. Nothing uses them; PROJECT.json lists for each property one of them
which, put in the place of the right definition, breaks the property.

### FakeAgent

Variables are the attributes of `FakeNAOExecutionAgent`: `records` (`_records`:
request, status, category, start and duration), `idempotency`, `running`
(`_running_motion`), `waiting`, `events`, and the two readings of the clock,
`wall` and `mono`. `config` holds the constructor's arguments and never changes;
the runs take it from a set, so one run covers several settings.

A public call is one step, with everything it calls. `submit` is the disjunction
`Submit(r)`, one disjunct per way it can return, in the order of the code:
malformed, replay or conflict (`_check_duplicate`), target unavailable, stale,
observe, stop, and for a motion: started, refused, queued. `complete`, `fail`
and `cancel` of the running motion share `Finish`, which is `_finish` with
`_promote_next`: one step settles the motion, expires what is stale at the head
of the queue and starts the first fresh motion. The loop of `_promote_next` is a
choice of `n` constrained by `IsNextFresh`; exactly one `n` satisfies it. Calls
that only answer are steps that change nothing.

The duration of a motion is rounded to the microsecond (`Rounded`, half to even, on
exact numbers: the error of binary fractions is left out). `Micro` is how many ticks
make one. It is 1 where a tick is a second or any whole number of microseconds, and
rounding then changes nothing; in `agent_identity` it is 3, so a duration of one tick
is reported as none and one of two ticks as three.

With `auto_complete`, `_start_running` calls `_finish`, which calls `_promote_next`,
which may call `_start_running`. This is written as its result (`StartedRecord`,
`StartEvents`, and no motion in the slot): nothing waits when such an agent starts a
motion, so the recursion ends at its first level. A fault inside the recursion would
have to show in those three definitions to be seen.

`Tick` is time, `StepWall` the operator or NTP setting the wall clock (only for
the real clock; `FakeClock` moves both together). Left out: payloads,
observations, reasons, the wall-clock stamps in results, and the logger.

`ActionLifecycle` has one variable, the status of each id, and one action: any
set of requests moves along the life cycle at once, and the motion resource is
well used afterwards (one motion, motions only, nothing waits while it is free).
It is the diagram of section 6 of the Phase 2 document, with the moves the code
really makes (see the finding `agent_lifecycle`). The refinement maps an id
without a record to `new`.

### ConversationSession

A caller has a program counter `pc`. A step is one critical section of `_lock`,
one unlocked read or write of shared state, or one provider call:
`SendAdmitted` (first critical section: flags set, event cleared), `Build`
(`_build_request` copies the history), `Submit` (the worker thread starts),
`PollDone`, `PollCancel`, `PollDeadline` (the three tests of `_await`), `GiveUp`
(`provider.cancel`), `Release` (clears `_in_flight`), `Finalize` (`_finalize`
with `_record_turn`). `cancel` is three steps, `close` one critical section and
then the provider's cancel, `clear` one step.

A worker is an entry of `holder`, per turn: `none`, `generating`, or what
`generate` left. `WorkerEnds` may happen at any time after `Submit`, also after
the turn was answered, or never. `DeadlinePasses` may happen at any time or
never. With the fake provider `stopAsked` is the event that its `cancel` sets;
`WorkerStops` is its `_wait` seeing it. Ollama's `cancel` does nothing.

`Escape` is an exception that leaves `send` between its admission and the
release of `_in_flight`: there is no handler, so the flag stays set and a worker
that was started goes on. It happens where a thread cannot be started
(`SubmitFails`) or a `KeyboardInterrupt` arrives (`Interrupted`, anywhere in that
stretch, but only in the main thread: `Interruptible`). An interrupt after the
release changes nothing that is shared, except inside `_record_turn`'s own lines,
and is left out. Left out too: texts and their sizes (`DesktopChat` has them) and
logging.

`ConversationTurns` says the same without threads, workers, providers or clock:
four variables, and one action each for admitting, releasing, answering, breaking,
closing and clearing. Whether a break frees the conversation is left open: the code
does not free it, a handler that did would be as good a conversation. Answering may come after the next turn was admitted, even
answered, because `_in_flight` is cleared before `_finalize`. What is remembered
may only lose turns, or gain the one that was answered ok. In the refinement
mapping `busy` is `inFlight` and `remembered` the turns in `messages`.

### Configuration, OllamaProvider, DesktopChat

A configuration is a record with one value per setting; a value is known by what
it reads as (a number, nan, inf, another word, a text of some length). `Loads`
says when `load_config` returns: the environment is parsed and checked as a whole,
also the part an override replaces. `Loaded` puts the sources above each other.
`IsOverride` are the objects that can be passed: groups that were constructed.

A call of Ollama is a record of what becomes of the connection, the exchange, the
status and the body. `Transport` follows `_default_transport` through its two `try`
blocks to the kind of error it raises; `Generate` follows the result to a
`ModelResult`, or to an exception the session's worker catches. `Usable` are the timeouts
a socket takes: `settimeout` raises for nan, inf and what exceeds `LongestTimeout`,
before the connection is tried or the request is sent. The theorems hold for every
value of that constant; in the run it is 100, and a setting of 101 exceeds it.

`DesktopChat` is the program: `Start` loads the configuration or crashes; a line
is refused (`Refuse`) or asked (`Ask`); `Trim` is one turn of the loop in
`_build_request`, on the running total the code keeps; `Submit`, `WorkerEnds`,
`Succeed`, `Fail` and `TimeOut` are a generation; `Show` is the terminal;
`Leave` the ways out of the loop, and `Crash` those by an exception. Texts are
sizes. There is one caller, so the session's flags are left to
`ConversationSession`, and the worker of a turn that was given up is forgotten,
because nobody reads its holder.

### ActionSchema and ActionContract

`ActionSchema` holds the contract as values and functions, which two machines use:
`ActionContract`, where a caller makes the calls in any order, and `ActionSession`.
A JSON value is a record tagged with its type. Numbers count tenths, so the
limits 1.0 m, 0.5 m/s and 60 s are 10, 5 and 600 and their neighbours 11, 6 and
601 are there; what Python's reader takes beyond numbers has tags of its own
(`nonfinite`, `huge` for an integer no float holds). A string is known by its
text; for a UUID the text is the id it spells, and `canonical` says whether it is
spelled the canonical way, which the pattern does not look at.

A validator is an operator that gives the exception it raises or `"none"`, and
`e ?? f` is the first of two checks to raise: the checks stand in the order of the
code, because the order decides which exception a caller sees. `RequestIn`,
`ToDict`, `Parameters` and `ParametersToDict` are the conversions, field by field.
The actions are the calls of the pipeline: `ParseProposal`, `Authorize`,
`BuildRequest` and, for requests off the wire, `RequestFromDict`. A text too deep
for `json.loads` (a few thousand brackets) raises a `RecursionError` that
`parse_proposal` does not catch.

### ActionSession

The conversation is `ConversationTurns` (`INSTANCE`), which the session was shown to
implement, with any thread sending, closing and clearing. The agent is `FakeAgent`
(`INSTANCE` with the requests `authorize` can build for its constant `Requests`).
The variables of its own are `sent`, what `send` returned for each turn, and
`calls`, what `authorize` was asked and has answered. `Authorize` is everything up
to line 168, with each way it can end: no proposal, parameters refused, an
exception that is no `ActionError` or comes from building the request, no agent.
`Submit` is line 180: time may pass between the two, and the agent reads its own
clock, from which the session's differs by `skew`. `Drive` is whoever completes,
fails or cancels what the agent runs. The agent is documented as single-threaded
(Phase 2 document, section 12), so authorizations and `Drive` follow one another;
turns go on beside them.

## 3. What the runs check

Twelve runs. Those that pass:

| run | instance | states | properties |
| --- | --- | --- | --- |
| `agent_queue` | three motions with lifetimes 1 and 2, one stop, queue of 1 or 2, clock to 2 | 228,450 | type; `MotionResource`; the log: `LogTellsEachStoryOnce`, `OneMotionInTheLog`, `FirstInFirstStarted`, `StopSettlesEverything`; `NeverStartsStale`; liveness `AcceptedSettles`; refinement `ImplementsLifecycle` |
| `agent_identity` | six requests: one id with two contents, one key with two ids and in two sessions; queue of 0 or 1, with and without `auto_complete`, target missing, wall clock stepped, three ticks to the microsecond | 649,156 | `KeysIdentify`, `TerminalIsFinal`, `AutoCompleteIdle`, `MotionTimeFits` |
| `session` | two threads, one of which can be interrupted; all operations, both providers, two admitted sends, history of three messages | 165,243 | type; `InFlightIsExclusive`; `ClosedStaysCancelled`; `HistoryHoldsWholeTurns`; liveness `CancellationIsNeverLost`, `ReturnsByDeadline`; refinement `ImplementsTurns` |
| `contract` | every capability with right and wrong parameters, every field of a wire request right and wrong, one at a time | 203,064 | type; `RequestsAreLegal`; `RoundTrips`; `AuthorizedIsBuildable` |
| `desktop_chat` | fifteen environments and three overrides (accepted and refused), three lines, six kinds of line, seventeen kinds of call | 528,999 | type with accepted settings; `ContextIsTheNewestThatFits`; `StaysWithinLimits`; `MemoryIsTheEndOfTheScreen`; `OnlyWholeRepliesAreAnswers`; liveness `EveryLineIsAnswered` |
| `action_session` | two turns, three authorizations, five texts and failing turns, with and without an agent, clocks one time to live apart either way, one tick | 368,030 | type; `OneActionPerAuthorization`; `AnswersStayTrue`; `MotionsStartInTime`; action property `StopsTakeEffect`; liveness `AuthorizationsSettle` |

What each property says is in the comment above it.

**Why the bounds are enough.** *Agent*: the slot, the queue and what is refused
behind it need three motions; with capacity 2 two wait behind one that runs, so
promotion can skip a stale one and start the next; two clock ticks put a request
with lifetime 1 before, at and beyond its deadline. The log grows with the
requests, which are finite because ids are. *Identity*: two contents of one id
and two ids of one key are the cases `_check_duplicate` tells apart; a motion of one
tick is rounded down and one of two is rounded up, into the motion after it. *Session*:
two threads are enough for each to be at any place of `send` while the other
sends, cancels or closes; two turns let the worker of the first outlive it into
the second, and overflow a history of three messages, odd so that a turn is cut.
`MaxTurns` bounds only the admitted sends. *Contract*: requests do not influence
each other, so one at a time (`MaxRequests = 1`) visits every request that can
exist over the inputs; each limit is met from both sides and each field with
each type it may have. *Chat*: with limits of 4 characters, 3 messages, 10 of
context and 6 of answer, three lines are enough to trim the context to each
length, overflow the history and cut an answer; a prompt of 9 and a history of
none give the context that cannot fit. Each kind of check of the configuration
is failed by some environment (a word, a zero, an empty text, two settings that
do not fit, a boolean that is none), each timeout is also one no socket takes, and
every way out of `generate` is that of some call. *Action session*: three
authorizations are a motion, one that waits behind it and a stop, and one proposal twice; one tick is the time to live, so a request meets
the agent's clock before, at and beyond its deadline, as the session is behind
or ahead. `MaxCalls` and `MaxTurns` bound what callers begin, never what must
follow.

**Deadlock** is checked in every run but `desktop_chat`, where the program ends;
elsewhere callers may always call again.

## 4. Where the documents and the code part

Each is a run in which TLC finds the sentence violated by what the code does.

| run | sentence | what happens |
| --- | --- | --- |
| `agent_stop` | `execution/fake_agent.py:10-11`: stop "always preempts Stand and Walk motion requests" | staleness is tested first (line 122): a stop older than its ttl expires and the motion goes on |
| `agent_lifecycle` | Phase 2 document, section 6 (lines 108-110): completed only from running | observe and stop go from new straight to completed |
| `session_overlap` | Phase 1 Runbook, line 123: at most `MAX_CONCURRENT` generations per session | the worker of a turn that timed out still generates while the next turn's does; `max_concurrent_generations` is read nowhere |
| `session_sticky` | Runbook, lines 117-118: cancelling yields `cancelled` | the event of `FakeModelProvider.cancel` is never cleared and a timeout sets it: later delayed turns end `cancelled` though nobody cancelled |
| `contract_errors` | `action/validation.py:5-6`: raises typed errors | `tuple(5)` is a `TypeError`, `float(10**400)` an `OverflowError`; both escape |
| `contract_uuid` | Phase 2 document, line 68: "UUIDs must be canonical" | capitals pass, and a final newline, and are kept |

`session_overlap` and `session_sticky` are run with `send` alone, so that neither
a cancel nor a close is among the causes. All six are safety properties (one an
action property), so no fairness is involved.

Where the code says less than a sentence does, and a property states what remains:

- `max_context_chars` is listed among "Hard bounds" (`config.py:29`). The prompt and
  the question are sent even when they exceed it, by at most the length of the
  prompt (`StaysWithinLimits`).
- An exception that leaves `send` leaves `_in_flight` set: the session refuses every
  later send as concurrent (`InFlightIsExclusive` with `Wedged`). No sentence
  excludes it. The chat is not affected: it ends with the exception.
- A connection that is reset, or closed without an answer, is reported as a timeout
  (`ollama.py:72`).
- `nan`, `inf` and numbers beyond 2^63 nanoseconds (some 292 years) are accepted as
  timeouts (`config.py:65-68`), but no socket takes them. No call succeeds with them,
  and every line is answered with an error (`OnlyWholeRepliesAreAnswers`,
  `EveryLineIsAnswered`).
- A bad variable in the environment is an error even where an override replaces it.
- `parse_proposal` and `generate` let the `RecursionError` of `json.loads` through:
  the worker catches the second; the first leaves `ActionSession.send` for a turn
  that was answered and is remembered.

## 5. Fairness

*Agent* (`FairSpec` of `FakeAgentProperties`): weak fairness of completing the
motion that runs. Nothing inside a manual agent completes a motion; its tests
and its users do so by calling `complete`, and a queue behind a motion
nobody ever completes does wait for ever. `AcceptedSettles` says what the agent
adds to that: promotion loses nobody. Fairness of submissions, of time and of
`cancel` and `fail` is not assumed.

*Session* (`FairSpec`): weak fairness of `Continue(c)` for every caller: a thread
that is inside a call keeps running, and its waits are of 50 ms at most.
Nothing is assumed of the provider, which may never return, of the deadline,
or of callers beginning calls, and an exception is never owed.

*Chat* (`FairSpec` of `DesktopChat`): weak fairness of what main does by itself once a
line is read, of its own timeout (time passes, and a wait is at most 50 ms), and,
where no socket takes the generation timeout (`nan`, `inf`, too long), of the worker,
which then fails before it waits for the model. Nothing is assumed of Ollama or of whoever types.

*Action session* (`FairSpec` of `ActionSessionProperties`): weak fairness of `Submit`
(a call of `authorize` returns) and strong fairness of completing what runs: as for
the agent alone, somebody does so, but only between two authorizations, so the
step is not enabled all the time.

## 6. What is proved

TLAPS checks the following for every value of the constants. The bounds
(`MaxTime`, `MaxTurns`, `MaxRequests`, `MaxLines`, `MaxCalls`) are arbitrary as well,
so they restrict nothing that the theorems say. Every invariant, every action
property and both refinements of the passing runs are theorems.

**FakeAgent** (from `RequestsAssumption` and `ConfigAssumption`: ttl positive,
capacity natural, at least one tick to the microsecond, `None` is no id).

- `TypeCorrect`: by itself inductive.
- `ResourceCorrect`, `AutoCompleteCorrect`: the inductive invariant is
  `ResourceInv`, the two together, over `TypeOK`. `MotionResource` is not inductive
  alone: with `auto_complete` a promotion would leave a completed motion in the
  slot. It never happens, because a motion waits only behind a running one and
  `auto_complete` leaves none, which is what `AutoCompleteIdle` says. The lemmas are
  about the queue: what its tail and the removal of an entry keep.
- `KeysCorrect` and `TerminalCorrect`: every call touches only records that are
  running or waiting, and registers only what is new.
- `DeadlinesCorrect`: a start is an event, and every event a step adds is that of a
  submission or of `_promote_next`, both of which have just tested the deadline.
  A second invariant, `ClocksAgree`, says that with `FakeClock` the two readings are
  one and no motion's start is stamped beyond its deadline; the composition uses it.
- `TimeCorrect`: the spans of two motions overlap by less than a microsecond. Not at
  all would be false: a duration is rounded, so it may reach into the motion that starts
  at once. The statement is inductive only with what is true of the motion that runs
  now: every other span ended before it started, up to the rounding, and it did not
  start later than now (`TimeInv`). `RoundedBound` says that rounding moves a duration
  by half a microsecond at most. A call then does one of four things to a record: it keeps the span,
  makes a record without one, starts one now, or ends the running one now.
- `Refinement`: `Spec => ImplementsLifecycle`. Every call is a step of the
  abstract specification or a stutter, from the invariants above.

*The log* (`FakeAgentLogProofs`): `StoryCorrect`, `OneMotionCorrect`,
`FirstInCorrect`, `StopsCorrect` are about all events ever published, while the code
looks only at its records. The invariant `LogInv` ties the two. `AliveOrEnded` says
that a request the log last shows accepted or running is so in its record, unless a
later event of the log ends it; `QueueInOrder` that what waits was accepted in the
order of the queue. Without the first, nothing would tell that a motion which has no
last event is in the slot, so a second start could be added to the log; without the
second, promotion from the head would not be in the order of acceptance. The proof has
two halves. `Publishes(b)` says what the events `b` of one call look like, whichever
call it is: they tell the moves its records make, a start comes when the motion in the
slot has ended, a stop comes after all it settles. One lemma per call shows `Publishes`; and one per
conjunct of `LogInv` shows that a call which does so keeps it.

**ConversationSession** (from `SessionAssumption`; any number of threads, any
limit). The inductive invariant is `SessionInv`: type, exclusion, `closed =>
cancelEvent`, and `HandsOK`, which says that a caller has a turn in hand from its
admission to the end of `Finalize`, and a verdict from the moment `_await` has
decided. Without it `outcome` could be written at no index and `StatusOf` could be
asked about no result.

- `TypeCorrect`, `ExclusionCorrect`, `CloseCorrect`. Exceptions are why exclusion is
  about the last turn too: a raised turn is the last one admitted, because the flag
  it leaves set is cleared by nobody.
- `HistoryCorrect`: the invariant adds that a turn in hand is pending and in nobody
  else's hands, hence not in the history yet; the lemmas say that `Newest` keeps a
  suffix and that a suffix of whole turns is cut in front only.
- `Refinement`: `Spec => ImplementsTurns`. Threads' steps map to the six abstract
  actions or stutter; the caller that releases or escapes holds the newest turn.

**ActionContract** (no assumptions: any texts, wire values and ids). The
invariant is `ContractInv`: what is in hand is authorizable, requests are legal,
and they round-trip. The core is a lemma per check (passing means what it should)
and one that `ParametersToDict` is undone by `Parameters`.

- `LegalityCorrect`, `RoundTripCorrect`, `BuildableCorrect`.
- `TypeCorrect`: no call ends in an exception beyond the contract's own and the three
  of Python, through every check that a call is composed of.

**DesktopChat** (from `ChatAssumption`: overrides that could be constructed, prompts
that are texts, texts of natural size, any environments, lines and calls).

- `MemoryCorrect`: while an answer waits to be shown the memory is one turn ahead of
  the screen, which is the invariant `ChatInv` carries through; the lemma
  `NewestOfNewest` says that trimming at every turn and trimming once are the same.
- `AnswersCorrect`: from the definitions of `Transport`, `Generate` and
  `ParseResponse`, and that a reply outlives the question only until the next.

`DesktopChatContextProofs` has what rests on sums and on the checks of the settings:

- `TypeCorrect` contains that the settings in force passed all the checks, wherever
  each came from. An override's settings were checked with one another when its group
  was constructed, the environment's as a whole; `Loaded` mixes the two. The lemma
  `GroupsComeWhole` says that it mixes groups, never the settings of one group, and a
  check looks at one group.
- `ContextCorrect`, `LimitsCorrect`: `_build_request` keeps a running total instead of
  counting the draft again. `ContextInv` says that the total is the size of the draft,
  and, until the request is sent, that the draft is the prompt, an end of the history
  and the question, so the one turn fewer that was trimmed last did not fit.
  `HistoryInv` is what a request inherits: a history within its limits.
- What a sum is cannot be had by the library's induction, whose hypothesis is an
  operator. The module does it with sets: the numbers for which a formula
  fails have a least member (from the well-foundedness of the proper subsets of a
  finite set), and a least counterexample has a predecessor. `SumCharsAddsUp` is the
  result: `SumChars` adds entry by entry; that it loses what an entry is worth when
  the entry is removed (`SumWithoutSecond`) follows.

**ActionSession** (from `SessionAssumption`; any texts, skews, clocks and numbers of
calls). What has to be shown here is that `Submit` hands over a request of the set
`authorize` can build (its ids are fresh, its parameters come from a proposal that was
checked), and then the relation of `calls` to `records`.

- `AgentIsTheAgent`: the composition implements `FakeAgent` with that set of requests.
  So all that `FakeAgentProofs` and `FakeAgentLogProofs` prove holds inside;
  `AgentUsedWell` names the five results an operator would ask for.
- `ConversationIsTheConversation`: and it implements `ConversationTurns`, which
  `ConversationSession` implements.
- `TypeCorrect`, `OneActionCorrect` (ids are drawn once, in pairs, by the number of the
  call), `AnswersCorrect` (with the agent's invariant: a settled record is final, and a
  status moves forward only), `StartsCorrect` (`StampInv`: a request carries the
  session's reading of the time it was built, `ClocksAgree` the rest), `StopsCorrect`.

**Only model-checked.** Liveness (`AcceptedSettles`, `CancellationIsNeverLost`,
`ReturnsByDeadline`, `EveryLineIsAnswered`, `AuthorizationsSettle`), because fairness
and ENABLED are beyond the prover; and the six sentences of section 4, each of which TLC
refutes.

## 7. Plan

Done, in this order: the agent with its abstract specification, the session, the
contract; then the exceptions of the session and its abstract specification, the chat
with the configuration and Ollama, and the action session composed of the abstract
conversation, the contract and the agent; the runs above and a theorem for each of
their safety properties. To come:

1. The promises of the abstract specifications as theorems about them (a status that
   only moves forward, at most one turn answered per admission), which then hold of
   whatever implements them, without the code's invariants.
2. `ActionSession` over `ConversationSession` itself instead of its abstraction, for
   which `ConversationIsTheConversation` is one half.

## 8. Not modelled

- Log: formatting and redaction, whose failures callers swallow; the log level.
- `nao/`, `gait/`, `ros2/`, `simulation/`: without code.
- Name resolution beyond "no address", and an endpoint that is no URL
  (`urlsplit` and `parts.port` may raise `ValueError`, which `generate` reports as
  a protocol error).
- An interrupt inside `_finalize`, which could cut `_record_turn` between its lines.
- In `ActionSession`: a `ProposedAction` made by hand instead of parsed; two threads in
  `authorize` at once, which the agent does not support (Phase 2 document, section
  12); clocks that drift apart rather than differ. The wall clock set by hand is in
  `agent_identity`, not in the composition's instance.
- `execution/` beyond the fake agent does not exist yet.
