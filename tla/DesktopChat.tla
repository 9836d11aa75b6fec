----------------------------- MODULE DesktopChat -----------------------------
(***************************************************************************)
(* The command line chat (cli.py) with the configuration it loads, one     *)
(* ConversationSession and Ollama: the main thread reads a line, the       *)
(* session checks it, builds the request and trims it, a worker calls      *)
(* Ollama, and the answer is cut, remembered and shown.                    *)
(*                                                                         *)
(* A text is known by its size in characters.  The main thread is the only *)
(* caller, so the flags of the session that keep callers apart have no     *)
(* part here; ConversationSession has them.  The worker of a turn that was *)
(* given up is forgotten: it writes to a holder nobody reads any more.     *)
(***************************************************************************)
EXTENDS OllamaProvider

CONSTANTS
  Environments,   \* the AGENT4NAO_* variables the program may be started with
  Overrides,      \* what an embedding program may pass to load_config
  Lines,          \* what may be typed: [blank |-> BOOLEAN, chars |-> size]
  Calls,          \* what may become of a call of Ollama
  MaxLines        \* bound on the lines handed to send

VARIABLES
  phase,          \* where main is
  config,         \* what load_config returned
  messages,       \* the session's _messages, with sizes for contents
  draft, total,   \* the request being built, and the running total of its sizes
  reply,          \* the call the worker made and its result, or NoReply
  answer,         \* the last TurnResult
  lines,          \* how many lines were handed to send
  screen          \* the questions and answers on the terminal, in order

vars == <<phase, config, messages, draft, total, reply, answer, lines, screen>>

ASSUME ChatAssumption ==
  /\ MaxLines \in Nat /\ LongestTimeout \in Nat
  /\ \A over \in Overrides : IsOverride(over)
  /\ \A s \in Environments \cup Overrides :
       /\ \A name \in DOMAIN s : s[name] \in Values
       /\ "system_prompt" \in DOMAIN s => s["system_prompt"].kind = "text"
  /\ \A line \in Lines : line.chars \in Nat
  /\ \A call \in Calls :
       /\ call.connection \in {"unresolved", "refused", "up"}
       /\ call.exchange \in {"broken", "garbled", "answered"}
       /\ call.status \in Nat
       /\ ParseResponse(call.body) = "success" => ContentChars(call) \in Nat
-----------------------------------------------------------------------------
NoReply == [result |-> "none"]
NoAnswer == [status |-> "none"]
Phases == {"start", "reading", "trimming", "waiting", "showing", "over", "crashed"}

Message(role, chars) == [role |-> role, chars |-> chars]
Question == draft[Len(draft)]
Limit(name) == config[name].value

SumChars(seq) ==
  LET sum[n \in 0..Len(seq)] == IF n = 0 THEN 0 ELSE sum[n - 1] + seq[n].chars
  IN  sum[Len(seq)]

\* load_config raises ValueError, or the read loop begins.  (--help and unknown
\* options return before.)
Start(env, over) ==
  /\ phase = "start"
  /\ IF Loads(env, over)
       THEN phase' = "reading" /\ config' = Loaded(env, over)
       ELSE phase' = "crashed" /\ UNCHANGED config
  /\ UNCHANGED <<messages, draft, total, reply, answer, lines, screen>>

\* End of input, an exit command, or a KeyboardInterrupt anywhere in the loop: the
\* session is closed and main returns 0.
Leave ==
  /\ phase \in {"reading", "trimming", "waiting", "showing"}
  /\ phase' = "over"
  /\ UNCHANGED <<config, messages, draft, total, reply, answer, lines, screen>>

TooLarge(line) == line.chars > Limit("max_message_chars")

\* _validate_input refuses the line.
Refuse(line) ==
  /\ phase = "reading" /\ lines < MaxLines
  /\ line.blank \/ TooLarge(line)
  /\ lines' = lines + 1
  /\ answer' = [status |-> IF line.blank THEN "empty_input" ELSE "input_too_large"]
  /\ phase' = "showing"
  /\ UNCHANGED <<config, messages, draft, total, reply, screen>>

\* send admits the line; _build_request puts the messages together.
Ask(line) ==
  /\ phase = "reading" /\ lines < MaxLines
  /\ ~line.blank /\ ~TooLarge(line)
  /\ lines' = lines + 1
  /\ draft' = <<Message("system", Limit("system_prompt"))>> \o messages
                \o <<Message("user", line.chars)>>
  /\ total' = SumChars(draft')
  /\ phase' = "trimming"
  /\ UNCHANGED <<config, messages, reply, answer, screen>>

WrongOverfull == total > Limit("max_context_chars") /\ Len(draft) > 3
Overfull == total > Limit("max_context_chars") /\ Len(draft) > 2

\* One turn of the loop that drops the oldest message behind the system prompt.
Trim ==
  /\ phase = "trimming" /\ Overfull
  /\ total' = total - draft[2].chars
  /\ draft' = RemoveAt(draft, 2)
  /\ UNCHANGED <<phase, config, messages, reply, answer, lines, screen>>

Submit ==
  /\ phase = "trimming" /\ ~Overfull
  /\ reply' = NoReply
  /\ phase' = "waiting"
  /\ UNCHANGED <<config, messages, draft, total, answer, lines, screen>>

WorkerEnds(call) ==
  /\ phase = "waiting" /\ reply = NoReply
  /\ reply' = [result |-> Generate(config, call), call |-> call]
  /\ UNCHANGED <<phase, config, messages, draft, total, answer, lines, screen>>

\* _finalize cuts the answer; _record_turn remembers both messages and trims.
Cut(chars) == IF chars > Limit("max_response_chars") THEN Limit("max_response_chars") ELSE chars

WrongRemembered(asked, said) ==
  Newest(messages \o <<asked, Message("assistant", ContentChars(reply.call))>>,
         Limit("max_history_messages"))
Remembered(asked, said) ==
  Newest(messages \o <<asked, said>>, Limit("max_history_messages"))

Succeed ==
  /\ phase = "waiting" /\ reply.result = "success"
  /\ LET said == Message("assistant", Cut(ContentChars(reply.call)))
     IN  /\ answer' = [status |-> "ok", asked |-> Question, said |-> said]
         /\ messages' = Remembered(Question, said)
  /\ phase' = "showing"
  /\ UNCHANGED <<config, draft, total, reply, lines, screen>>

Fail ==
  /\ phase = "waiting" /\ reply.result \notin {"none", "success"}
  /\ answer' = [status |-> StatusOf(reply.result)]
  /\ phase' = "showing"
  /\ UNCHANGED <<config, messages, draft, total, reply, lines, screen>>

WrongTimeOut == phase = "waiting" /\ reply # NoReply
\* The session's own deadline, which the worker may only just have missed.  It never
\* passes when it is inf, and never compares as passed when it is nan.
CanTimeOut == phase = "waiting" /\ config.generation_timeout.kind = "number"

TimeOut ==
  /\ CanTimeOut
  /\ reply' = NoReply
  /\ answer' = [status |-> "timeout"]
  /\ phase' = "showing"
  /\ UNCHANGED <<config, messages, draft, total, lines, screen>>

Show ==
  /\ phase = "showing"
  /\ screen' = IF answer.status = "ok" THEN screen \o <<answer.asked, answer.said>> ELSE screen
  /\ phase' = "reading"
  /\ UNCHANGED <<config, messages, draft, total, reply, answer, lines>>

\* An exception leaves main, which closes the session first: what is typed is no text,
\* no thread can be started, or the terminal is gone.
Crash ==
  /\ phase \in {"reading", "showing"} \/ (phase = "trimming" /\ ~Overfull)
  /\ phase' = "crashed"
  /\ UNCHANGED <<config, messages, draft, total, reply, answer, lines, screen>>
-----------------------------------------------------------------------------
Init ==
  /\ phase = "start"
  /\ config = Defaults
  /\ messages = <<>>
  /\ draft = <<>> /\ total = 0
  /\ reply = NoReply
  /\ answer = NoAnswer
  /\ lines = 0
  /\ screen = <<>>

\* What main does by itself once a line is read.
Work == Trim \/ Submit \/ Succeed \/ Fail \/ Show

Next ==
  \/ \E env \in Environments, over \in Overrides : Start(env, over)
  \/ \E line \in Lines : Refuse(line) \/ Ask(line)
  \/ \E call \in Calls : WorkerEnds(call)
  \/ Work \/ TimeOut \/ Crash \/ Leave

Spec == Init /\ [][Next]_vars

\* A worker whose timeouts no socket takes fails before it waits for the model.
WorkerGivesUp ==
  /\ ~Usable(config.generation_timeout)
  /\ \E call \in Calls : WorkerEnds(call)

\* Main keeps running and time passes; nothing is assumed of Ollama.
FairSpec == Spec /\ WF_vars(Work) /\ WF_vars(TimeOut) /\ WF_vars(WorkerGivesUp)
=============================================================================
