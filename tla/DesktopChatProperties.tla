------------------------ MODULE DesktopChatProperties ------------------------
(***************************************************************************)
(* What the chat promises whoever types, across the configuration, the     *)
(* session's bookkeeping of sizes and the reading of Ollama's answers.     *)
(***************************************************************************)
EXTENDS DesktopChat

Messages == [role : {"system", "user", "assistant"}, chars : Nat]
Statuses == TurnStatuses \cup {"none", "empty_input", "input_too_large"}

\* Every variable has its type, and a chat that got as far as reading has settings
\* its checks accept, whichever source each of them came from.
TypeOK ==
  /\ phase \in Phases
  /\ DOMAIN config = SettingNames
  /\ Parses(config) /\ OllamaAccepted(config) /\ LimitsAccepted(config)
  /\ messages \in Seq(Messages) /\ screen \in Seq(Messages) /\ draft \in Seq(Messages)
  /\ total \in Nat
  /\ reply.result \in GenerationResults \cup {"none"}
  /\ answer.status \in Statuses
  /\ lines \in 0..MaxLines
-----------------------------------------------------------------------------
(* The context *)

\* What is sent is the system prompt, the longest end of the history that fits into
\* max_context_chars together with it and the question, and the question.  The loop
\* finds it by dropping one message at a time and keeping a running total.
ContextIsTheNewestThatFits ==
  phase = "waiting" =>
    LET kept == Len(draft) - 2
        fits(chars) == chars <= Limit("max_context_chars")
    IN  /\ draft = <<Message("system", Limit("system_prompt"))>>
                     \o Newest(messages, kept) \o <<Question>>
        /\ kept = 0 \/ fits(SumChars(draft))
        /\ kept < Len(messages)
             => ~fits(SumChars(draft) + messages[Len(messages) - kept].chars)

\* The limits hold for all that is kept and sent: the history has no more messages
\* than allowed (also for 0 and odd limits) and none is longer than the limit for
\* its author.  max_context_chars is not the hard bound config.py calls it: when the
\* question and the prompt alone exceed it they are sent, but by no more than the
\* length of the prompt, because a question that is longer than the context is
\* refused by the configuration.
StaysWithinLimits ==
  /\ Len(messages) <= Limit("max_history_messages")
  /\ \A i \in 1..Len(messages) :
       messages[i].chars <= IF messages[i].role = "user" THEN Limit("max_message_chars")
                                                         ELSE Limit("max_response_chars")
  /\ phase = "waiting" =>
       \/ SumChars(draft) <= Limit("max_context_chars")
       \/ /\ Len(draft) = 2
          /\ SumChars(draft) <= Limit("max_context_chars") + Limit("system_prompt")
-----------------------------------------------------------------------------
(* The answers *)

\* Whenever the chat waits for a line, the model's memory is the end of what stands
\* on the screen: nothing is remembered that was not shown, in the length it was
\* shown, and what was shown is forgotten oldest first.
MemoryIsTheEndOfTheScreen ==
  phase = "reading" => messages = Newest(screen, Limit("max_history_messages"))

IsWhole(call) ==
  /\ call.connection = "up" /\ call.exchange = "answered" /\ call.status < 400
  /\ call.body.type = "object"
  /\ "error" \notin DOMAIN call.body.members
  /\ HasMember(call.body, "message", "object")
  /\ HasMember(call.body.members.message, "content", "string")

\* A turn is ok only on a complete reply without an error that carries a text, and
\* the worker reports a success for every such reply, if a socket takes both timeouts:
\* the configuration also takes nan, inf and numbers beyond what a socket takes, and
\* then no call ever succeeds.
OnlyWholeRepliesAreAnswers ==
  LET usable == /\ Usable(config.connect_timeout)
                /\ Usable(config.generation_timeout)
  IN  /\ reply # NoReply => (reply.result = "success" <=> usable /\ IsWhole(reply.call))
      /\ phase = "showing" /\ answer.status = "ok"
           => /\ reply # NoReply /\ usable /\ IsWhole(reply.call)
              /\ answer.said.chars <= ContentChars(reply.call)

\* Every line that was handed to send is followed by an answer on the screen, or the
\* chat is over: whatever Ollama does, and with every timeout the configuration takes.
EveryLineIsAnswered ==
  \A n \in 1..MaxLines :
    lines = n ~> lines = n /\ phase \in {"reading", "over", "crashed"}
=============================================================================
