---------------------------- MODULE Configuration ----------------------------
(***************************************************************************)
(* load_config (config/config.py): defaults, then AGENT4NAO_* environment  *)
(* variables, then explicit overrides; and the checks of the dataclasses   *)
(* it builds.  A configuration is a record with one value per setting.     *)
(*                                                                         *)
(* A value is known by what it reads as: a number, one of the two words    *)
(* float() also takes, any other word, or a text of some length.  The log  *)
(* level and the host and port inside the endpoint are left out.           *)
(***************************************************************************)
EXTENDS Integers, SequencesExt

Number(n) == [kind |-> "number", value |-> n]
NotANumber == [kind |-> "nan", value |-> 0]
Infinite == [kind |-> "infinite", value |-> 0]
Word == [kind |-> "word", value |-> 0]
Text(chars) == [kind |-> "text", value |-> chars]
Values == [kind : {"number", "nan", "infinite", "word"}, value : Int]
            \cup [kind : {"text"}, value : Nat]

LimitNames == {"max_message_chars", "max_history_messages", "max_context_chars",
               "max_response_chars", "max_concurrent_generations"}
TimeoutNames == {"connect_timeout", "generation_timeout"}
OllamaNames == TimeoutNames \cup {"endpoint", "model"}
SettingNames == LimitNames \cup OllamaNames \cup {"system_prompt", "log_content"}

Defaults ==
  [endpoint |-> Text(22), model |-> Text(24),
   connect_timeout |-> Number(5), generation_timeout |-> Number(60),
   max_message_chars |-> Number(4096), max_history_messages |-> Number(20),
   max_context_chars |-> Number(8192), max_response_chars |-> Number(8192),
   max_concurrent_generations |-> Number(1),
   system_prompt |-> Text(162), log_content |-> Number(0)]

\* What one source says, and for the rest what the sources below it say.
Above(source, below) ==
  [name \in SettingNames |-> IF name \in DOMAIN source THEN source[name] ELSE below[name]]

\* _as_int and _as_float; the second also reads nan and inf.
Parses(s) ==
  /\ \A name \in LimitNames : s[name].kind = "number"
  /\ \A name \in TimeoutNames : s[name].kind \in {"number", "nan", "infinite"}

\* OllamaConfig.__post_init__: a timeout is refused when it is <= 0, which neither
\* nan nor inf is.
OllamaAccepted(s) ==
  /\ s.endpoint.value # 0 /\ s.model.value # 0
  /\ \A name \in TimeoutNames : ~(s[name].kind = "number" /\ s[name].value <= 0)

WrongLimitsAccepted(s) ==
  /\ s.max_message_chars.value > 0
  /\ s.max_history_messages.value >= 0
  /\ s.max_context_chars.value > 0
  /\ s.max_response_chars.value > 0
  /\ s.max_concurrent_generations.value >= 1
\* ConversationLimits.__post_init__.
LimitsAccepted(s) ==
  /\ s.max_message_chars.value > 0
  /\ s.max_history_messages.value >= 0
  /\ s.max_context_chars.value > 0
  /\ s.max_response_chars.value > 0
  /\ s.max_concurrent_generations.value >= 1
  /\ s.max_message_chars.value <= s.max_context_chars.value

\* Overrides are a partial configuration: an OllamaConfig or ConversationLimits that
\* was constructed, hence accepted, and gives all the settings of its group.
IsOverride(over) ==
  /\ DOMAIN over \subseteq SettingNames
  /\ DOMAIN over \cap OllamaNames \in {{}, OllamaNames}
  /\ DOMAIN over \cap LimitNames \in {{}, LimitNames}
  /\ LET s == Above(over, Defaults) IN Parses(s) /\ OllamaAccepted(s) /\ LimitsAccepted(s)

\* Whether load_config returns: what the environment says is read and checked even
\* where an override replaces it, except log_content.  A text that _as_bool takes is
\* given as 0 or 1; it refuses every other one, numbers too.
Loads(env, over) ==
  LET s == Above(env, Defaults)
  IN  /\ Parses(s) /\ OllamaAccepted(s) /\ LimitsAccepted(s)
      /\ "log_content" \in DOMAIN over \/ s.log_content \in {Number(0), Number(1)}

Loaded(env, over) == Above(over, Above(env, Defaults))
=============================================================================
