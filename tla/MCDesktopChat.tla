---------------------------- MODULE MCDesktopChat ----------------------------
(* Instances of DesktopChat for TLC. *)
EXTENDS DesktopChatProperties

Nothing == [name \in {} |-> Word]

\* Limits that a few messages reach; an odd one on the history.
Small == [max_message_chars |-> Number(4), max_history_messages |-> Number(3),
          max_context_chars |-> Number(10), max_response_chars |-> Number(6),
          system_prompt |-> Text(3)]
ALongPrompt == [max_history_messages |-> Number(0), system_prompt |-> Text(9)] @@ Small

SomeEnvironments ==
  {Nothing, Small, ALongPrompt,
   [generation_timeout |-> NotANumber] @@ Small,
   [generation_timeout |-> Infinite] @@ Small,
   [generation_timeout |-> Number(LongestTimeout + 1)] @@ Small,
   [connect_timeout |-> Infinite] @@ Small,
   [connect_timeout |-> Number(LongestTimeout + 1)] @@ Small,
   [max_context_chars |-> Number(3)] @@ Small,
   [max_response_chars |-> Number(0)], [connect_timeout |-> Number(0)],
   [max_message_chars |-> Word], [model |-> Text(0)],
   [log_content |-> Word], [log_content |-> Number(5)]}

LimitOverride ==
  [max_message_chars |-> Number(4), max_history_messages |-> Number(2),
   max_context_chars |-> Number(8), max_response_chars |-> Number(9),
   max_concurrent_generations |-> Number(1)]
SomeOverrides == {Nothing, LimitOverride, [log_content |-> Number(1)]}

SomeLines ==
  {[blank |-> TRUE, chars |-> 2]}
    \cup {[blank |-> FALSE, chars |-> n] : n \in {1, 4, 5, 4096, 4097}}

Answered(status, body) ==
  [connection |-> "up", exchange |-> "answered", status |-> status, body |-> body]
Unanswered(connection, exchange) ==
  [connection |-> connection, exchange |-> exchange, status |-> 0, body |-> NotJson]
Says(content) == JsonObject([message |-> JsonObject([content |-> content])])

SomeCalls ==
  {Unanswered("unresolved", "broken"), Unanswered("refused", "broken"),
   Unanswered("up", "broken"), Unanswered("up", "garbled")}
    \cup {Answered(200, Says(JsonText(n))) : n \in {0, 5, 7, 8193}}
    \cup {Answered(status, Says(JsonText(5))) : status \in {399, 400}}
    \cup {Answered(200, body) :
            body \in {NotJson, TooDeep, JsonNumber, JsonObject([done |-> JsonNumber]),
                      JsonObject([message |-> JsonNumber]), Says(JsonNumber),
                      JsonObject([error |-> JsonText(5), message |->
                                    JsonObject([content |-> JsonText(5)])])}}
=============================================================================
