----------------------------- MODULE TurnResults -----------------------------
(***************************************************************************)
(* What the models of a conversation share: the results of generate, the   *)
(* statuses of a turn, and the trimming of the history.                    *)
(***************************************************************************)
EXTENDS Naturals, Sequences

\* The statuses and categories of a ModelResult; "raised" stands for an exception
\* that generate let through.
GenerationResults ==
  {"success", "invalid_result", "timeout", "provider_unavailable",
   "protocol_error", "cancelled", "model_failure", "invalid_input", "raised"}
TurnStatuses ==
  {"ok", "invalid_response", "timeout", "provider_unavailable", "protocol_error",
   "cancelled", "model_failure"}

WrongStatusOf(result) ==
  CASE result = "success" -> "ok"
    [] result \in {"raised", "invalid_input", "model_failure"} -> "model_failure"
    [] OTHER              -> result
\* _map_failure and _status_for_error.  An exception of the provider and a result
\* of the category invalid_input both become a model failure.
StatusOf(result) ==
  CASE result = "success"        -> "ok"
    [] result = "invalid_result" -> "invalid_response"
    [] result \in {"raised", "invalid_input", "model_failure"} -> "model_failure"
    [] OTHER                     -> result

\* The newest k entries, as _record_turn keeps them.
Newest(seq, k) == IF Len(seq) <= k THEN seq ELSE SubSeq(seq, Len(seq) - k + 1, Len(seq))
=============================================================================
