------------------------ MODULE MCConversationSession ------------------------
(* Two threads on one session; see the .cfg files for the rest. *)
EXTENDS ConversationSessionProperties

CONSTANTS alice, bob

TwoCallers == {alice, bob}
OneThread == {alice}
NoThreads == {}
AllOperations == {"send", "cancel", "close", "clear"}
OnlySend == {"send"}
AllProviders == {"fake", "ollama"}
OnlyFake == {"fake"}
OnlyOllama == {"ollama"}

\* One result per kind of ending: an answer, a failure the status is taken from,
\* an unusable answer, and an exception.
Endings == {"success", "provider_unavailable", "invalid_result", "raised"}
=============================================================================
