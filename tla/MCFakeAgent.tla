---------------------------- MODULE MCFakeAgent -----------------------------
(* Instances of FakeAgent for TLC. *)
EXTENDS FakeAgentProperties

Request(id, key, capability, created, ttl) ==
  [request_id |-> id, session_id |-> "s1", idempotency_key |-> key,
   capability |-> capability, created_at |-> created, ttl_seconds |-> ttl]

Setting(capacity, auto, available, clock) ==
  [queue_capacity |-> capacity, auto_complete |-> auto,
   target_available |-> available, clock |-> clock]

\* Three motions compete for the slot, one of them short-lived, and a stop.
QueueRequests ==
  {Request("walk1", "k1", "walk", 0, 2),
   Request("stand", "k2", "stand", 0, 1),
   Request("walk2", "k3", "walk", 0, 2),
   Request("stop", "k4", "stop", 0, 2)}
QueueConfigs == {Setting(1, FALSE, TRUE, "fake"), Setting(2, FALSE, TRUE, "fake")}

\* A request that lives for a second and is valid up to the given tick.
Second == 1000000 * Micro
Until(id, key, capability, deadline) ==
  Request(id, key, capability, deadline - Second, Second)

\* One request id with two contents, one key under two request ids, and the same
\* key in another session; an observation and a stop beside the motions.
IdentityRequests ==
  {Until("walk1", "k1", "walk", 1),
   Until("walk1", "k1", "stand", 1),
   Until("walk2", "k1", "walk", 2),
   [Until("stand", "k1", "stand", 2) EXCEPT !.session_id = "s2"],
   Until("observe", "k2", "observe", 1),
   Until("stop", "k3", "stop", 1)}
IdentityConfigs ==
  {Setting(0, FALSE, TRUE, "fake"), Setting(1, FALSE, TRUE, "real"),
   Setting(1, TRUE, TRUE, "real"), Setting(1, FALSE, FALSE, "real")}
=============================================================================
