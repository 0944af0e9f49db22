------------------------- MODULE MCMessageScheduler -------------------------
(* Small instances of MessageScheduler for TLC. *)
EXTENDS MessageScheduler, TLC

\* A normal message that may be retried once and a high-priority one that
\* expires; their route has a worker once one is registered.
MCProfiles ==
  {[priority |-> "normal", route |-> "task", maxRetries |-> 1,
    availableAt |-> 0, expiresAt |-> 0],
   [priority |-> "high", route |-> "task", maxRetries |-> 0,
    availableAt |-> 0, expiresAt |-> 1]}

MCRoutes == {"task"}

=============================================================================
