---- MODULE MCLhtbEpisode ----
(* Instance of LhtbEpisode for TLC. *)
EXTENDS LhtbEpisode, TLC
CONSTANTS n1, n2, root, task, q
Spawned == Permutations({n1, n2})
====
