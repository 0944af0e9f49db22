--------------------------- MODULE MCAsyncExecutor ---------------------------
(* Small instances of AsyncExecutor for TLC. *)
EXTENDS AsyncExecutor

CONSTANTS c1, c2, c3, c4, c5

\* A batch larger than the number of its workers.
MCLongBatch == <<c1, c2, c3>>

\* A batch with more workers than slots: two slots, four workers.
MCCrowdedBatch == <<c1, c2, c3, c4, c5>>
=============================================================================
