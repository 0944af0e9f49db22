-------------------------- MODULE MCGroundingLoop --------------------------
(***************************************************************************)
(* GroundingLoop with actors of every kind on two files.                   *)
(***************************************************************************)
EXTENDS GroundingLoop

MCManifests == Sources
MCSymmetry == Permutations(Sources)
=============================================================================
