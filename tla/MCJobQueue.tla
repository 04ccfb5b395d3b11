----------------------------- MODULE MCJobQueue -----------------------------
(* JobQueue on a few jobs and workers for TLC. *)
EXTENDS JobQueue, TLC

Symmetry == Permutations(Jobs) \cup Permutations(Workers)
=============================================================================
