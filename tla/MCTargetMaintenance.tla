-------------------------- MODULE MCTargetMaintenance --------------------------
(* TargetMaintenance for TLC: two application services and the database. *)
EXTENDS TargetMaintenance, TLC

CONSTANTS web, runtime

MCService == <<runtime, web>>

Symmetry == Permutations(Invocation) \cup Permutations(Run) \cup Permutations(Nonce)
=============================================================================
