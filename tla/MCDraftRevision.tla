---------------------------- MODULE MCDraftRevision ----------------------------
(* Instances of DraftRevision for TLC. *)
EXTENDS DraftRevision, TLC

Workers == Permutations(Worker)
===============================================================================
