---------------------------- MODULE MCOrderedLocks ----------------------------
(* Finite instances of OrderedLocks for TLC. *)
EXTENDS OrderedLocks, TLC

CONSTANTS t1, t2, t3

Ranks == (t1 :> 1) @@ (t2 :> 2) @@ (t3 :> 3)
===============================================================================
