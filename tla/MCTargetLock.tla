----------------------------- MODULE MCTargetLock -----------------------------
(* Finite instances of TargetLock for TLC. *)
EXTENDS TargetLock, TLC

CONSTANTS r1, r2, r3, o1, p1, p2, p3

\* r1 and r2 are served by one process, r3 by another, o1 by an older release.
TwoProcesses == (r1 :> p1) @@ (r2 :> p1) @@ (r3 :> p2) @@ (o1 :> p3)
ThreeProcesses == (r1 :> p1) @@ (r2 :> p2) @@ (r3 :> p3) @@ (o1 :> p3)
OneHost == [p \in Proc |-> "host"]
===============================================================================
