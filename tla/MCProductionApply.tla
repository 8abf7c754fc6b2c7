-------------------------- MODULE MCProductionApply --------------------------
(* Instances of ProductionApply for TLC. *)
EXTENDS ProductionApply, TLC

\* Workers and the stamps of requests are interchangeable.
Symmetry == Permutations(Worker) \cup Permutations(Stamp)
===============================================================================
