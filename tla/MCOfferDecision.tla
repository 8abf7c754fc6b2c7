--------------------------- MODULE MCOfferDecision ---------------------------
(* Instances of OfferDecision for TLC. *)
EXTENDS OfferDecision, TLC

CONSTANTS d1, d2, d3

\* d2 continues d1; a third draft, where there is one, competes with d2.
Continues == [d \in Draft |-> IF d = d1 THEN None ELSE d1]

\* Workers, the stamps of requests, and the continuations of d1 are interchangeable.
Symmetry ==
  Permutations(Worker) \cup Permutations(Stamp) \cup Permutations(Draft \ {d1})
===============================================================================
