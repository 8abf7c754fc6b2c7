--------------------------- MODULE MCCateringLogin ---------------------------
(* Finite instances of CateringLogin for TLC. *)
EXTENDS CateringLogin, TLC

\* Attempts differ in nothing; nor do the trusted sources.
Symmetric == Permutations(Attempt) \cup Permutations(Source)
===============================================================================
