----------------------------- MODULE MCFileRecord -----------------------------
(* Finite instances of FileRecord for TLC. *)
EXTENDS FileRecord, TLC

CONSTANTS v1, v1x, v2

\* v1 and v1x differ in their content only.
Versions == (v1 :> 1) @@ (v1x :> 1) @@ (v2 :> 2)
===============================================================================
