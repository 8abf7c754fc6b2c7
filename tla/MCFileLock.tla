------------------------------ MODULE MCFileLock ------------------------------
(* Finite instances of FileLock for TLC. *)
EXTENDS FileLock, TLC

Anywhere == Points \ {"crashed"}

ProcSymmetry == Permutations(Proc)
===============================================================================
