------------------------------ MODULE RecordCalls ------------------------------
(***************************************************************************)
(* The users of one stored record: what they ask for, what they are told,  *)
(* and the promise of AtomicRecord to them.  Module FileRecord has the     *)
(* steps by which the file backend keeps it.                               *)
(***************************************************************************)
CONSTANTS Client, Value, VersionOf, NoRecord

\* A lock file may be free, or its owner gone.
ASSUME ClientAssumption == Client \cap {"free", "orphan"} = {}

VARIABLES
  record,    \* the file <id>.json
  call,      \* what each client asks for
  outcome,   \* how its call stands, as in AtomicRecord
  found      \* the value its last get returned

A == INSTANCE AtomicRecord

\* Every call takes effect at one instant, or not at all.
RefinesAtomic == A!Spec
===============================================================================
