-------------------------------- MODULE Mutex --------------------------------
(***************************************************************************)
(* What a lock on one resource promises, whatever files implement it: at   *)
(* most one client is inside the guarded operation, an owner leaves by     *)
(* itself, and the only ownership that is ever taken away is one whose     *)
(* owner will never use it again (it died, or it gave up on an error and   *)
(* left its file behind).                                                  *)
(***************************************************************************)
CONSTANTS Client,   \* whoever may own the resource
          Free,     \* nobody owns it
          Orphan    \* it is owned by an attempt that has ended

VARIABLES owner,    \* Client, Free or Orphan
          inside    \* the clients that execute the guarded operation

vars == <<owner, inside>>

Init == owner = Free /\ inside = {}

Acquire(c) == owner = Free /\ owner' = c /\ UNCHANGED inside

Enter(c)   == owner = c /\ inside' = inside \cup {c} /\ UNCHANGED owner

Release(c) == owner = c /\ owner' = Free /\ inside' = inside \ {c}

Abandon(c) == owner = c /\ owner' = Orphan /\ inside' = inside \ {c}

Reclaim    == owner = Orphan /\ owner' = Free /\ UNCHANGED inside

Next == \/ \E c \in Client : Acquire(c) \/ Enter(c) \/ Release(c) \/ Abandon(c)
        \/ Reclaim

Spec == Init /\ [][Next]_vars
==============================================================================
