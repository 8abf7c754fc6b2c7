------------------------------- MODULE LockOrder -------------------------------
(***************************************************************************)
(* Calls that lock several targets one after the other: which target a     *)
(* call waits for, and what is to hold of whoever holds and waits.  Module *)
(* OrderedLocks has the steps of the calls.                                *)
(***************************************************************************)
EXTENDS Naturals

CONSTANTS
  Call,      \* critical sections being entered, each by its own handler
  Target,
  Rank       \* where localeCompare sorts a target's identity

\* All processes compare alike, different identities never compare equal, and of the
\* targets that exist one is the last.
ASSUME OrderAssumption ==
  /\ Rank \in [Target -> Nat]
  /\ \E last \in Target : \A t \in Target : Rank[t] <= Rank[last]
  /\ \A t, u \in Target : Rank[t] = Rank[u] => t = u

VARIABLES
  wants,   \* the targets a call names
  holds,   \* those it has locked
  at       \* the point its handler has reached

Missing(c) == wants[c] \ holds[c]

\* A nonempty set's first target in the sorted order.
IsFirst(t, T) == t \in T /\ \A u \in T : Rank[t] <= Rank[u]

\* Variation: the targets are locked in whatever order the call names them.
NextUpUnsorted(c, t) == at[c] = "acquire" /\ t \in Missing(c)

\* The target a call is waiting for or about to lock.
NextUp(c, t) == at[c] = "acquire" /\ IsFirst(t, Missing(c))

-------------------------------------------------------------------------------
\* Two operations that share a target never overlap, however their target lists
\* differ: a call runs only with every one of its targets locked.
Isolation ==
  \A c, d \in Call :
    (c # d /\ at[c] = "inside" /\ at[d] = "inside") => wants[c] \cap wants[d] = {}

\* c waits for a target that d holds.
WaitsFor(c, d) == c # d /\ \E t \in holds[d] : NextUp(c, t)

\* A chain of waits climbs in the order: whoever holds what c waits for can only
\* wait for something further up, so no chain of calls waits in a circle.
WaitsClimb ==
  \A c, d \in Call : \A t, u \in Target :
    (t \in holds[d] /\ NextUp(c, t) /\ NextUp(d, u)) => Rank[t] < Rank[u]

\* The circle itself: some calls, each waiting for another of them.
NoCircle ==
  ~ \E S \in (SUBSET Call) \ {{}} : \A c \in S : \E d \in S : WaitsFor(c, d)
================================================================================
