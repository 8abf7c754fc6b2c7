----------------------------- MODULE OrderedLocks -----------------------------
(***************************************************************************)
(* withBusinessTargetCriticalSection over several targets (shared-core/src *)
(* /target-critical-section.ts): the targets of a call are deduplicated by *)
(* their identity, sorted, locked one after the other, and released in the *)
(* reverse order when the operation has returned or thrown.                *)
(*                                                                         *)
(* A single lock is what module TargetLock checks: one owner at a time and *)
(* every waiter's turn comes.  Calls that share no target never meet.      *)
(***************************************************************************)
EXTENDS LockOrder

CONSTANT Impatient  \* the calls that may run into TARGET_LOCK_TIMEOUT_MS

ASSUME ImpatientAssumption == Impatient \subseteq Call

vars == <<wants, holds, at>>

Points == {"idle", "acquire", "inside", "release"}

Init ==
  /\ wants = [c \in Call |-> {}]
  /\ holds = [c \in Call |-> {}]
  /\ at = [c \in Call |-> "idle"]

Goto(c, point) == at' = [at EXCEPT ![c] = point]

Free(t) == \A c \in Call : t \notin holds[c]

\* A nonempty set's last target in the sorted order.
IsLast(t, T) == t \in T /\ \A u \in T : Rank[u] <= Rank[t]

\* A call names its target and any compatibility targets.
Begin(c) ==
  /\ at[c] = "idle"
  /\ \E T \in (SUBSET Target) \ {{}} : wants' = [wants EXCEPT ![c] = T]
  /\ Goto(c, "acquire")
  /\ UNCHANGED holds

Acquire(c) ==
  /\ \E t \in Target :
       /\ NextUp(c, t) /\ Free(t)
       /\ holds' = [holds EXCEPT ![c] = @ \cup {t}]
  /\ UNCHANGED <<wants, at>>

\* Variation: one target is enough.
OperateEarly(c) ==
  /\ at[c] = "acquire"
  /\ holds[c] # {}
  /\ Goto(c, "inside")
  /\ UNCHANGED <<wants, holds>>

Operate(c) ==
  /\ at[c] = "acquire"
  /\ Missing(c) = {}
  /\ Goto(c, "inside")
  /\ UNCHANGED <<wants, holds>>

\* The operation returns or throws.
Finish(c) ==
  /\ at[c] = "inside"
  /\ Goto(c, "release")
  /\ UNCHANGED <<wants, holds>>

\* acquireFileTargetLock throws: what is locked already is released.
TimeOut(c) ==
  /\ c \in Impatient
  /\ at[c] = "acquire"
  /\ Missing(c) # {}
  /\ Goto(c, "release")
  /\ UNCHANGED <<wants, holds>>

Release(c) ==
  /\ at[c] = "release"
  /\ \E t \in Target :
       /\ IsLast(t, holds[c])
       /\ holds' = [holds EXCEPT ![c] = @ \ {t}]
  /\ UNCHANGED <<wants, at>>

Leave(c) ==
  /\ at[c] = "release"
  /\ holds[c] = {}
  /\ wants' = [wants EXCEPT ![c] = {}]
  /\ Goto(c, "idle")
  /\ UNCHANGED holds

Next ==
  \E c \in Call :
    Begin(c) \/ Acquire(c) \/ Operate(c) \/ Finish(c) \/ TimeOut(c) \/ Release(c) \/ Leave(c)

Spec == Init /\ [][Next]_vars

\* A handler that can go on does, its operation ends, and the single lock gives
\* every waiter a turn (Served and QueueKept of TargetLock), whence SF.
Fairness ==
  \A c \in Call :
    /\ SF_vars(Acquire(c))
    /\ WF_vars(Operate(c)) /\ WF_vars(Finish(c)) /\ WF_vars(Release(c)) /\ WF_vars(Leave(c))

FairSpec == Spec /\ Fairness

-------------------------------------------------------------------------------
\* The shape of the state.  A call holds only what it named.
TypeOK ==
  /\ wants \in [Call -> SUBSET Target]
  /\ holds \in [Call -> SUBSET Target]
  /\ \A c \in Call : holds[c] \subseteq wants[c]
  /\ at \in [Call -> Points]

\* A call that does not run out of time gets to run its operation, whatever the
\* others hold and in whatever order they name their targets.
Served == \A c \in Call \ Impatient : at[c] = "acquire" ~> at[c] = "inside"
===============================================================================
