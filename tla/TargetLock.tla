------------------------------ MODULE TargetLock ------------------------------
(***************************************************************************)
(* The critical section of one business target in the file backend:        *)
(* shared-core/src/target-critical-section.ts, acquireFileTargetLock.      *)
(*                                                                         *)
(* A request publishes a numbered ticket in the target's queue directory   *)
(* and polls until its ticket is the first active one.  That leader takes  *)
(* the lock path too, which is all that older releases of the program know *)
(* of.  A ticket ends when its released- marker appears; it, or a lock     *)
(* file, may be cleared for a dead owner, but only when its lease has      *)
(* expired and the operating system proves that the owner is gone.         *)
(*                                                                         *)
(* The clients are requests; several share a process and die with it.      *)
(* Each request runs once, so it stands for its own token.                 *)
(***************************************************************************)
EXTENDS Naturals, FiniteSets

CONSTANTS
  Req,            \* requests of this release
  Older,          \* requests served by an older release, on the lock path only
  Proc,           \* operating-system processes
  ProcOf,         \* the process that serves a request
  HostOf,         \* the host a process runs on
  None,
  MaxTickets,     \* MAX_TARGET_LOCK_TICKETS
  MaxSequence,    \* the largest ticket number (twelve digits)
  Mortal,         \* bound: the processes that may die
  Masked,         \* processes without a fingerprint whose pid is in use again
  Hasty,          \* bound: the requests whose ten seconds may pass
  DiskFaults      \* whether a file may fail to be written, or to be removed

Client == Req \cup Older
Sequence == 1 .. MaxSequence

\* Program points with a ticket in the queue, and those of the queue's leader.
LeaderPoints == {"tryLock", "inspect", "judge", "unlinkLock", "inside"}
QueuedPoints == LeaderPoints \cup {"poll", "dropTicket"}
Points == QueuedPoints \cup {"idle", "choose", "link", "done", "dead"}

ASSUME TargetLockAssumption ==
  /\ MaxTickets \in Nat /\ MaxSequence \in Nat
  /\ ProcOf \in [Client -> Proc]
  /\ Mortal \subseteq Proc /\ Masked \subseteq Proc
  /\ Hasty \subseteq Req /\ DiskFaults \in BOOLEAN
  /\ Req \cap Older = {} /\ None \notin Client

VARIABLES
  tickets,        \* whose ticket-<n>.json exists
  released,       \* the n for which released-<n> exists
  agedTickets,    \* tickets whose mtime is 30 s past
  lock,           \* whose file is at the lock path
  agedLock,       \* its mtime is 30 s past
  pc,
  number,         \* the ticket number a request chose, then owns
  seen,           \* the owner a request last read from the lock path
  alive,          \* the running processes
  reused          \* history: a ticket was removed, so its number may be given again

queue == <<tickets, released, agedTickets>>
path  == <<lock, agedLock>>
local == <<pc, number, seen>>
vars  == <<queue, path, local, alive, reused>>

-------------------------------------------------------------------------------
Running(r) == ProcOf[r] \in alive

\* fileTargetOwnerIsCurrentIncarnation, asked by r about owner, is false: same
\* host, and the pid is free or carries another fingerprint.
ProvenGone(r, owner) ==
  /\ HostOf[ProcOf[owner]] = HostOf[ProcOf[r]]
  /\ ~Running(owner)
  /\ ProcOf[owner] \notin Masked

\* Variations: a lease that has expired is enough, or never is.
ClearableExpired(r, n) == n \in agedTickets
ClearableNever(r, n) == FALSE

\* A ticket that r must clear: expired, and its owner proven gone.
Clearable(r, n) == n \in agedTickets /\ ProvenGone(r, tickets[n])

\* fileTargetTicketIsActive, apart from the marker it may write.
Active(r, n) == n \notin released /\ tickets[n] # None /\ ~Clearable(r, n)

ActiveTickets(r) == {n \in Sequence : Active(r, n)}

\* The markers written while r asks about the tickets in ns.
Cleared(r, ns) == {n \in ns : n \notin released /\ tickets[n] # None /\ Clearable(r, n)}

First(ns, n) == n \in ns /\ \A m \in ns : n <= m

\* Tickets up to and including the first active one: those a scan looks at.
Scanned(r) == {n \in Sequence : \A m \in ActiveTickets(r) : n <= m}

Goto(r, point) == pc' = [pc EXCEPT ![r] = point]

Init ==
  /\ tickets = [n \in Sequence |-> None] /\ released = {} /\ agedTickets = {}
  /\ lock = None /\ agedLock = FALSE
  /\ pc = [r \in Client |-> "idle"]
  /\ number = [r \in Req |-> 0]
  /\ seen = [r \in Req |-> None]
  /\ alive = Proc /\ reused = FALSE

-------------------------------------------------------------------------------
(* Joining the queue: allocateFileTargetTicket *)

Begin(r) ==
  /\ pc[r] = "idle"
  /\ Goto(r, "choose")
  /\ UNCHANGED <<queue, path, number, seen, alive, reused>>

\* List the tickets, count the active ones, take the number after the last.
ChooseNumber(r) ==
  LET existing == {n \in Sequence : tickets[n] # None}
      next     == CHOOSE n \in 1 .. MaxSequence + 1 : First({m \in 1 .. MaxSequence + 1 :
                                                               \A e \in existing : e < m}, n)
  IN  /\ pc[r] = "choose"
      /\ released' = released \cup Cleared(r, existing)
      /\ IF Cardinality(ActiveTickets(r)) >= MaxTickets \/ next > MaxSequence
         THEN Goto(r, "done") /\ UNCHANGED number        \* queue full, exhausted
         ELSE Goto(r, "link") /\ number' = [number EXCEPT ![r] = next]
      /\ UNCHANGED <<tickets, agedTickets, path, seen, alive, reused>>

\* Publish the ticket under that number, or look again if somebody else has.
LinkTicket(r) ==
  /\ pc[r] = "link"
  /\ IF tickets[number[r]] = None
     THEN tickets' = [tickets EXCEPT ![number[r]] = r] /\ Goto(r, "poll")
     ELSE UNCHANGED tickets /\ Goto(r, "choose")
  /\ UNCHANGED <<released, agedTickets, path, number, seen, alive, reused>>

\* Variation: an active ticket is enough, it need not be the first.
PollAny(r) ==
  /\ pc[r] = "poll"
  /\ released' = released \cup Cleared(r, Scanned(r))
  /\ Goto(r, IF Active(r, number[r]) THEN "tryLock" ELSE "poll")
  /\ UNCHANGED <<tickets, agedTickets, path, number, seen, alive, reused>>

\* Look for the first active ticket.  The cached blockingSequence only saves
\* work: while that ticket is active no later one is the first.
Poll(r) ==
  /\ pc[r] = "poll"
  /\ released' = released \cup Cleared(r, Scanned(r))
  /\ Goto(r, IF First(ActiveTickets(r), number[r]) THEN "tryLock" ELSE "poll")
  /\ UNCHANGED <<tickets, agedTickets, path, number, seen, alive, reused>>

-------------------------------------------------------------------------------
(* The leader takes the lock path: acquireLegacyFileTargetLock *)

\* Variation: rename, which replaces what is there, where the code has link.
LinkLockByRename(r) ==
  /\ pc[r] = "tryLock"
  /\ lock' = r /\ agedLock' = FALSE /\ Goto(r, "inside")
  /\ UNCHANGED <<queue, number, seen, alive, reused>>

LinkLock(r) ==
  /\ pc[r] = "tryLock"
  /\ IF lock = None
     THEN lock' = r /\ agedLock' = FALSE /\ Goto(r, "inside")
     ELSE UNCHANGED path /\ Goto(r, "inspect")
  /\ UNCHANGED <<queue, number, seen, alive, reused>>

\* It throws: the candidate could not be written, or it could not be removed
\* after the link.  Then the lock path stays, owned by nobody who will leave.
LinkLockFails(r) ==
  /\ DiskFaults /\ pc[r] = "tryLock"
  /\ \/ UNCHANGED path
     \/ lock = None /\ lock' = r /\ agedLock' = FALSE
  /\ Goto(r, "dropTicket")
  /\ UNCHANGED <<queue, number, seen, alive, reused>>

\* waitForLegacyFileTargetLock: gone, or whose is it ...
InspectLock(r) ==
  /\ pc[r] = "inspect"
  /\ seen' = [seen EXCEPT ![r] = lock]
  /\ Goto(r, IF lock = None THEN "tryLock" ELSE "judge")
  /\ UNCHANGED <<queue, path, number, alive, reused>>

\* Variation: the age of the file is enough.
JudgeLockByAge(r) ==
  /\ pc[r] = "judge"
  /\ Goto(r, IF agedLock THEN "unlinkLock" ELSE "inspect")
  /\ UNCHANGED <<queue, path, number, seen, alive, reused>>

\* ... and has its lease expired, and its owner ended?  An older release writes
\* no lease; its file is a fence for as long as it exists.
JudgeLock(r) ==
  /\ pc[r] = "judge"
  /\ Goto(r, IF seen[r] \in Req /\ agedLock /\ ProvenGone(r, seen[r])
             THEN "unlinkLock" ELSE "inspect")
  /\ UNCHANGED <<queue, path, number, seen, alive, reused>>

UnlinkLock(r) ==
  /\ pc[r] = "unlinkLock"
  /\ lock' = None /\ agedLock' = FALSE
  /\ Goto(r, "inspect")
  /\ UNCHANGED <<queue, number, seen, alive, reused>>

-------------------------------------------------------------------------------
(* Inside, and out again *)

\* The lease of the ticket and of the lock path is refreshed every five seconds.
Heartbeat(r) ==
  /\ pc[r] = "inside"
  /\ agedLock' = FALSE
  /\ agedTickets' = agedTickets \ {number[r]}
  /\ UNCHANGED <<tickets, released, lock, local, alive, reused>>

\* The operation has ended.  The lock path is removed if it still carries our
\* token; nobody else can have replaced it between that read and the unlink.
Unlock(r) ==
  /\ pc[r] = "inside"
  /\ IF lock = r THEN lock' = None /\ agedLock' = FALSE ELSE UNCHANGED path
  /\ Goto(r, "dropTicket")
  /\ UNCHANGED <<queue, number, seen, alive, reused>>

\* The lock path cannot be read or removed; the ticket is dropped all the same.
UnlockFails(r) ==
  /\ DiskFaults /\ pc[r] = "inside"
  /\ Goto(r, "dropTicket")
  /\ UNCHANGED <<queue, path, number, seen, alive, reused>>

\* releaseFileTargetTicket
DropTicket(r) ==
  /\ pc[r] = "dropTicket"
  /\ released' = released \cup {number[r]}
  /\ Goto(r, "done")
  /\ UNCHANGED <<tickets, agedTickets, path, number, seen, alive, reused>>

\* Three attempts to create the marker fail: the ticket itself is removed ...
DropTicketFallsBack(r) ==
  /\ DiskFaults /\ pc[r] = "dropTicket"
  /\ tickets' = [tickets EXCEPT ![number[r]] = None]
  /\ agedTickets' = agedTickets \ {number[r]}
  /\ Goto(r, "done")
  /\ reused' = TRUE
  /\ UNCHANGED <<released, path, number, seen, alive>>

\* ... or cannot be, and stays active for as long as the process lives.
DropTicketFails(r) ==
  /\ DiskFaults /\ pc[r] = "dropTicket"
  /\ Goto(r, "done")
  /\ UNCHANGED <<queue, path, number, seen, alive, reused>>

\* The deadline passes while polling, or while waiting for the lock path.
TimeOut(r) ==
  /\ r \in Hasty /\ pc[r] \in {"poll", "inspect"}
  /\ Goto(r, "dropTicket")
  /\ UNCHANGED <<queue, path, number, seen, alive, reused>>

-------------------------------------------------------------------------------
(* The world around: older releases, time, and death *)

OlderEnter(o) ==
  /\ pc[o] = "idle" /\ lock = None
  /\ lock' = o /\ agedLock' = FALSE
  /\ Goto(o, "inside")
  /\ UNCHANGED <<queue, number, seen, alive, reused>>

OlderLeave(o) ==
  /\ pc[o] = "inside"
  /\ lock' = None /\ agedLock' = FALSE
  /\ Goto(o, "done")
  /\ UNCHANGED <<queue, number, seen, alive, reused>>

\* 30 s pass without a refresh: the owner is dead, waits without a heartbeat, or
\* its event loop is busy.
AgeTicket(n) ==
  /\ tickets[n] # None /\ n \notin released
  /\ agedTickets' = agedTickets \cup {n}
  /\ UNCHANGED <<tickets, released, path, local, alive, reused>>

AgeLock ==
  /\ lock # None /\ agedLock' = TRUE
  /\ UNCHANGED <<queue, lock, local, alive, reused>>

Die(p) ==
  /\ p \in alive \cap Mortal
  /\ alive' = alive \ {p}
  /\ pc' = [c \in Client |-> IF ProcOf[c] = p /\ pc[c] # "done" THEN "dead" ELSE pc[c]]
  /\ UNCHANGED <<queue, path, number, seen, reused>>

Step(r) ==
  \/ ChooseNumber(r) \/ LinkTicket(r) \/ Poll(r)
  \/ LinkLock(r) \/ InspectLock(r) \/ JudgeLock(r) \/ UnlinkLock(r)
  \/ Unlock(r) \/ DropTicket(r)

Next ==
  \/ \E r \in Req : \/ Begin(r) \/ Step(r) \/ Heartbeat(r) \/ TimeOut(r)
                    \/ LinkLockFails(r) \/ UnlockFails(r)
                    \/ DropTicketFallsBack(r) \/ DropTicketFails(r)
  \/ \E o \in Older : OlderEnter(o) \/ OlderLeave(o)
  \/ \E n \in Sequence : AgeTicket(n)
  \/ AgeLock
  \/ \E p \in Proc : Die(p)

Spec == Init /\ [][Next]_vars

\* Timers and event loops run, leases of the dead expire, older requests end.
FairSpec ==
  /\ Spec
  /\ \A r \in Req : WF_vars(Step(r))
  /\ \A o \in Older : WF_vars(OlderLeave(o))
  /\ \A n \in Sequence : WF_vars(tickets[n] \in Client /\ ~Running(tickets[n]) /\ AgeTicket(n))
  /\ WF_vars(lock \in Client /\ ~Running(lock) /\ AgeLock)

-------------------------------------------------------------------------------
TypeOK ==
  /\ tickets \in [Sequence -> Req \cup {None}]
  /\ released \subseteq Sequence /\ agedTickets \subseteq Sequence
  /\ lock \in Client \cup {None} /\ agedLock \in BOOLEAN
  /\ pc \in [Client -> Points]
  /\ number \in [Req -> 0 .. MaxSequence]
  /\ seen \in [Req -> Client \cup {None}]
  /\ alive \subseteq Proc

Inside == {c \in Client : pc[c] = "inside"}

\* No ticket was removed, or nobody has died since the start: removing a ticket
\* lets its number be given again, which admits a second leader, and two leaders
\* must not meet over the lock path of a dead owner.
Intact == ~reused \/ alive = Proc

\* One request, of whichever release, works on the target at a time.
MutualExclusion == Intact => \A c, d \in Inside : c = d

SecondLeader ==
  \E r, s \in Req : r # s /\ pc[r] \in LeaderPoints /\ pc[s] \in LeaderPoints

\* "Only the canonical queue leader may inspect or reclaim the legacy path": there is no
\* second leader while every ticket that ended has its marker.
OneLeaderWhileMarked == reused \/ ~SecondLeader

\* The lock path is cleared for a dead owner only; a live one's lease may look
\* expired, but its file is never the one that goes.
NoLiveEviction ==
  Intact => \A r \in Req : pc[r] = "unlinkLock" => lock = None \/ ~Running(lock)

\* The queue is kept: nobody leads past an earlier ticket that is waiting, and its
\* limit is exact although the count and the link are two steps (two requests
\* that saw the last free place compete for one ticket number).
QueueKept ==
  ~reused =>
    /\ \A r, s \in Req : pc[r] \in LeaderPoints /\ pc[s] = "poll" => number[r] < number[s]
    /\ Cardinality({r \in Req : pc[r] \in QueuedPoints}) <= MaxTickets

\* A file remains that nobody may clear: its owner lives on after an error, or
\* is dead and looks alive.
Stuck ==
  \E r \in Req :
     /\ IF Running(r) THEN pc[r] = "done" ELSE ProcOf[r] \in Masked
     /\ lock = r \/ \E n \in Sequence \ released : tickets[n] = r

\* A request that waits gets in, although the one before it died holding both
\* its ticket and the lock path.
Served ==
  \A r \in Req : pc[r] = "choose" ~> Stuck \/ pc[r] \in {"inside", "done", "dead"}

===============================================================================
