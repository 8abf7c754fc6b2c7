--------------------------- MODULE TargetLockProofs ---------------------------
(***************************************************************************)
(* Proofs about TargetLock, for any requests, processes and hosts, and for *)
(* any limits: the queue has one leader and never more tickets than its    *)
(* limit, the lock path is taken from nobody who lives, and one request    *)
(* works on the target at a time.                                          *)
(*                                                                         *)
(* Then about OrderedLocks, which takes such locks for several targets:    *)
(* operations that share a target do not overlap, and no set of calls      *)
(* waits in a circle.                                                      *)
(***************************************************************************)
EXTENDS TargetLock, LockOrder, FiniteSetTheorems, WellFoundedInduction, TLAPS

\* A request has its ticket in the queue.
Queued(r) == pc[r] \in QueuedPoints

\* Tickets that exist and have not ended.
Open == {n \in Sequence : tickets[n] # None /\ n \notin released}

NumbersChosen ==
  \A r \in Req : pc[r] \in QueuedPoints \cup {"link"} => number[r] \in Sequence

LivingRun == \A c \in Client : pc[c] \notin {"done", "dead"} => Running(c)

\* Files of the queue, as long as no ticket was removed: a request in the queue
\* has its ticket, only a ticket has a marker, and tickets have no gaps.
TicketsOwned == \A r \in Req : Queued(r) => tickets[number[r]] = r /\ number[r] \notin released
MarkersOnTickets == \A n \in released : tickets[n] # None
NoGaps == \A n \in Sequence : tickets[n] # None => \A m \in Sequence : m < n => tickets[m] # None

\* A request that has chosen a number: every ticket before it exists, and while
\* it is free the queue has a place.
ChosenIsNext ==
  \A r \in Req : pc[r] = "link" =>
    /\ \A m \in Sequence : m < number[r] => tickets[m] # None
    /\ tickets[number[r]] = None => Cardinality(Open) < MaxTickets

\* What a leader has seen of the tickets before its own stays true.
LeadersAreFirst ==
  \A r \in Req : pc[r] \in LeaderPoints =>
    \A m \in Sequence : m < number[r] => m \in released

WithinLimit == Cardinality(Open) <= MaxTickets

\* A leader that waits for a request's lock file finds it until it leaves.
SeenStays ==
  \A r \in Req : pc[r] \in {"judge", "unlinkLock"} /\ seen[r] \in Req => lock = seen[r]

\* The lock path is cleared for a request whose process was seen dead.
JudgedGone == \A r \in Req : pc[r] = "unlinkLock" => seen[r] \in Req /\ ~Running(seen[r])

InsideHoldsPath == \A c \in Client : pc[c] = "inside" => lock = c

QueueInv ==
  /\ TicketsOwned /\ MarkersOnTickets /\ NoGaps
  /\ ChosenIsNext /\ LeadersAreFirst /\ WithinLimit

\* The inductive invariant: the queue while no ticket was removed, the lock path
\* also afterwards as long as nobody has died.
Shape == TypeOK /\ NumbersChosen /\ reused \in BOOLEAN
Life == LivingRun /\ JudgedGone
PathInv == /\ ~reused => QueueInv /\ SeenStays
           /\ Intact => InsideHoldsPath

IInv == Shape /\ Life /\ PathInv

-------------------------------------------------------------------------------
(* Numbers, and the number a request chooses *)

\* A nonempty set of naturals has a least element.
LEMMA Least ==
  ASSUME NEW A \in SUBSET Nat, A # {}
  PROVE  \E m \in A : \A n \in A : m <= n
<1> DEFINE R == OpToRel(<, Nat)
<1>1. IsWellFoundedOn(R, Nat)
  BY NatLessThanWellFounded
<1>2. PICK m \in A : \A n \in A : <<n, m>> \notin R
  <2> HIDE DEF R
  <2> QED BY <1>1, WFMin
<1>3. \A n \in A : ~(n < m)
  BY <1>2 DEF OpToRel
<1>4. QED
  BY <1>3

\* The number after the last ticket: no ticket has it, and each smaller number
\* has a ticket at it or after it.
LEMMA NextNumber ==
  ASSUME NEW E \in SUBSET Sequence,
         NEW next,
         next = CHOOSE n \in 1 .. MaxSequence + 1 :
                  First({m \in 1 .. MaxSequence + 1 : \A e \in E : e < m}, n)
  PROVE  /\ next \in 1 .. MaxSequence + 1
         /\ \A e \in E : e < next
         /\ \A m \in Sequence : m < next => \E e \in E : m <= e
<1> DEFINE A == {m \in 1 .. MaxSequence + 1 : \A e \in E : e < m}
<1>0. MaxSequence \in Nat
  BY TargetLockAssumption
<1>1. MaxSequence + 1 \in A /\ A \in SUBSET Nat
  BY <1>0 DEF Sequence
<1>2. PICK m \in A : First(A, m)
  <2> HIDE DEF A
  <2> QED BY <1>1, Least DEF First
<1>3. m \in 1 .. MaxSequence + 1
  OBVIOUS
<1>4. next \in 1 .. MaxSequence + 1 /\ First(A, next)
  <2> HIDE DEF A
  <2>1. next = CHOOSE n \in 1 .. MaxSequence + 1 : First(A, n)
    BY DEF A
  <2> QED BY <2>1, <1>2, <1>3
<1>5. next \in A /\ \A n \in A : next <= n
  <2> HIDE DEF A
  <2> QED BY <1>4 DEF First
<1>6. ASSUME NEW n \in Sequence, n < next, ~ \E e \in E : n <= e PROVE FALSE
  <2>1. \A e \in E : e < n
    BY <1>0, <1>6 DEF Sequence
  <2>2. n \in A
    BY <2>1, <1>0 DEF Sequence
  <2>3. next <= n
    BY <1>5, <2>2
  <2> QED BY <2>3, <1>4, <1>6, <1>0 DEF Sequence
<1>7. QED
  BY <1>4, <1>5, <1>6

\* ChooseNumber gives up, or takes that number while the queue has a place.
LEMMA ChooseCases ==
  ASSUME NEW r \in Req, ChooseNumber(r)
  PROVE  \/ pc' = [pc EXCEPT ![r] = "done"] /\ number' = number
         \/ /\ ~(Cardinality(ActiveTickets(r)) >= MaxTickets)
            /\ \E next \in Sequence :
                 /\ pc' = [pc EXCEPT ![r] = "link"]
                 /\ number' = [number EXCEPT ![r] = next]
                 /\ \A e \in Sequence : tickets[e] # None => e < next
                 /\ \A m \in Sequence : m < next => \E e \in Sequence : tickets[e] # None /\ m <= e
<1> DEFINE existing == {n \in Sequence : tickets[n] # None}
           next == CHOOSE n \in 1 .. MaxSequence + 1 :
                     First({m \in 1 .. MaxSequence + 1 : \A e \in existing : e < m}, n)
<1>1. IF Cardinality(ActiveTickets(r)) >= MaxTickets \/ next > MaxSequence
      THEN Goto(r, "done") /\ UNCHANGED number
      ELSE Goto(r, "link") /\ number' = [number EXCEPT ![r] = next]
  BY Zenon DEF ChooseNumber
<1>2. /\ next \in 1 .. MaxSequence + 1
      /\ \A e \in existing : e < next
      /\ \A m \in Sequence : m < next => \E e \in existing : m <= e
  <2>1. existing \in SUBSET Sequence
    OBVIOUS
  <2> QED BY <2>1, NextNumber
<1>3. next > MaxSequence \/ next \in Sequence
  <2> HIDE DEF next
  <2> QED BY <1>2, TargetLockAssumption DEF Sequence
<1> HIDE DEF next
<1>4. CASE Cardinality(ActiveTickets(r)) >= MaxTickets \/ next > MaxSequence
  BY <1>1, <1>4 DEF Goto
<1>5. CASE ~(Cardinality(ActiveTickets(r)) >= MaxTickets \/ next > MaxSequence)
  BY <1>1, <1>2, <1>3, <1>5 DEF Goto
<1>6. QED
  BY <1>4, <1>5

-------------------------------------------------------------------------------
(* Types, processes, and what never goes back *)

\* A step neither revives a process nor forgets that a ticket was removed.
LEMMA NoWayBack ==
  ASSUME [Next]_vars PROVE alive' \subseteq alive /\ (reused => reused')
<1>1. ASSUME NEW r \in Req,
             Begin(r) \/ Step(r) \/ Heartbeat(r) \/ TimeOut(r) \/ LinkLockFails(r)
             \/ UnlockFails(r) \/ DropTicketFallsBack(r) \/ DropTicketFails(r)
      PROVE  alive' = alive /\ (reused => reused')
  BY <1>1 DEF Step, Begin, ChooseNumber, LinkTicket, Poll, LinkLock, LinkLockFails, InspectLock,
     JudgeLock, UnlinkLock, Heartbeat, Unlock, UnlockFails, DropTicket, DropTicketFallsBack,
     DropTicketFails, TimeOut
<1>2. ASSUME NEW o \in Older, OlderEnter(o) \/ OlderLeave(o) PROVE alive' = alive /\ reused' = reused
  BY <1>2 DEF OlderEnter, OlderLeave
<1>3. ASSUME NEW n \in Sequence, AgeTicket(n) PROVE alive' = alive /\ reused' = reused
  BY <1>3 DEF AgeTicket
<1>4. ASSUME NEW p \in Proc, Die(p) PROVE alive' \subseteq alive /\ reused' = reused
  BY <1>4 DEF Die
<1>5. QED
  BY <1>1, <1>2, <1>3, <1>4 DEF Next, AgeLock, vars

\* The shape is kept: a number that is taken is a ticket's.
LEMMA ShapeStep == Shape /\ [Next]_vars => Shape'
<1> SUFFICES ASSUME Shape, [Next]_vars PROVE Shape'
  OBVIOUS
<1> USE TargetLockAssumption
    DEF Shape, TypeOK, NumbersChosen, Client, Points, QueuedPoints, LeaderPoints, Goto,
        queue, path, local
<1>1. ASSUME NEW r \in Req, ChooseNumber(r) PROVE Shape'
  <2>1. released' \subseteq Sequence
    BY <1>1 DEF ChooseNumber, Cleared
  <2>2. UNCHANGED <<tickets, agedTickets, lock, agedLock, seen, alive, reused>>
    BY <1>1 DEF ChooseNumber
  <2>3. \/ pc' = [pc EXCEPT ![r] = "done"] /\ number' = number
        \/ \E next \in Sequence : /\ pc' = [pc EXCEPT ![r] = "link"]
                                  /\ number' = [number EXCEPT ![r] = next]
    BY <1>1, ChooseCases
  <2>4. \A n \in Sequence : n \in 0 .. MaxSequence
    BY DEF Sequence
  <2> QED BY <2>1, <2>2, <2>3, <2>4
<1>2. ASSUME NEW r \in Req, LinkTicket(r) PROVE Shape'
  BY <1>2 DEF LinkTicket
<1>3. ASSUME NEW r \in Req, Poll(r) PROVE Shape'
  BY <1>3 DEF Poll, Cleared, Scanned
<1>4. ASSUME NEW r \in Req, \/ Begin(r) \/ LinkLock(r) \/ LinkLockFails(r) PROVE Shape'
  BY <1>4 DEF Begin, LinkLock, LinkLockFails
<1>5. ASSUME NEW r \in Req, InspectLock(r) \/ JudgeLock(r) \/ UnlinkLock(r) PROVE Shape'
  <2>1. CASE InspectLock(r)
    BY <2>1 DEF InspectLock
  <2>2. CASE JudgeLock(r)
    BY <2>2 DEF JudgeLock
  <2>3. CASE UnlinkLock(r)
    BY <2>3 DEF UnlinkLock
  <2> QED BY <1>5, <2>1, <2>2, <2>3
<1>6. ASSUME NEW r \in Req, Heartbeat(r) \/ Unlock(r) \/ UnlockFails(r) \/ TimeOut(r) PROVE Shape'
  BY <1>6 DEF Heartbeat, Unlock, UnlockFails, TimeOut
<1>7. ASSUME NEW r \in Req, DropTicket(r) \/ DropTicketFallsBack(r) \/ DropTicketFails(r) PROVE Shape'
  BY <1>7 DEF DropTicket, DropTicketFallsBack, DropTicketFails
<1>8. ASSUME NEW o \in Older, OlderEnter(o) \/ OlderLeave(o) PROVE Shape'
  BY <1>8 DEF OlderEnter, OlderLeave
<1>9. ASSUME NEW n \in Sequence, AgeTicket(n) PROVE Shape'
  BY <1>9 DEF AgeTicket
<1>10. ASSUME AgeLock PROVE Shape'
  BY <1>10 DEF AgeLock
<1>11. ASSUME NEW p \in Proc, Die(p) PROVE Shape'
  BY <1>11 DEF Die
<1>12. CASE UNCHANGED vars
  BY <1>12 DEF vars
<1>13. QED
  BY <1>1, <1>2, <1>3, <1>4, <1>5, <1>6, <1>7, <1>8, <1>9, <1>10, <1>11, <1>12 DEF Next, Step

\* Who has neither left nor died is served by a running process.
LEMMA LifeStep == Shape /\ Life /\ [Next]_vars => Life'
<1> SUFFICES ASSUME Shape, Life, [Next]_vars PROVE Life'
  OBVIOUS
<1> USE TargetLockAssumption
    DEF Shape, TypeOK, Life, LivingRun, JudgedGone, Client, Running, Goto, queue, path, local
<1>1. ASSUME NEW r \in Req, Begin(r) \/ ChooseNumber(r) \/ LinkTicket(r) \/ Poll(r) PROVE Life'
  BY <1>1 DEF Begin, ChooseNumber, LinkTicket, Poll
<1>2. ASSUME NEW r \in Req, LinkLock(r) \/ LinkLockFails(r) PROVE Life'
  BY <1>2 DEF LinkLock, LinkLockFails
<1>3. ASSUME NEW r \in Req, InspectLock(r) \/ UnlinkLock(r) PROVE Life'
  BY <1>3 DEF InspectLock, UnlinkLock
<1>4. ASSUME NEW r \in Req, JudgeLock(r) PROVE Life'
  BY <1>4 DEF JudgeLock, ProvenGone
<1>5. ASSUME NEW r \in Req, Heartbeat(r) \/ Unlock(r) \/ UnlockFails(r) \/ TimeOut(r) PROVE Life'
  BY <1>5 DEF Heartbeat, Unlock, UnlockFails, TimeOut
<1>6. ASSUME NEW r \in Req, DropTicket(r) \/ DropTicketFallsBack(r) \/ DropTicketFails(r) PROVE Life'
  BY <1>6 DEF DropTicket, DropTicketFallsBack, DropTicketFails
<1>7. ASSUME NEW o \in Older, OlderEnter(o) \/ OlderLeave(o) PROVE Life'
  BY <1>7 DEF OlderEnter, OlderLeave
<1>8. ASSUME NEW n \in Sequence, AgeTicket(n) PROVE Life'
  BY <1>8 DEF AgeTicket
<1>9. ASSUME AgeLock PROVE Life'
  BY <1>9 DEF AgeLock
<1>10. ASSUME NEW p \in Proc, Die(p) PROVE Life'
  BY <1>10 DEF Die
<1>11. CASE UNCHANGED vars
  BY <1>11 DEF vars
<1>12. QED
  BY <1>1, <1>2, <1>3, <1>4, <1>5, <1>6, <1>7, <1>8, <1>9, <1>10, <1>11 DEF Next, Step

-------------------------------------------------------------------------------
(* The queue *)

LEMMA OpenFinite == IsFiniteSet(Open) /\ Cardinality(Open) \in Nat
<1>1. IsFiniteSet(Sequence)
  BY TargetLockAssumption, FS_Interval DEF Sequence
<1>2. IsFiniteSet(Open)
  BY <1>1, FS_Subset DEF Open
<1>3. QED
  BY <1>2, FS_CardinalityType

LEMMA OpenFiniteNext == IsFiniteSet(Open') /\ Cardinality(Open') \in Nat
<1>1. IsFiniteSet(Sequence)
  BY TargetLockAssumption, FS_Interval DEF Sequence
<1>2. IsFiniteSet(Open')
  BY <1>1, FS_Subset DEF Open
<1>3. QED
  BY <1>2, FS_CardinalityType

\* What ChosenIsNext and LeadersAreFirst say of one request.
ChosenIsNextFor(r) ==
  /\ \A m \in Sequence : m < number[r] => tickets[m] # None
  /\ tickets[number[r]] = None => Cardinality(Open) < MaxTickets

FirstFor(r) == \A m \in Sequence : m < number[r] => m \in released

\* A step that writes markers on tickets, and none on a ticket of the queue, keeps
\* the queue, if who chooses a number or leads has looked at the tickets.
LEMMA MarkStep ==
  ASSUME Shape, QueueInv, tickets' = tickets,
         released \subseteq released',
         \A n \in released' \ released : tickets[n] # None,
         \A s \in Req : pc'[s] \in QueuedPoints =>
           /\ pc[s] \in QueuedPoints /\ number'[s] = number[s]
           /\ number[s] \notin released',
         \A s \in Req : pc'[s] = "link" =>
           \/ pc[s] = "link" /\ number'[s] = number[s]
           \/ ChosenIsNextFor(s)',
         \A s \in Req : pc'[s] \in LeaderPoints =>
           \/ pc[s] \in LeaderPoints /\ number'[s] = number[s]
           \/ FirstFor(s)'
  PROVE  QueueInv'
<1>1. Open' \subseteq Open
  BY DEF Open
<1>2. Cardinality(Open') <= Cardinality(Open)
  BY <1>1, OpenFinite, FS_Subset
<1>3. TicketsOwned' /\ MarkersOnTickets' /\ NoGaps'
  BY DEF QueueInv, TicketsOwned, MarkersOnTickets, NoGaps, Queued
<1>4. ChosenIsNext'
  <2> SUFFICES ASSUME NEW s \in Req, pc'[s] = "link" PROVE ChosenIsNextFor(s)'
    BY DEF ChosenIsNext, ChosenIsNextFor
  <2>1. CASE pc[s] = "link" /\ number'[s] = number[s]
    <3>1. Cardinality(Open) < MaxTickets => Cardinality(Open') < MaxTickets
      BY <1>2, OpenFinite, OpenFiniteNext, TargetLockAssumption
    <3> QED BY <2>1, <3>1 DEF QueueInv, ChosenIsNext, ChosenIsNextFor
  <2> QED BY <2>1
<1>5. LeadersAreFirst'
  BY DEF QueueInv, LeadersAreFirst, FirstFor
<1>6. WithinLimit'
  BY <1>2, OpenFinite, OpenFiniteNext, TargetLockAssumption DEF QueueInv, WithinLimit
<1>7. QED
  BY <1>3, <1>4, <1>5, <1>6 DEF QueueInv

\* One client goes to another point.
LEMMA Moves ==
  ASSUME Shape, NEW r \in Client, NEW point, pc' = [pc EXCEPT ![r] = point]
  PROVE  pc'[r] = point /\ \A c \in Client : c # r => pc'[c] = pc[c]
BY DEF Shape, TypeOK

\* A step that leaves the files of the queue alone, and lets nobody into it.
LEMMA QuietStep ==
  ASSUME Shape, QueueInv, tickets' = tickets, released' = released, number' = number,
         \A s \in Req : pc'[s] \in QueuedPoints => pc[s] \in QueuedPoints,
         \A s \in Req : pc'[s] = "link" => pc[s] = "link",
         \A s \in Req : pc'[s] \in LeaderPoints => pc[s] \in LeaderPoints
  PROVE  QueueInv'
<1>1. \A s \in Req : pc'[s] \in QueuedPoints => number[s] \notin released
  BY DEF QueueInv, TicketsOwned, Queued
<1>2. QED
  BY <1>1, MarkStep

\* Who clears a ticket has seen its owner gone, so the owner is not queued.
LEMMA ClearedEnded ==
  ASSUME NEW r \in Req, NEW ns \in SUBSET Sequence, NEW n \in Cleared(r, ns)
  PROVE  n \in Sequence /\ tickets[n] # None /\ ~Running(tickets[n])
BY DEF Cleared, Clearable, ProvenGone

LEMMA QueuedUncleared ==
  ASSUME Shape, Life, QueueInv, NEW r \in Req, NEW ns \in SUBSET Sequence,
         NEW s \in Req, pc[s] \in QueuedPoints
  PROVE  number[s] \notin released \cup Cleared(r, ns)
<1>1. tickets[number[s]] = s /\ number[s] \notin released
  BY DEF QueueInv, TicketsOwned, Queued
<1>2. Running(s)
  BY DEF Life, LivingRun, QueuedPoints, LeaderPoints, Client
<1>3. QED
  BY <1>1, <1>2, ClearedEnded

\* After a look at all tickets, the open ones are those that were active.
LEMMA OpenAfterLook ==
  ASSUME NEW r \in Req, tickets' = tickets,
         released' = released \cup Cleared(r, {n \in Sequence : tickets[n] # None})
  PROVE  Open' = ActiveTickets(r)
BY DEF Open, ActiveTickets, Active, Cleared

LEMMA ChooseStep ==
  ASSUME Shape, Life, QueueInv, NEW r \in Req, ChooseNumber(r)
  PROVE  QueueInv'
<1> DEFINE E == {n \in Sequence : tickets[n] # None}
<1>1. /\ pc[r] = "choose" /\ tickets' = tickets
      /\ released' = released \cup Cleared(r, E)
  BY DEF ChooseNumber
<1>2. \A n \in released' \ released : tickets[n] # None
  BY <1>1 DEF Cleared
<1>3. \A s \in Req : pc[s] \in QueuedPoints => number[s] \notin released'
  BY <1>1, QueuedUncleared
<1>4. CASE pc' = [pc EXCEPT ![r] = "done"] /\ number' = number
  BY <1>1, <1>2, <1>3, <1>4, MarkStep
     DEF Shape, TypeOK, Client, QueuedPoints, LeaderPoints
<1>5. ASSUME ~(Cardinality(ActiveTickets(r)) >= MaxTickets),
             NEW next \in Sequence,
             pc' = [pc EXCEPT ![r] = "link"], number' = [number EXCEPT ![r] = next],
             \A m \in Sequence : m < next => \E e \in Sequence : tickets[e] # None /\ m <= e
      PROVE  QueueInv'
  <2>1. \A m \in Sequence : m < next => tickets[m] # None
    <3> SUFFICES ASSUME NEW m \in Sequence, m < next PROVE tickets[m] # None
      OBVIOUS
    <3>1. PICK e \in Sequence : tickets[e] # None /\ m <= e
      BY <1>5
    <3>2. m = e \/ m < e
      BY <3>1, TargetLockAssumption DEF Sequence
    <3> QED BY <3>1, <3>2 DEF QueueInv, NoGaps
  <2>2. Cardinality(Open') < MaxTickets
    <3>1. Open' = ActiveTickets(r)
      BY <1>1, OpenAfterLook
    <3> QED BY <1>5, <3>1, OpenFiniteNext, TargetLockAssumption
  <2>3. number'[r] = next
    BY <1>5 DEF Shape, TypeOK
  <2>4. ChosenIsNextFor(r)'
    BY <1>1, <2>1, <2>2, <2>3 DEF ChosenIsNextFor
  <2>5. \A s \in Req : s # r => pc'[s] = pc[s] /\ number'[s] = number[s]
    BY <1>5 DEF Shape, TypeOK, Client
  <2>6. pc'[r] = "link"
    BY <1>5 DEF Shape, TypeOK, Client
  <2>7. \A s \in Req : pc'[s] \in QueuedPoints => pc[s] \in QueuedPoints /\ number'[s] = number[s]
    BY <2>5, <2>6 DEF QueuedPoints, LeaderPoints
  <2>8. \A s \in Req : pc'[s] \in LeaderPoints => pc[s] \in LeaderPoints /\ number'[s] = number[s]
    BY <2>5, <2>6 DEF LeaderPoints
  <2> QED BY <1>1, <1>2, <1>3, <2>4, <2>5, <2>7, <2>8, MarkStep
<1>6. QED
  BY <1>4, <1>5, ChooseCases

LEMMA PollStep ==
  ASSUME Shape, Life, QueueInv, NEW r \in Req, Poll(r)
  PROVE  QueueInv'
<1>1. /\ pc[r] = "poll" /\ tickets' = tickets /\ number' = number
      /\ released' = released \cup Cleared(r, Scanned(r))
      /\ \A s \in Req : s # r => pc'[s] = pc[s]
      /\ pc'[r] = IF First(ActiveTickets(r), number[r]) THEN "tryLock" ELSE "poll"
  BY DEF Poll, Goto, Shape, TypeOK, Client
<1>2. Scanned(r) \in SUBSET Sequence
  BY DEF Scanned
<1>3. \A n \in released' \ released : tickets[n] # None
  BY <1>1 DEF Cleared
<1>4. \A s \in Req : pc'[s] \in QueuedPoints => pc[s] \in QueuedPoints /\ number[s] \notin released'
  BY <1>1, <1>2, QueuedUncleared DEF QueuedPoints
<1>5. CASE ~First(ActiveTickets(r), number[r])
  BY <1>1, <1>3, <1>4, <1>5, MarkStep DEF LeaderPoints
<1>6. CASE First(ActiveTickets(r), number[r])
  <2>1. number[r] \in Sequence
    BY <1>1 DEF Shape, NumbersChosen, QueuedPoints
  <2>2. ASSUME NEW m \in Sequence, m < number[r] PROVE m \in released'
    <3>1. ~Active(r, m)
      BY <1>6, <2>1, <2>2, TargetLockAssumption DEF First, ActiveTickets, Sequence
    <3>2. tickets[m] # None
      BY <1>1, <2>1, <2>2, TargetLockAssumption
         DEF QueueInv, TicketsOwned, NoGaps, Queued, QueuedPoints, Client
    <3>3. m \in Scanned(r)
      <4>1. \A n \in ActiveTickets(r) : n \in Nat /\ number[r] <= n
        BY <1>6 DEF First, ActiveTickets, Sequence
      <4> QED BY <2>1, <2>2, <4>1, TargetLockAssumption DEF Scanned, Sequence
    <3> QED BY <1>1, <3>1, <3>2, <3>3 DEF Active, Cleared
  <2>3. FirstFor(r)'
    BY <1>1, <2>2 DEF FirstFor
  <2> QED BY <1>1, <1>3, <1>4, <1>6, <2>3, MarkStep
<1>7. QED
  BY <1>5, <1>6

\* Publishing takes the one number after the last ticket: nobody else who chose
\* has a free number too, so the place that the request counted is still there.
LEMMA LinkStep ==
  ASSUME Shape, QueueInv, NEW r \in Req, LinkTicket(r)
  PROVE  QueueInv'
<1>1. pc[r] = "link" /\ number[r] \in Sequence /\ released' = released /\ number' = number
  BY DEF LinkTicket, Shape, NumbersChosen
<1>2. CASE tickets[number[r]] # None
  <2>1. tickets' = tickets /\ pc' = [pc EXCEPT ![r] = "choose"]
    BY <1>2 DEF LinkTicket, Goto
  <2>2. \A s \in Req : pc'[s] = pc[s] \/ pc'[s] = "choose"
    BY <2>1 DEF Shape, TypeOK, Client
  <2> QED BY <1>1, <2>1, <2>2, QuietStep DEF QueuedPoints, LeaderPoints
<1>3. CASE tickets[number[r]] = None
  <2>1. tickets' = [tickets EXCEPT ![number[r]] = r] /\ pc' = [pc EXCEPT ![r] = "poll"]
    BY <1>3 DEF LinkTicket, Goto
  <2>2. \A s \in Req : pc'[s] = IF s = r THEN "poll" ELSE pc[s]
    BY <2>1 DEF Shape, TypeOK, Client
  <2>3. \A n \in Sequence : tickets'[n] = IF n = number[r] THEN r ELSE tickets[n]
    BY <2>1, <1>1 DEF Shape, TypeOK
  <2>4. r # None /\ number[r] \notin released
    BY <1>3, TargetLockAssumption DEF QueueInv, MarkersOnTickets, Client
  <2>5. \A s \in Req : pc[s] \in QueuedPoints => number[s] # number[r] /\ number[s] \in Sequence
    BY <1>3, TargetLockAssumption DEF QueueInv, TicketsOwned, Queued, Shape, NumbersChosen, Client
  <2>6. TicketsOwned'
    BY <1>1, <2>2, <2>3, <2>4, <2>5 DEF QueueInv, TicketsOwned, Queued
  <2>7. MarkersOnTickets'
    BY <1>1, <2>3, <2>4 DEF QueueInv, MarkersOnTickets, Shape, TypeOK
  <2>8. NoGaps'
    BY <1>1, <2>3, <2>4 DEF QueueInv, NoGaps, ChosenIsNext
  <2>9. ChosenIsNext'
    <3> SUFFICES ASSUME NEW s \in Req, pc'[s] = "link" PROVE ChosenIsNextFor(s)'
      BY DEF ChosenIsNext, ChosenIsNextFor
    <3>1. s # r /\ pc[s] = "link" /\ number[s] \in Sequence
      BY <2>2 DEF Shape, NumbersChosen
    <3>2. \A m \in Sequence : m < number[s] => tickets[m] # None
      BY <3>1 DEF QueueInv, ChosenIsNext
    <3>3. tickets'[number[s]] # None
      <4>1. CASE number[s] < number[r]
        BY <1>1, <2>3, <2>4, <3>1, <4>1 DEF QueueInv, ChosenIsNext
      <4>2. CASE number[r] < number[s]
        BY <1>1, <1>3, <3>2, <4>2
      <4>3. CASE number[r] = number[s]
        BY <2>3, <2>4, <3>1, <4>3
      <4> QED BY <1>1, <3>1, <4>1, <4>2, <4>3, TargetLockAssumption DEF Sequence
    <3> QED BY <1>1, <2>3, <2>4, <3>2, <3>3 DEF ChosenIsNextFor
  <2>10. LeadersAreFirst'
    BY <1>1, <2>2 DEF QueueInv, LeadersAreFirst, LeaderPoints
  <2>11. WithinLimit'
    <3>1. Open' = Open \cup {number[r]} /\ number[r] \notin Open
      BY <1>1, <1>3, <2>3, <2>4 DEF Open
    <3>2. Cardinality(Open') = Cardinality(Open) + 1
      BY <3>1, OpenFinite, FS_AddElement
    <3>3. Cardinality(Open) < MaxTickets
      BY <1>1, <1>3 DEF QueueInv, ChosenIsNext
    <3> QED BY <3>2, <3>3, OpenFinite, TargetLockAssumption DEF WithinLimit
  <2> QED BY <2>6, <2>7, <2>8, <2>9, <2>10, <2>11 DEF QueueInv
<1>4. QED
  BY <1>2, <1>3

LEMMA DropStep ==
  ASSUME Shape, QueueInv, NEW r \in Req, DropTicket(r)
  PROVE  QueueInv'
<1>1. /\ pc[r] = "dropTicket" /\ tickets' = tickets /\ number' = number
      /\ released' = released \cup {number[r]}
      /\ \A s \in Req : pc'[s] = IF s = r THEN "done" ELSE pc[s]
  BY DEF DropTicket, Goto, Shape, TypeOK, Client
<1>2. tickets[number[r]] = r /\ r # None
  BY <1>1, TargetLockAssumption DEF QueueInv, TicketsOwned, Queued, QueuedPoints, Client
<1>3. \A s \in Req : pc'[s] \in QueuedPoints =>
        s # r /\ pc[s] \in QueuedPoints /\ number[s] \notin released'
  BY <1>1, <1>2 DEF QueueInv, TicketsOwned, Queued, QueuedPoints, LeaderPoints
<1>4. \A s \in Req : pc'[s] = "link" \/ pc'[s] \in LeaderPoints => pc'[s] = pc[s]
  BY <1>1 DEF LeaderPoints
<1>5. QED
  BY <1>1, <1>2, <1>3, <1>4, MarkStep

LEMMA QueueStep ==
  ASSUME Shape, Life, QueueInv, [Next]_vars, ~reused'
  PROVE  QueueInv'
<1> USE DEF queue, path, local
<1>1. ASSUME NEW r \in Req, Begin(r) \/ TimeOut(r) \/ DropTicketFails(r) PROVE QueueInv'
  <2>1. /\ tickets' = tickets /\ released' = released /\ number' = number
        /\ \/ pc' = [pc EXCEPT ![r] = "choose"]
           \/ pc' = [pc EXCEPT ![r] = "done"]
           \/ pc[r] \in {"poll", "inspect"} /\ pc' = [pc EXCEPT ![r] = "dropTicket"]
    BY <1>1 DEF Begin, TimeOut, DropTicketFails, Goto
  <2>2. \A s \in Req : s # r => pc'[s] = pc[s]
    BY <2>1, Moves DEF Client
  <2>3. \/ pc'[r] \in {"choose", "done"}
        \/ pc[r] \in {"poll", "inspect"} /\ pc'[r] = "dropTicket"
    BY <2>1, Moves DEF Client
  <2> QED BY <2>1, <2>2, <2>3, QuietStep DEF QueuedPoints, LeaderPoints
<1>2. ASSUME NEW r \in Req,
             LinkLock(r) \/ LinkLockFails(r) \/ InspectLock(r) \/ JudgeLock(r) \/ UnlinkLock(r)
             \/ Heartbeat(r) \/ Unlock(r) \/ UnlockFails(r)
      PROVE  QueueInv'
  <2>1. tickets' = tickets /\ released' = released /\ number' = number
    BY <1>2 DEF LinkLock, LinkLockFails, InspectLock, JudgeLock, UnlinkLock, Heartbeat, Unlock,
       UnlockFails
  <2>2. /\ pc[r] \in LeaderPoints
        /\ \/ pc' = pc
           \/ \E point \in LeaderPoints \cup {"dropTicket"} : pc' = [pc EXCEPT ![r] = point]
    <3>1. CASE LinkLock(r) \/ LinkLockFails(r)
      BY <3>1 DEF LinkLock, LinkLockFails, Goto, LeaderPoints
    <3>2. CASE InspectLock(r) \/ JudgeLock(r) \/ UnlinkLock(r)
      BY <3>2 DEF InspectLock, JudgeLock, UnlinkLock, Goto, LeaderPoints
    <3>3. CASE Heartbeat(r) \/ Unlock(r) \/ UnlockFails(r)
      BY <3>3 DEF Heartbeat, Unlock, UnlockFails, Goto, LeaderPoints
    <3> QED BY <1>2, <3>1, <3>2, <3>3
  <2>3. \A s \in Req : \/ pc'[s] = pc[s]
                       \/ pc[s] \in LeaderPoints /\ pc'[s] \in LeaderPoints \cup {"dropTicket"}
    <3>1. CASE pc' = pc
      BY <3>1
    <3>2. ASSUME NEW point \in LeaderPoints \cup {"dropTicket"}, pc' = [pc EXCEPT ![r] = point]
          PROVE  pc'[r] = point /\ \A s \in Req : s # r => pc'[s] = pc[s]
      BY <3>2, Moves DEF Client
    <3> QED BY <2>2, <3>1, <3>2
  <2> QED BY <2>1, <2>3, QuietStep DEF QueuedPoints, LeaderPoints
<1>3. ASSUME NEW r \in Req, DropTicketFallsBack(r) PROVE QueueInv'
  BY <1>3 DEF DropTicketFallsBack
<1>4. ASSUME NEW o \in Older, OlderEnter(o) \/ OlderLeave(o) PROVE QueueInv'
  <2>1. /\ tickets' = tickets /\ released' = released /\ number' = number
        /\ \A s \in Req : pc'[s] = pc[s]
    BY <1>4, TargetLockAssumption DEF OlderEnter, OlderLeave, Goto, Shape, TypeOK, Client
  <2> QED BY <2>1, QuietStep
<1>5. ASSUME NEW p \in Proc, Die(p) PROVE QueueInv'
  <2>1. /\ tickets' = tickets /\ released' = released /\ number' = number
        /\ \A s \in Req : pc'[s] = pc[s] \/ pc'[s] = "dead"
    BY <1>5 DEF Die, Client
  <2> QED BY <2>1, QuietStep DEF QueuedPoints, LeaderPoints
<1>6. ASSUME NEW n \in Sequence, AgeTicket(n) PROVE QueueInv'
  BY <1>6, QuietStep DEF AgeTicket
<1>7. CASE AgeLock \/ UNCHANGED vars
  BY <1>7, QuietStep DEF AgeLock, vars
<1>8. QED
  BY <1>1, <1>2, <1>3, <1>4, <1>5, <1>6, <1>7, ChooseStep, LinkStep, PollStep, DropStep
     DEF Next, Step

\* There is one leader, and the tickets of those who poll come after its own.
LEMMA LeaderPasses ==
  ASSUME Shape, QueueInv, NEW r \in Req, NEW s \in Req, r # s,
         pc[r] \in LeaderPoints, pc[s] \in QueuedPoints
  PROVE  number[r] < number[s] /\ pc[s] \notin LeaderPoints
<1>1. number[r] \in Sequence /\ number[s] \in Sequence
  BY DEF Shape, NumbersChosen, QueuedPoints
<1>2. number[r] # number[s]
  BY DEF QueueInv, TicketsOwned, Queued, QueuedPoints
<1>3. ~(number[s] < number[r])
  BY <1>1 DEF QueueInv, TicketsOwned, Queued, LeadersAreFirst
<1>4. number[r] < number[s]
  BY <1>1, <1>2, <1>3, TargetLockAssumption DEF Sequence
<1>5. pc[s] \notin LeaderPoints
  BY <1>1, <1>4 DEF QueueInv, TicketsOwned, Queued, QueuedPoints, LeadersAreFirst
<1>6. QED
  BY <1>4, <1>5

-------------------------------------------------------------------------------
(* The lock path *)

\* Who is inside has its file at the lock path, so nobody is when the path is free.
LEMMA NobodyInside ==
  ASSUME InsideHoldsPath, lock = None, NEW c \in Client
  PROVE  pc[c] # "inside"
BY TargetLockAssumption DEF InsideHoldsPath

\* The file that is about to be cleared is the one that was judged, its process is
\* gone, and nobody is inside.
LEMMA JudgedFileOnly ==
  ASSUME Shape, Life, PathInv, Intact, NEW r \in Req, pc[r] = "unlinkLock"
  PROVE  /\ ~reused /\ lock = seen[r] /\ ~Running(lock)
         /\ \A c \in Client : pc[c] # "inside"
<1>1. seen[r] \in Req /\ ~Running(seen[r])
  BY DEF Life, JudgedGone
<1>2. ProcOf[seen[r]] \in Proc
  BY <1>1, TargetLockAssumption DEF Client
<1>3. ~reused
  BY <1>1, <1>2 DEF Intact, Running
<1>4. lock = seen[r]
  BY <1>1, <1>3 DEF PathInv, SeenStays
<1>5. \A c \in Client : pc[c] # "inside"
  BY <1>1, <1>4 DEF PathInv, InsideHoldsPath, Life, LivingRun
<1>6. QED
  BY <1>1, <1>3, <1>4, <1>5

LEMMA InsideStep ==
  ASSUME Shape, Life, PathInv, [Next]_vars, Intact'
  PROVE  InsideHoldsPath'
<1>0. Intact /\ InsideHoldsPath
  BY NoWayBack DEF Intact, PathInv, Shape, TypeOK
<1> USE TargetLockAssumption DEF queue, path, local
\* Nobody enters and the lock path stays.
<1>1. ASSUME lock' = lock, \A c \in Client : pc'[c] = "inside" => pc[c] = "inside"
      PROVE  InsideHoldsPath'
  BY <1>0, <1>1 DEF InsideHoldsPath
\* One client at most is, or was, inside.
<1>2. ASSUME NEW c \in Client, \A d \in Client : d # c => pc[d] # "inside" /\ pc'[d] = pc[d],
             pc'[c] = "inside" => lock' = c
      PROVE  InsideHoldsPath'
  BY <1>2 DEF InsideHoldsPath
<1>3. ASSUME NEW c \in Client, pc[c] = "inside" PROVE \A d \in Client : d # c => pc[d] # "inside"
  BY <1>0, <1>3 DEF InsideHoldsPath
<1>4. ASSUME NEW r \in Req, LinkLock(r) PROVE InsideHoldsPath'
  <2>1. CASE lock = None
    <3>1. lock' = r /\ pc' = [pc EXCEPT ![r] = "inside"]
      BY <1>4, <2>1 DEF LinkLock, Goto
    <3>2. \A d \in Client : pc[d] # "inside"
      BY <1>0, <2>1, NobodyInside
    <3> QED BY <3>1, <3>2, <1>2, Moves DEF Client
  <2>2. CASE lock # None
    <3>1. lock' = lock /\ pc' = [pc EXCEPT ![r] = "inspect"]
      BY <1>4, <2>2 DEF LinkLock, Goto
    <3> QED BY <3>1, <1>1, Moves DEF Client
  <2> QED BY <2>1, <2>2
<1>5. ASSUME NEW r \in Req, LinkLockFails(r) PROVE InsideHoldsPath'
  <2>1. pc' = [pc EXCEPT ![r] = "dropTicket"] /\ (lock' = lock \/ lock = None)
    BY <1>5 DEF LinkLockFails, Goto
  <2>2. CASE lock' = lock
    BY <2>1, <2>2, <1>1, Moves DEF Client
  <2>3. CASE lock = None
    <3>1. \A d \in Client : pc[d] # "inside"
      BY <1>0, <2>3, NobodyInside
    <3> QED BY <2>1, <3>1, <1>2, Moves DEF Client
  <2> QED BY <2>1, <2>2, <2>3
<1>6. ASSUME NEW r \in Req, UnlinkLock(r) PROVE InsideHoldsPath'
  <2>1. pc[r] = "unlinkLock" /\ pc' = [pc EXCEPT ![r] = "inspect"]
    BY <1>6 DEF UnlinkLock, Goto
  <2>2. \A c \in Client : pc[c] # "inside"
    BY <1>0, <2>1, JudgedFileOnly
  <2> QED BY <2>1, <2>2, <1>2, Moves DEF Client
<1>7. ASSUME NEW c \in Client, pc[c] = "inside",
             pc' = [pc EXCEPT ![c] = "dropTicket"] \/ pc' = [pc EXCEPT ![c] = "done"]
      PROVE  InsideHoldsPath'
  BY <1>2, <1>3, <1>7, Moves
<1>8. ASSUME NEW r \in Req, Unlock(r) \/ UnlockFails(r) PROVE InsideHoldsPath'
  BY <1>7, <1>8 DEF Unlock, UnlockFails, Goto, Client
<1>9. ASSUME NEW o \in Older, OlderLeave(o) PROVE InsideHoldsPath'
  BY <1>7, <1>9 DEF OlderLeave, Goto, Client
<1>10. ASSUME NEW o \in Older, OlderEnter(o) PROVE InsideHoldsPath'
  <2>1. lock = None /\ lock' = o /\ pc' = [pc EXCEPT ![o] = "inside"]
    BY <1>10 DEF OlderEnter, Goto
  <2>2. \A d \in Client : pc[d] # "inside"
    BY <1>0, <2>1, NobodyInside
  <2> QED BY <2>1, <2>2, <1>2, Moves DEF Client
<1>11. ASSUME NEW r \in Req, lock' = lock,
              \/ pc' = pc
              \/ \E point : point # "inside" /\ pc' = [pc EXCEPT ![r] = point]
       PROVE  InsideHoldsPath'
  BY <1>1, <1>11, Moves DEF Client
<1>12. ASSUME NEW r \in Req, Begin(r) \/ LinkTicket(r) \/ Poll(r) PROVE InsideHoldsPath'
  <2>1. lock' = lock
    BY <1>12 DEF Begin, LinkTicket, Poll
  <2>2. \E point : point # "inside" /\ pc' = [pc EXCEPT ![r] = point]
    BY <1>12 DEF Begin, LinkTicket, Poll, Goto
  <2> QED BY <2>1, <2>2, <1>11
<1>13. ASSUME NEW r \in Req, ChooseNumber(r) PROVE InsideHoldsPath'
  <2>1. lock' = lock
    BY <1>13 DEF ChooseNumber
  <2>2. pc' = [pc EXCEPT ![r] = "done"] \/ pc' = [pc EXCEPT ![r] = "link"]
    BY <1>13, ChooseCases
  <2> QED BY <2>1, <2>2, <1>11
<1>14. ASSUME NEW r \in Req, InspectLock(r) \/ JudgeLock(r) \/ Heartbeat(r) \/ TimeOut(r)
       PROVE  InsideHoldsPath'
  <2>1. lock' = lock
    BY <1>14 DEF InspectLock, JudgeLock, Heartbeat, TimeOut
  <2>2. \/ pc' = pc
        \/ \E point : point # "inside" /\ pc' = [pc EXCEPT ![r] = point]
    BY <1>14 DEF InspectLock, JudgeLock, Heartbeat, TimeOut, Goto
  <2> QED BY <2>1, <2>2, <1>11
<1>15. ASSUME NEW r \in Req, DropTicket(r) \/ DropTicketFallsBack(r) \/ DropTicketFails(r)
       PROVE  InsideHoldsPath'
  <2>1. lock' = lock /\ pc' = [pc EXCEPT ![r] = "done"]
    BY <1>15 DEF DropTicket, DropTicketFallsBack, DropTicketFails, Goto
  <2> QED BY <2>1, <1>11
<1>16. ASSUME NEW p \in Proc, Die(p) PROVE InsideHoldsPath'
  BY <1>1, <1>16 DEF Die
<1>17. ASSUME NEW n \in Sequence, AgeTicket(n) PROVE InsideHoldsPath'
  BY <1>1, <1>17 DEF AgeTicket
<1>18. CASE AgeLock \/ UNCHANGED vars
  BY <1>1, <1>18 DEF AgeLock, vars
<1>19. QED
  BY <1>4, <1>5, <1>6, <1>8, <1>9, <1>10, <1>12, <1>13, <1>14, <1>15, <1>16, <1>17, <1>18
     DEF Next, Step

LEMMA SeenStep ==
  ASSUME Shape, Life, PathInv, [Next]_vars, ~reused'
  PROVE  SeenStays'
<1>0. ~reused /\ QueueInv /\ SeenStays /\ InsideHoldsPath
  BY NoWayBack DEF Intact, PathInv
<1> USE TargetLockAssumption DEF queue, path, local
\* The lock path stays, and nobody looks at it anew.
<1>1. ASSUME lock' = lock, seen' = seen,
             \A s \in Req : pc'[s] \in {"judge", "unlinkLock"} => pc[s] \in {"judge", "unlinkLock"}
      PROVE  SeenStays'
  BY <1>0, <1>1 DEF SeenStays
\* The leader does anything else: no other request leads.
<1>2. ASSUME NEW r \in Req, pc[r] \in LeaderPoints,
             \A s \in Req : s # r => pc'[s] = pc[s],
             pc'[r] \notin {"judge", "unlinkLock"}
      PROVE  SeenStays'
  <2>1. \A s \in Req : s # r => pc[s] \notin LeaderPoints
    BY <1>0, <1>2, LeaderPasses DEF QueuedPoints
  <2> QED BY <1>2, <2>1 DEF SeenStays, LeaderPoints
<1>3. ASSUME NEW r \in Req, LinkLock(r) \/ LinkLockFails(r) PROVE SeenStays'
  <2>1. /\ pc[r] = "tryLock"
        /\ \E point \in {"inside", "inspect", "dropTicket"} : pc' = [pc EXCEPT ![r] = point]
    BY <1>3 DEF LinkLock, LinkLockFails, Goto
  <2> QED BY <2>1, <1>2, Moves DEF Client, LeaderPoints
<1>4. ASSUME NEW r \in Req, UnlinkLock(r) \/ Unlock(r) \/ UnlockFails(r) PROVE SeenStays'
  <2>1. /\ pc[r] \in {"unlinkLock", "inside"}
        /\ \E point \in {"inspect", "dropTicket"} : pc' = [pc EXCEPT ![r] = point]
    BY <1>4 DEF UnlinkLock, Unlock, UnlockFails, Goto
  <2> QED BY <2>1, <1>2, Moves DEF Client, LeaderPoints
<1>5. ASSUME NEW r \in Req, InspectLock(r) PROVE SeenStays'
  <2>1. lock' = lock /\ seen' = [seen EXCEPT ![r] = lock]
    BY <1>5 DEF InspectLock
  <2>2. \A s \in Req : s # r => pc'[s] = pc[s]
    BY <1>5, Moves DEF InspectLock, Goto, Client
  <2> QED BY <1>0, <2>1, <2>2 DEF SeenStays, Shape, TypeOK
<1>6. ASSUME NEW r \in Req, JudgeLock(r) PROVE SeenStays'
  <2>1. pc[r] = "judge" /\ lock' = lock /\ seen' = seen
    BY <1>6 DEF JudgeLock
  <2>2. \A s \in Req : s # r => pc'[s] = pc[s]
    BY <1>6, Moves DEF JudgeLock, Goto, Client
  <2> QED BY <1>1, <2>1, <2>2
<1>7. ASSUME NEW o \in Older, OlderEnter(o) \/ OlderLeave(o) PROVE SeenStays'
  <2>1. lock = None \/ lock = o
    BY <1>0, <1>7 DEF OlderEnter, OlderLeave, InsideHoldsPath, Client
  <2>2. seen' = seen /\ \A s \in Req : pc'[s] = pc[s]
    BY <1>7, Moves DEF OlderEnter, OlderLeave, Goto, Client
  <2> QED BY <1>0, <2>1, <2>2 DEF SeenStays, Client
<1>8. ASSUME NEW r \in Req, lock' = lock, seen' = seen,
             \/ pc' = pc
             \/ \E point : point \notin {"judge", "unlinkLock"} /\ pc' = [pc EXCEPT ![r] = point]
      PROVE  SeenStays'
  BY <1>1, <1>8, Moves DEF Client
<1>9. ASSUME NEW r \in Req, Begin(r) \/ LinkTicket(r) \/ Poll(r) PROVE SeenStays'
  <2>1. lock' = lock /\ seen' = seen
    BY <1>9 DEF Begin, LinkTicket, Poll
  <2>2. \E point : point \notin {"judge", "unlinkLock"} /\ pc' = [pc EXCEPT ![r] = point]
    BY <1>9 DEF Begin, LinkTicket, Poll, Goto
  <2> QED BY <2>1, <2>2, <1>8
<1>10. ASSUME NEW r \in Req, ChooseNumber(r) PROVE SeenStays'
  <2>1. lock' = lock /\ seen' = seen
    BY <1>10 DEF ChooseNumber
  <2>2. pc' = [pc EXCEPT ![r] = "done"] \/ pc' = [pc EXCEPT ![r] = "link"]
    BY <1>10, ChooseCases
  <2> QED BY <2>1, <2>2, <1>8
<1>11. ASSUME NEW r \in Req, Heartbeat(r) \/ TimeOut(r) PROVE SeenStays'
  BY <1>8, <1>11 DEF Heartbeat, TimeOut, Goto
<1>12. ASSUME NEW r \in Req, DropTicket(r) \/ DropTicketFallsBack(r) \/ DropTicketFails(r)
       PROVE  SeenStays'
  <2>1. lock' = lock /\ seen' = seen /\ pc' = [pc EXCEPT ![r] = "done"]
    BY <1>12 DEF DropTicket, DropTicketFallsBack, DropTicketFails, Goto
  <2> QED BY <2>1, <1>8
<1>13. ASSUME NEW p \in Proc, Die(p) PROVE SeenStays'
  BY <1>1, <1>13 DEF Die, Client
<1>14. ASSUME NEW n \in Sequence, AgeTicket(n) PROVE SeenStays'
  BY <1>1, <1>14 DEF AgeTicket
<1>15. CASE AgeLock \/ UNCHANGED vars
  BY <1>1, <1>15 DEF AgeLock, vars
<1>16. QED
  BY <1>3, <1>4, <1>5, <1>6, <1>7, <1>9, <1>10, <1>11, <1>12, <1>13, <1>14, <1>15 DEF Next, Step

-------------------------------------------------------------------------------
(* The theorems *)

LEMMA InitInv == Init => IInv
<1> SUFFICES ASSUME Init PROVE IInv
  OBVIOUS
<1> USE TargetLockAssumption
<1>1. Shape
  <2>1. tickets \in [Sequence -> Req \cup {None}] /\ seen \in [Req -> Client \cup {None}]
    BY DEF Init
  <2>2. pc \in [Client -> Points] /\ \A r \in Req : pc[r] = "idle"
    BY DEF Init, Points, Client
  <2>3. number \in [Req -> 0 .. MaxSequence]
    BY DEF Init
  <2>4. released = {} /\ agedTickets = {} /\ lock = None /\ agedLock = FALSE
    BY DEF Init
  <2>5. alive = Proc /\ reused = FALSE
    BY DEF Init
  <2>6. NumbersChosen
    BY <2>2 DEF NumbersChosen, QueuedPoints, LeaderPoints
  <2> QED BY <2>1, <2>2, <2>3, <2>4, <2>5, <2>6 DEF Shape, TypeOK
<1>2. Life
  BY DEF Init, Life, LivingRun, JudgedGone, Running, Client
<1>3. Open = {}
  BY DEF Init, Open
<1>4. WithinLimit
  BY <1>3, FS_EmptySet DEF WithinLimit
<1>5. QueueInv
  BY <1>4 DEF Init, QueueInv, TicketsOwned, MarkersOnTickets, NoGaps, ChosenIsNext,
     LeadersAreFirst, Queued, QueuedPoints, LeaderPoints, Client
<1>6. SeenStays /\ InsideHoldsPath
  BY DEF Init, SeenStays, InsideHoldsPath, Client
<1>7. QED
  BY <1>1, <1>2, <1>5, <1>6 DEF IInv, PathInv

LEMMA StepInv == IInv /\ [Next]_vars => IInv'
<1> SUFFICES ASSUME IInv, [Next]_vars PROVE IInv'
  OBVIOUS
<1>1. Shape /\ Life /\ PathInv
  BY DEF IInv
<1>2. Shape' /\ Life'
  BY <1>1, ShapeStep, LifeStep
<1>3. ASSUME ~reused' PROVE QueueInv' /\ SeenStays'
  BY <1>1, <1>3, NoWayBack, QueueStep, SeenStep DEF PathInv
<1>4. Intact' => InsideHoldsPath'
  BY <1>1, InsideStep
<1>5. QED
  BY <1>2, <1>3, <1>4 DEF IInv, PathInv

LEMMA Invariant == Spec => []IInv
  BY InitInv, StepInv, PTL DEF Spec

\* The shape of the state of the queue directory, the lock path and the requests.
THEOREM TypeCorrect == Spec => []TypeOK
<1>1. IInv => TypeOK
  BY DEF IInv, Shape
<1> QED BY <1>1, Invariant, PTL

\* As long as every ticket that ended has its marker, one request leads the queue.
THEOREM OneLeader == Spec => []OneLeaderWhileMarked
<1>1. IInv => OneLeaderWhileMarked
  BY LeaderPasses DEF IInv, PathInv, OneLeaderWhileMarked, SecondLeader, QueuedPoints
<1> QED BY <1>1, Invariant, PTL

\* The lock path is never cleared under a process that lives.
THEOREM LivePathKept == Spec => []NoLiveEviction
<1>1. IInv => NoLiveEviction
  BY JudgedFileOnly DEF IInv, NoLiveEviction
<1> QED BY <1>1, Invariant, PTL

\* One request works on the target at a time, whatever its release.
THEOREM Exclusion == Spec => []MutualExclusion
<1>1. IInv => MutualExclusion
  BY DEF IInv, PathInv, MutualExclusion, InsideHoldsPath, Inside
<1> QED BY <1>1, Invariant, PTL

\* Each request of the queue has an open ticket of its own.
LEMMA QueueInOpen ==
  ASSUME Shape, QueueInv
  PROVE  /\ Cardinality({r \in Req : pc[r] \in QueuedPoints}) <= Cardinality(Open)
         /\ Cardinality({r \in Req : pc[r] \in QueuedPoints}) \in Nat
<1> DEFINE Q == {r \in Req : pc[r] \in QueuedPoints}
           f == [r \in Q |-> number[r]]
<1>1. \A r \in Q : number[r] \in Open /\ tickets[number[r]] = r
  BY TargetLockAssumption
     DEF Open, QueueInv, TicketsOwned, Queued, Shape, NumbersChosen, Client
<1>2. f \in Injection(Q, Open)
  BY <1>1 DEF Injection, IsInjective
<1>3. QED
  <2> HIDE DEF Q, f
  <2>1. Cardinality(Q) <= Cardinality(Open) /\ Cardinality(Q) \in Nat
    BY <1>2, OpenFinite, FS_Injection, FS_CardinalityType
  <2> QED BY <2>1 DEF Q

\* Nobody leads past an earlier ticket, and the queue never exceeds its limit.
THEOREM QueueBounded == Spec => []QueueKept
<1>1. IInv => QueueKept
  <2> SUFFICES ASSUME IInv, ~reused PROVE
        /\ \A r, s \in Req : pc[r] \in LeaderPoints /\ pc[s] = "poll" => number[r] < number[s]
        /\ Cardinality({r \in Req : pc[r] \in QueuedPoints}) <= MaxTickets
    BY DEF QueueKept
  <2>1. Shape /\ QueueInv
    BY DEF IInv, PathInv
  <2>2. \A r, s \in Req : pc[r] \in LeaderPoints /\ pc[s] = "poll" => number[r] < number[s]
    BY <2>1, LeaderPasses DEF QueuedPoints, LeaderPoints
  <2>3. Cardinality({r \in Req : pc[r] \in QueuedPoints}) <= MaxTickets
    <3> DEFINE Q == {r \in Req : pc[r] \in QueuedPoints}
    <3>1. Cardinality(Q) <= Cardinality(Open) /\ Cardinality(Open) <= MaxTickets
      BY <2>1, QueueInOpen DEF QueueInv, WithinLimit
    <3>2. Cardinality(Q) \in Nat
      BY <2>1, QueueInOpen
    <3> HIDE DEF Q
    <3>3. Cardinality(Q) <= MaxTickets
      BY <3>1, <3>2, OpenFinite, TargetLockAssumption
    <3> QED BY <3>3 DEF Q
  <2> QED BY <2>2, <2>3
<1> QED BY <1>1, Invariant, PTL

-------------------------------------------------------------------------------
(* Calls over several targets: OrderedLocks, for any set of calls, also an   *)
(* infinite one, and any targets that have an order with a last one.         *)

CONSTANT Impatient

Locks == INSTANCE OrderedLocks

\* A lock has one holder, and a call holds a beginning of its sorted targets:
\* whatever it still misses comes after everything it holds.
OneHolder ==
  \A c, d \in Call : c # d => holds[c] \cap holds[d] = {}

HoldsPrefix ==
  \A c \in Call :
    /\ at[c] = "idle" => holds[c] = {}
    /\ at[c] = "inside" => holds[c] = wants[c]
    /\ at[c] = "acquire" =>
         \A t \in holds[c], u \in Missing(c) : Rank[t] < Rank[u]

LockInv == Locks!TypeOK /\ OneHolder /\ HoldsPrefix

LEMMA Order ==
  /\ \A t \in Target : Rank[t] \in Nat
  /\ \A t, u \in Target : Rank[t] = Rank[u] => t = u
  /\ \E last \in Target : \A t \in Target : Rank[t] <= Rank[last]
BY OrderAssumption

LEMMA LocksInit == Locks!Init => LockInv
  BY DEF Locks!Init, LockInv, Locks!TypeOK, Locks!Points, OneHolder, HoldsPrefix

LEMMA LocksStep ==
  ASSUME LockInv, [Locks!Next]_(Locks!vars)
  PROVE  LockInv'
<1> USE Order
        DEF LockInv, Locks!TypeOK, Locks!Points, OneHolder, HoldsPrefix, Missing, Locks!Missing, Locks!Goto
<1>1. ASSUME NEW c \in Call, Locks!Begin(c) PROVE LockInv'
  <2>1. PICK T \in SUBSET Target : wants' = [wants EXCEPT ![c] = T]
    BY <1>1 DEF Locks!Begin
  <2> QED BY <1>1, <2>1 DEF Locks!Begin
<1>2. ASSUME NEW c \in Call, Locks!Acquire(c) PROVE LockInv'
  <2>1. PICK t \in Target : /\ Locks!NextUp(c, t) /\ Locks!Free(t)
                            /\ holds' = [holds EXCEPT ![c] = @ \cup {t}]
    BY <1>2 DEF Locks!Acquire
  <2>2. /\ at[c] = "acquire" /\ t \in Locks!Missing(c)
        /\ \A u \in Locks!Missing(c) \ {t} : Rank[t] < Rank[u]
    BY <2>1 DEF Locks!NextUp, Locks!IsFirst
  <2>3. Locks!TypeOK'
    BY <1>2, <2>1, <2>2 DEF Locks!Acquire
  <2>4. OneHolder'
    BY <2>1 DEF Locks!Free
  <2>5. HoldsPrefix'
    BY <1>2, <2>1, <2>2 DEF Locks!Acquire
  <2> QED BY <2>3, <2>4, <2>5
<1>3. ASSUME NEW c \in Call, Locks!Operate(c) PROVE LockInv'
  BY <1>3 DEF Locks!Operate
<1>4. ASSUME NEW c \in Call, Locks!Finish(c) \/ Locks!TimeOut(c) PROVE LockInv'
  BY <1>4 DEF Locks!Finish, Locks!TimeOut
<1>5. ASSUME NEW c \in Call, Locks!Release(c) PROVE LockInv'
  <2>1. PICK t \in Target : holds' = [holds EXCEPT ![c] = @ \ {t}]
    BY <1>5 DEF Locks!Release
  <2> QED BY <1>5, <2>1 DEF Locks!Release
<1>6. ASSUME NEW c \in Call, Locks!Leave(c) PROVE LockInv'
  BY <1>6 DEF Locks!Leave
<1>7. CASE UNCHANGED Locks!vars
  BY <1>7 DEF Locks!vars
<1> QED BY <1>1, <1>2, <1>3, <1>4, <1>5, <1>6, <1>7 DEF Locks!Next

LEMMA LocksInvariant == Locks!Spec => []LockInv
<1>1. LockInv /\ [Locks!Next]_(Locks!vars) => LockInv'
  BY LocksStep
<1> QED BY LocksInit, <1>1, PTL DEF Locks!Spec

\* The shape of the state, and that a call holds only what it named.
THEOREM LocksTypeCorrect == Locks!Spec => []Locks!TypeOK
  BY LocksInvariant, PTL DEF LockInv

\* Operations that share a target never overlap.
THEOREM OperationsIsolated == Locks!Spec => []Isolation
<1>1. LockInv => Isolation
  BY DEF LockInv, OneHolder, HoldsPrefix, Isolation
<1> QED BY <1>1, LocksInvariant, PTL

LEMMA Climb == LockInv => WaitsClimb
  BY Order
     DEF LockInv, Locks!TypeOK, HoldsPrefix, WaitsClimb, NextUp, IsFirst,
         Missing

\* Chains of waiting calls climb in the order of the targets.
THEOREM ChainsClimb == Locks!Spec => []WaitsClimb
  BY Climb, LocksInvariant, PTL

\* A nonempty set of naturals below a bound has a greatest element.
LEMMA Greatest ==
  ASSUME NEW N \in Nat, NEW A \in SUBSET (0..N), A # {}
  PROVE  \E m \in A : \A n \in A : n <= m
<1> DEFINE B == {N - n : n \in A}
           R == OpToRel(<, Nat)
<1>1. B \subseteq Nat /\ B # {}
  <2> HIDE DEF R
  <2>1. \A n \in A : n \in 0..N /\ N - n \in Nat
    OBVIOUS
  <2>2. PICK n \in A : TRUE
    OBVIOUS
  <2>3. N - n \in B
    BY <2>2
  <2> QED BY <2>1, <2>3
<1>2. PICK x \in B : \A y \in B : <<y, x>> \notin R
  <2> HIDE DEF B, R
  <2>1. IsWellFoundedOn(R, Nat)
    BY NatLessThanWellFounded DEF R
  <2> QED BY <1>1, <2>1, WFMin
<1>3. \A y \in B : ~(y < x)
  BY <1>1, <1>2 DEF OpToRel
<1>4. PICK a \in A : x = N - a
  OBVIOUS
<1>5. ASSUME NEW n \in A PROVE n <= a
  <2>1. N - n \in B
    OBVIOUS
  <2>2. ~(N - n < N - a)
    BY <1>3, <1>4, <2>1
  <2>3. n \in Int /\ a \in Int /\ N \in Int
    BY <1>4
  <2> HIDE DEF B, R
  <2> QED BY <2>2, <2>3
<1> QED BY <1>5

\* No set of calls waits in a circle, whatever lists of targets they named: the
\* call that waits for the highest target waits for one that can go on.
THEOREM NoDeadlock == Locks!Spec => []NoCircle
<1>1. LockInv => NoCircle
  <2> SUFFICES ASSUME LockInv, ~NoCircle PROVE FALSE
    OBVIOUS
  <2>0. PICK S \in SUBSET Call : S # {} /\ \A c \in S : \E d \in S : WaitsFor(c, d)
    <3>1. PICK S \in (SUBSET Call) \ {{}} : \A c \in S : \E d \in S : WaitsFor(c, d)
      BY Zenon DEF NoCircle
    <3> QED BY <3>1
  <2> DEFINE Waited == {t \in Target : \E c \in S : NextUp(c, t)}
             Ranks == {Rank[t] : t \in Waited}
  <2>1. \A c \in S : \E t \in Target, d \in S : t \in holds[d] /\ NextUp(c, t)
    BY <2>0 DEF WaitsFor, LockInv, Locks!TypeOK
  <2>2. PICK last \in Target : \A t \in Target : Rank[t] <= Rank[last]
    BY Order
  <2>3. Ranks # {} /\ Ranks \in SUBSET (0..Rank[last])
    <3>1. PICK c \in S : TRUE
      BY <2>0
    <3>2. PICK t \in Target : NextUp(c, t)
      BY <2>1
    <3>3. Rank[t] \in Ranks
      BY <3>2
    <3>4. ASSUME NEW n \in Ranks PROVE n \in 0..Rank[last]
      BY <2>2, Order
    <3> QED BY <3>3, <3>4
  <2>4. PICK m \in Ranks : \A n \in Ranks : n <= m
    <3> HIDE DEF Ranks
    <3>1. Rank[last] \in Nat
      BY Order
    <3> QED BY <2>3, <3>1, Greatest
  <2>5. PICK t \in Target, c \in S : NextUp(c, t) /\ m = Rank[t]
    BY <2>4
  <2>6. PICK d \in S : t \in holds[d]
    <3>1. PICK s \in Target, d \in S : s \in holds[d] /\ NextUp(c, s)
      BY <2>1
    <3>2. s = t
      BY <2>5, <3>1, Order DEF NextUp, IsFirst, Missing
    <3> QED BY <3>1, <3>2
  <2>7. PICK u \in Target : NextUp(d, u)
    BY <2>1
  <2>8. Rank[t] < Rank[u]
    BY <2>5, <2>6, <2>7, Climb DEF WaitsClimb
  <2>9. Rank[u] <= Rank[t]
    BY <2>4, <2>5, <2>7
  <2> QED BY <2>8, <2>9, Order
<1> QED BY <1>1, LocksInvariant, PTL
===============================================================================
