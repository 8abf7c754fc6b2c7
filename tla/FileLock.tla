------------------------------- MODULE FileLock -------------------------------
(***************************************************************************)
(* The lock file that guards one stored record (or one legacy collection): *)
(* shared-core/src/persistence.ts, acquireFileLock and what it calls.      *)
(*                                                                         *)
(* All of this code is synchronous, so the actors are operating-system     *)
(* processes and the steps are their system calls.  A lock file is created *)
(* with open("wx"), filled with {token, pid} by a second call, and removed *)
(* by its owner after its token was read back.  A process that finds the   *)
(* file in its way asks whether its owner is gone; if so it takes a second *)
(* lock file, <lock>.recovery, looks again and unlinks the first one.      *)
(*                                                                         *)
(* Read-then-kill(pid, 0), read-then-stat and read-then-unlink are two     *)
(* steps each: what was read may be stale when it is used.                 *)
(***************************************************************************)
EXTENDS Naturals

CONSTANTS
  Proc,          \* process ids
  NoFile,        \* the path does not exist
  MaxAttempts,   \* bound: calls of acquireFileLock per process
  MaxCrashes,    \* bound: processes that die
  CrashPoints,   \* the program points at which a process may die
  Faults         \* which of the further faults below may happen

FaultKinds ==
  { "io",        \* write, fsync or directory fsync of a lock file fails
    "pidReuse",  \* a process started later gets a dead process's pid
    "deadline" } \* 30 s of waiting pass before the lock is free

\* Program points inside reclaimAbandonedFileLock while <lock>.recovery is ours.
RecoveryPoints == {"writeRec", "check", "judge2", "unlink", "relRec", "unlinkRecOwn"}

\* Program points while <lock> is ours: created, held, about to be removed.
OwnerPoints == {"write", "held", "unlinkOwn"}

Points == OwnerPoints \cup RecoveryPoints \cup
          {"idle", "open", "read", "judge", "openRec", "readRec", "judgeRec",
           "unlinkRec", "wait", "crashed"}

ASSUME FileLockAssumption ==
  /\ MaxAttempts \in Nat
  /\ MaxCrashes \in Nat
  /\ CrashPoints \subseteq (Points \ {"crashed"})
  /\ Faults \subseteq FaultKinds

VARIABLES
  lock,       \* the file at <record>.lock
  recovery,   \* the file at <record>.lock.recovery
  pc,         \* where each process is
  seen,       \* what its last readFileLockMetadata found on disk
  attempt,    \* its number of acquireFileLock calls; with its pid, the token
  reclaimed,  \* the value its reclaimAbandonedFileLock will return
  crashes     \* how many processes have died

vars == <<lock, recovery, pc, seen, attempt, reclaimed, crashes>>

-------------------------------------------------------------------------------
Token == [pid : Proc, nr : 0 .. MaxAttempts]

\* complete: the metadata was written.  old: its mtime is 30 s past.
File == [token : Token, complete : BOOLEAN, old : BOOLEAN]

ASSUME NoFileAssumption == NoFile \notin File

\* randomUUID() of the current call.  A call that retries takes a new uuid for
\* each recovery lock; it has removed the earlier one by then, so one will do.
Tok(p) == [pid |-> p, nr |-> attempt[p]]

Alive(p) == pc[p] # "crashed"

\* Nobody will ever finish writing, use or remove this file as its owner.
Orphaned(file, points) ==
  /\ file # NoFile
  /\ pc[file.token.pid] \in points => file.token # Tok(file.token.pid)

Fresh(p) == [token |-> Tok(p), complete |-> FALSE, old |-> FALSE]

Filled(file) == [file EXCEPT !.complete = TRUE, !.old = FALSE]

\* A write through p's descriptor reaches the path only if p's file is still there.
WriteThrough(p, file) ==
  IF file # NoFile /\ file.token = Tok(p) THEN Filled(file) ELSE file

\* readFileLockMetadata(path)?.token = token
Carries(file, token) == file # NoFile /\ file.complete /\ file.token = token

\* isAbandonedFileLock, decided by p from what it read and the path's mtime now
Abandoned(p, file) ==
  IF seen[p] # NoFile /\ seen[p].complete
  THEN ~Alive(seen[p].token.pid)
  ELSE file # NoFile /\ file.old

Goto(p, point) == pc' = [pc EXCEPT ![p] = point]

-------------------------------------------------------------------------------
Init ==
  /\ lock = NoFile /\ recovery = NoFile
  /\ pc = [p \in Proc |-> "idle"]
  /\ seen = [p \in Proc |-> NoFile]
  /\ attempt = [p \in Proc |-> 0]
  /\ reclaimed = [p \in Proc |-> FALSE]
  /\ crashes = 0

\* acquireFileLock is called: a fresh token, a deadline 30 s from now.
Begin(p) ==
  /\ pc[p] = "idle" /\ attempt[p] < MaxAttempts
  /\ attempt' = [attempt EXCEPT ![p] = @ + 1]
  /\ Goto(p, "open")
  /\ UNCHANGED <<lock, recovery, seen, reclaimed, crashes>>

\* createFileLock(lockPath): open("wx")
OpenLock(p) ==
  /\ pc[p] = "open"
  /\ IF lock = NoFile
     THEN lock' = Fresh(p) /\ Goto(p, "write")
     ELSE UNCHANGED lock /\ Goto(p, "read")
  /\ UNCHANGED <<recovery, seen, attempt, reclaimed, crashes>>

\* createFileLock(lockPath): metadata written and synced; the caller goes on.
WriteLock(p) ==
  /\ pc[p] = "write"
  /\ lock' = WriteThrough(p, lock)
  /\ Goto(p, "held")
  /\ UNCHANGED <<recovery, seen, attempt, reclaimed, crashes>>

\* The write or fsync fails: the path is unlinked, whoever's it is, and it throws.
WriteLockFails(p) ==
  /\ "io" \in Faults /\ pc[p] = "write"
  /\ lock' = NoFile
  /\ Goto(p, "idle")
  /\ UNCHANGED <<recovery, seen, attempt, reclaimed, crashes>>

\* The directory fsync after it fails: it throws and the finished file stays.
SyncLockFails(p) ==
  /\ "io" \in Faults /\ pc[p] = "write"
  /\ lock' = WriteThrough(p, lock)
  /\ Goto(p, "idle")
  /\ UNCHANGED <<recovery, seen, attempt, reclaimed, crashes>>

\* The guarded operation is over; releaseFileLock reads the metadata back.
ReleaseRead(p) ==
  /\ pc[p] = "held"
  /\ Goto(p, IF Carries(lock, Tok(p)) THEN "unlinkOwn" ELSE "idle")
  /\ UNCHANGED <<lock, recovery, seen, attempt, reclaimed, crashes>>

\* releaseFileLock unlinks the path.
ReleaseUnlink(p) ==
  /\ pc[p] = "unlinkOwn"
  /\ lock' = NoFile
  /\ Goto(p, "idle")
  /\ UNCHANGED <<recovery, seen, attempt, reclaimed, crashes>>

-------------------------------------------------------------------------------
\* reclaimAbandonedFileLock: isAbandonedFileLock(lockPath) reads the metadata ...
ReadLock(p) ==
  /\ pc[p] = "read"
  /\ seen' = [seen EXCEPT ![p] = lock]
  /\ Goto(p, "judge")
  /\ UNCHANGED <<lock, recovery, attempt, reclaimed, crashes>>

\* ... and then asks for its process, or for the age of an unfinished file.
JudgeLock(p) ==
  /\ pc[p] = "judge"
  /\ Goto(p, IF Abandoned(p, lock) THEN "openRec" ELSE "wait")
  /\ UNCHANGED <<lock, recovery, seen, attempt, reclaimed, crashes>>

\* createFileLock(recoveryPath): open("wx")
OpenRecovery(p) ==
  /\ pc[p] = "openRec"
  /\ IF recovery = NoFile
     THEN recovery' = Fresh(p) /\ Goto(p, "writeRec")
     ELSE UNCHANGED recovery /\ Goto(p, "readRec")
  /\ UNCHANGED <<lock, seen, attempt, reclaimed, crashes>>

WriteRecovery(p) ==
  /\ pc[p] = "writeRec"
  /\ recovery' = WriteThrough(p, recovery)
  /\ Goto(p, "check")
  /\ UNCHANGED <<lock, seen, attempt, reclaimed, crashes>>

WriteRecoveryFails(p) ==
  /\ "io" \in Faults /\ pc[p] = "writeRec"
  /\ recovery' = NoFile
  /\ Goto(p, "idle")
  /\ UNCHANGED <<lock, seen, attempt, reclaimed, crashes>>

SyncRecoveryFails(p) ==
  /\ "io" \in Faults /\ pc[p] = "writeRec"
  /\ recovery' = WriteThrough(p, recovery)
  /\ Goto(p, "idle")
  /\ UNCHANGED <<lock, seen, attempt, reclaimed, crashes>>

\* The recovery path exists: is that one abandoned?
ReadRecovery(p) ==
  /\ pc[p] = "readRec"
  /\ seen' = [seen EXCEPT ![p] = recovery]
  /\ Goto(p, "judgeRec")
  /\ UNCHANGED <<lock, recovery, attempt, reclaimed, crashes>>

\* Variation: a recovery lock is never taken to be abandoned.
JudgeRecoveryNever(p) ==
  /\ pc[p] = "judgeRec"
  /\ Goto(p, "wait")
  /\ UNCHANGED <<lock, recovery, seen, attempt, reclaimed, crashes>>

JudgeRecovery(p) ==
  /\ pc[p] = "judgeRec"
  /\ Goto(p, IF Abandoned(p, recovery) THEN "unlinkRec" ELSE "wait")
  /\ UNCHANGED <<lock, recovery, seen, attempt, reclaimed, crashes>>

\* Whatever is at the recovery path by now goes; nothing serialises this unlink.
UnlinkRecovery(p) ==
  /\ pc[p] = "unlinkRec"
  /\ recovery' = NoFile
  /\ Goto(p, "wait")
  /\ UNCHANGED <<lock, seen, attempt, reclaimed, crashes>>

\* Variation: no second look under the recovery lock.
CheckLockBlind(p) ==
  /\ pc[p] = "check"
  /\ seen' = [seen EXCEPT ![p] = lock]
  /\ Goto(p, IF lock = NoFile THEN "relRec" ELSE "unlink")
  /\ UNCHANGED <<lock, recovery, attempt, reclaimed, crashes>>

\* Under the recovery lock: existsSync(lockPath) and the second look's read ...
CheckLock(p) ==
  /\ pc[p] = "check"
  /\ seen' = [seen EXCEPT ![p] = lock]
  /\ Goto(p, IF lock = NoFile THEN "relRec" ELSE "judge2")
  /\ UNCHANGED <<lock, recovery, attempt, reclaimed, crashes>>

\* ... the second look's judgement ...
JudgeAgain(p) ==
  /\ pc[p] = "judge2"
  /\ Goto(p, IF Abandoned(p, lock) THEN "unlink" ELSE "relRec")
  /\ UNCHANGED <<lock, recovery, seen, attempt, reclaimed, crashes>>

\* ... and the unlink, which succeeds or finds nothing: true either way.
UnlinkLock(p) ==
  /\ pc[p] = "unlink"
  /\ lock' = NoFile
  /\ reclaimed' = [reclaimed EXCEPT ![p] = TRUE]
  /\ Goto(p, "relRec")
  /\ UNCHANGED <<recovery, seen, attempt, crashes>>

\* finally: releaseFileLock(recoveryPath, recoveryToken)
ReleaseRecoveryRead(p) ==
  /\ pc[p] = "relRec"
  /\ IF Carries(recovery, Tok(p))
     THEN Goto(p, "unlinkRecOwn") /\ UNCHANGED reclaimed
     ELSE /\ Goto(p, IF reclaimed[p] THEN "open" ELSE "wait")
          /\ reclaimed' = [reclaimed EXCEPT ![p] = FALSE]
  /\ UNCHANGED <<lock, recovery, seen, attempt, crashes>>

ReleaseRecoveryUnlink(p) ==
  /\ pc[p] = "unlinkRecOwn"
  /\ recovery' = NoFile
  /\ Goto(p, IF reclaimed[p] THEN "open" ELSE "wait")
  /\ reclaimed' = [reclaimed EXCEPT ![p] = FALSE]
  /\ UNCHANGED <<lock, seen, attempt, crashes>>

\* acquireFileLock: not reclaimed.  Before the deadline it waits 10 ms and retries.
Retry(p) ==
  /\ pc[p] = "wait"
  /\ Goto(p, "open")
  /\ UNCHANGED <<lock, recovery, seen, attempt, reclaimed, crashes>>

\* At the deadline it throws.
TimeOut(p) ==
  /\ "deadline" \in Faults /\ pc[p] = "wait"
  /\ Goto(p, "idle")
  /\ UNCHANGED <<lock, recovery, seen, attempt, reclaimed, crashes>>

-------------------------------------------------------------------------------
\* The process dies: its files stay.
Crash(p) ==
  /\ pc[p] \in CrashPoints /\ crashes < MaxCrashes
  /\ crashes' = crashes + 1
  /\ Goto(p, "crashed")
  /\ reclaimed' = [reclaimed EXCEPT ![p] = FALSE]
  /\ UNCHANGED <<lock, recovery, seen, attempt>>

\* Another process is started under the same pid: kill(pid, 0) succeeds again.
Restart(p) ==
  /\ "pidReuse" \in Faults /\ pc[p] = "crashed"
  /\ Goto(p, "idle")
  /\ UNCHANGED <<lock, recovery, seen, attempt, reclaimed, crashes>>

\* 30 s pass over an unfinished file nobody writes.  That a running process
\* finishes its file, and acts on what it read, within 30 s is assumed.
AgeLock ==
  /\ Orphaned(lock, OwnerPoints) /\ ~lock.complete /\ ~lock.old
  /\ lock' = [lock EXCEPT !.old = TRUE]
  /\ UNCHANGED <<recovery, pc, seen, attempt, reclaimed, crashes>>

AgeRecovery ==
  /\ Orphaned(recovery, RecoveryPoints) /\ ~recovery.complete /\ ~recovery.old
  /\ recovery' = [recovery EXCEPT !.old = TRUE]
  /\ UNCHANGED <<lock, pc, seen, attempt, reclaimed, crashes>>

Step(p) ==
  \/ OpenLock(p) \/ WriteLock(p) \/ ReleaseRead(p) \/ ReleaseUnlink(p)
  \/ ReadLock(p) \/ JudgeLock(p)
  \/ OpenRecovery(p) \/ WriteRecovery(p)
  \/ ReadRecovery(p) \/ JudgeRecovery(p) \/ UnlinkRecovery(p)
  \/ CheckLock(p) \/ JudgeAgain(p) \/ UnlinkLock(p)
  \/ ReleaseRecoveryRead(p) \/ ReleaseRecoveryUnlink(p)
  \/ Retry(p)

Fault(p) ==
  \/ WriteLockFails(p) \/ SyncLockFails(p)
  \/ WriteRecoveryFails(p) \/ SyncRecoveryFails(p)
  \/ TimeOut(p) \/ Crash(p) \/ Restart(p)

Next ==
  \/ \E p \in Proc : Begin(p) \/ Step(p) \/ Fault(p)
  \/ AgeLock
  \/ AgeRecovery

Spec == Init /\ [][Next]_vars

\* A process that is running executes its next call, and time passes.
FairSpec ==
  /\ Spec
  /\ \A p \in Proc : WF_vars(Step(p))
  /\ WF_vars(AgeLock)
  /\ WF_vars(AgeRecovery)

-------------------------------------------------------------------------------
FileOrNone == File \cup {NoFile}

TypeOK ==
  /\ lock \in FileOrNone
  /\ recovery \in FileOrNone
  /\ pc \in [Proc -> Points]
  /\ seen \in [Proc -> FileOrNone]
  /\ attempt \in [Proc -> 0 .. MaxAttempts]
  /\ reclaimed \in [Proc -> BOOLEAN]
  /\ crashes \in 0 .. MaxCrashes

Inside == {p \in Proc : pc[p] \in {"held", "unlinkOwn"}}

\* Two processes never execute the guarded operation of one record at the same
\* time: this is what makes the read-compare-replace of compareAndSet atomic.
MutualExclusion == \A p, q \in Inside : p = q

\* "Stale-lock cleanup is itself serialized so competing recoverers cannot both
\* unlink the same ownership path" (the comment in reclaimAbandonedFileLock).
RecoverySerialized ==
  \A p, q \in Proc : pc[p] = "unlink" /\ pc[q] = "unlink" => p = q

\* Cleanup removes only a file whose owner is gone: a process about to unlink
\* the lock path never takes the file of one that is writing it or holds it.
OnlyAbandonedReclaimed ==
  \A p \in Proc : pc[p] = "unlink" => lock = NoFile \/ Orphaned(lock, OwnerPoints)

\* A file that nobody will remove: its owner has ended, and its pid looks alive,
\* because it was given out again or the process lives on after an error.
Obstinate(file, points) ==
  Orphaned(file, points) /\ file.complete /\ Alive(file.token.pid)

Blocked == Obstinate(lock, OwnerPoints) \/ Obstinate(recovery, RecoveryPoints)

\* A process that keeps trying gets the lock or is told that it did not, whoever
\* died on the way, at whatever point: no dead owner or dead recoverer blocks
\* the path for good, unless what it left cannot be told from a live one.
Served ==
  \A p \in Proc : pc[p] = "open" ~> pc[p] \in {"held", "crashed", "idle"} \/ Blocked

-------------------------------------------------------------------------------
\* The lock as its users see it: who owns it, by the file on disk.
Owner == IF lock = NoFile THEN "free"
         ELSE IF Orphaned(lock, OwnerPoints) THEN "orphan"
         ELSE lock.token.pid

M == INSTANCE Mutex WITH Client <- Proc, Free <- "free", Orphan <- "orphan",
                         owner <- Owner, inside <- Inside

\* Every step is a step of a lock, or none that its users can see.
RefinesMutex == M!Spec
===============================================================================
