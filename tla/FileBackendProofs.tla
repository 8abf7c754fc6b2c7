--------------------------- MODULE FileBackendProofs ---------------------------
(***************************************************************************)
(* Proofs about the file backend.  First its lock, FileLock, for any set   *)
(* of processes and any number of acquisitions, under OneOwnerCrash below: *)
(* without it the theorems are false, as FileLockSerialized.cfg shows.     *)
(* Then a record of its collections, FileRecord, which takes from the lock *)
(* what the first part proves of it, for any clients, values and versions. *)
(***************************************************************************)
EXTENDS FileLock, RecordCalls, TLAPS

-------------------------------------------------------------------------------
(* The lock *)


\* At most one process dies, and it dies while the lock is its own.
OneOwnerCrash == MaxCrashes \in {0, 1} /\ CrashPoints \subseteq OwnerPoints

\* An owner's file is on disk, and carries its token once it is written.
OwnerHasFile ==
  \A p \in Proc :
    /\ pc[p] = "write" => lock = Fresh(p)
    /\ pc[p] \in {"held", "unlinkOwn"} => Carries(lock, Tok(p))

\* So does the file of a process that cleans up.
RecovererHasFile ==
  \A p \in Proc :
    /\ pc[p] = "writeRec" => recovery = Fresh(p)
    /\ pc[p] \in RecoveryPoints \ {"writeRec"} => Carries(recovery, Tok(p))

\* Only an unfinished file whose writer is gone looks old.
OldIsOrphaned ==
  lock # NoFile /\ lock.old => ~lock.complete /\ Orphaned(lock, OwnerPoints)

\* While nobody has died an unfinished file is being written.
UnfinishedIsWritten ==
  crashes = 0 /\ lock # NoFile /\ ~lock.complete => pc[lock.token.pid] = "write"
                                                   /\ lock.token = Tok(lock.token.pid)

\* The recovery file's process is alive, and an unfinished one is being written.
RecoveryIsLive ==
  recovery # NoFile =>
    /\ Alive(recovery.token.pid) /\ ~recovery.old
    /\ ~recovery.complete => /\ pc[recovery.token.pid] = "writeRec"
                             /\ recovery.token = Tok(recovery.token.pid)

\* Nobody gets as far as the recovery path before a process has died.
CleanupNeedsCrash ==
  crashes = 0 =>
    /\ recovery = NoFile
    /\ \A p \in Proc : pc[p] \notin RecoveryPoints \cup
                         {"openRec", "readRec", "judgeRec", "unlinkRec", "crashed"}

\* What a process read of the recovery file is still right when it is judged.
RecoveryNeverTaken ==
  \A p \in Proc :
    /\ pc[p] # "unlinkRec"
    /\ pc[p] = "judgeRec" /\ seen[p] # NoFile /\ seen[p].complete
         => Alive(seen[p].token.pid)

\* What the cleaning process read of the lock is still right when it is used.
SecondLookHolds ==
  \A p \in Proc :
    /\ pc[p] = "judge2" /\ seen[p] # NoFile /\ seen[p].complete
       /\ ~Alive(seen[p].token.pid) => Orphaned(lock, OwnerPoints)
    /\ pc[p] = "unlink" => Orphaned(lock, OwnerPoints)

IInv ==
  /\ TypeOK
  /\ OwnerHasFile /\ RecovererHasFile
  /\ OldIsOrphaned /\ UnfinishedIsWritten /\ RecoveryIsLive
  /\ CleanupNeedsCrash /\ RecoveryNeverTaken /\ SecondLookHolds

-------------------------------------------------------------------------------
\* The files the actions write are files.
LEMMA FilesAreFiles ==
  ASSUME TypeOK, NEW p \in Proc
  PROVE  /\ Tok(p) \in Token
         /\ Fresh(p) \in File
         /\ \A file \in FileOrNone : WriteThrough(p, file) \in FileOrNone
<1>1. Tok(p) \in Token
  BY DEF TypeOK, Tok, Token
<1>2. Fresh(p) \in File
  BY <1>1 DEF Fresh, File
<1>3. \A file \in FileOrNone : WriteThrough(p, file) \in FileOrNone
  BY DEF WriteThrough, Filled, FileOrNone, File
<1>4. QED
  BY <1>1, <1>2, <1>3

\* Every step keeps every variable in its type.
LEMMA TypeStep == ASSUME TypeOK, [Next]_vars PROVE TypeOK'
<1> USE FileLockAssumption DEF TypeOK, Goto, Points, OwnerPoints, RecoveryPoints
<1>1. ASSUME NEW p \in Proc, Begin(p) PROVE TypeOK'
  BY <1>1, FilesAreFiles DEF Begin, FileOrNone
<1>2. ASSUME NEW p \in Proc, OpenLock(p) PROVE TypeOK'
  BY <1>2, FilesAreFiles DEF OpenLock, FileOrNone
<1>3. ASSUME NEW p \in Proc, WriteLock(p) PROVE TypeOK'
  BY <1>3, FilesAreFiles DEF WriteLock, FileOrNone
<1>4. ASSUME NEW p \in Proc, ReleaseRead(p) PROVE TypeOK'
  BY <1>4, FilesAreFiles DEF ReleaseRead, FileOrNone
<1>5. ASSUME NEW p \in Proc, ReleaseUnlink(p) PROVE TypeOK'
  BY <1>5, FilesAreFiles DEF ReleaseUnlink, FileOrNone
<1>6. ASSUME NEW p \in Proc, ReadLock(p) PROVE TypeOK'
  BY <1>6, FilesAreFiles DEF ReadLock, FileOrNone
<1>7. ASSUME NEW p \in Proc, JudgeLock(p) PROVE TypeOK'
  BY <1>7, FilesAreFiles DEF JudgeLock, FileOrNone
<1>8. ASSUME NEW p \in Proc, OpenRecovery(p) PROVE TypeOK'
  BY <1>8, FilesAreFiles DEF OpenRecovery, FileOrNone
<1>9. ASSUME NEW p \in Proc, WriteRecovery(p) PROVE TypeOK'
  BY <1>9, FilesAreFiles DEF WriteRecovery, FileOrNone
<1>10. ASSUME NEW p \in Proc, ReadRecovery(p) PROVE TypeOK'
  BY <1>10, FilesAreFiles DEF ReadRecovery, FileOrNone
<1>11. ASSUME NEW p \in Proc, JudgeRecovery(p) PROVE TypeOK'
  BY <1>11, FilesAreFiles DEF JudgeRecovery, FileOrNone
<1>12. ASSUME NEW p \in Proc, UnlinkRecovery(p) PROVE TypeOK'
  BY <1>12, FilesAreFiles DEF UnlinkRecovery, FileOrNone
<1>13. ASSUME NEW p \in Proc, CheckLock(p) PROVE TypeOK'
  BY <1>13, FilesAreFiles DEF CheckLock, FileOrNone
<1>14. ASSUME NEW p \in Proc, JudgeAgain(p) PROVE TypeOK'
  BY <1>14, FilesAreFiles DEF JudgeAgain, FileOrNone
<1>15. ASSUME NEW p \in Proc, UnlinkLock(p) PROVE TypeOK'
  BY <1>15, FilesAreFiles DEF UnlinkLock, FileOrNone
<1>16. ASSUME NEW p \in Proc, ReleaseRecoveryRead(p) PROVE TypeOK'
  BY <1>16, FilesAreFiles DEF ReleaseRecoveryRead, FileOrNone
<1>17. ASSUME NEW p \in Proc, ReleaseRecoveryUnlink(p) PROVE TypeOK'
  BY <1>17, FilesAreFiles DEF ReleaseRecoveryUnlink, FileOrNone
<1>18. ASSUME NEW p \in Proc, Retry(p) PROVE TypeOK'
  BY <1>18, FilesAreFiles DEF Retry, FileOrNone
<1>19. ASSUME NEW p \in Proc, WriteLockFails(p) PROVE TypeOK'
  BY <1>19, FilesAreFiles DEF WriteLockFails, FileOrNone
<1>20. ASSUME NEW p \in Proc, SyncLockFails(p) PROVE TypeOK'
  BY <1>20, FilesAreFiles DEF SyncLockFails, FileOrNone
<1>21. ASSUME NEW p \in Proc, WriteRecoveryFails(p) PROVE TypeOK'
  BY <1>21, FilesAreFiles DEF WriteRecoveryFails, FileOrNone
<1>22. ASSUME NEW p \in Proc, SyncRecoveryFails(p) PROVE TypeOK'
  BY <1>22, FilesAreFiles DEF SyncRecoveryFails, FileOrNone
<1>23. ASSUME NEW p \in Proc, TimeOut(p) PROVE TypeOK'
  BY <1>23, FilesAreFiles DEF TimeOut, FileOrNone
<1>24. ASSUME NEW p \in Proc, Crash(p) PROVE TypeOK'
  BY <1>24, FilesAreFiles DEF Crash, FileOrNone
<1>25. ASSUME NEW p \in Proc, Restart(p) PROVE TypeOK'
  BY <1>25, FilesAreFiles DEF Restart, FileOrNone
<1>26. ASSUME AgeLock PROVE TypeOK'
  BY <1>26 DEF AgeLock, Orphaned, FileOrNone, File
<1>27. ASSUME AgeRecovery PROVE TypeOK'
  BY <1>27 DEF AgeRecovery, Orphaned, FileOrNone, File
<1>28. ASSUME UNCHANGED vars PROVE TypeOK'
  BY <1>28 DEF vars
<1>29. QED
  BY <1>1, <1>2, <1>3, <1>4, <1>5, <1>6, <1>7, <1>8, <1>9, <1>10, <1>11, <1>12, <1>13, <1>14, <1>15, <1>16, <1>17, <1>18, <1>19, <1>20, <1>21, <1>22, <1>23, <1>24, <1>25, <1>26, <1>27, <1>28 DEF Next, Step, Fault
-------------------------------------------------------------------------------
\* Whoever owns the lock, or cleans up, is named by the file: so it is the only one.
LEMMA FileNamesOwner ==
  ASSUME IInv, NEW p \in Proc
  PROVE  /\ pc[p] \in OwnerPoints =>
              lock # NoFile /\ lock.token.pid = p /\ ~Orphaned(lock, OwnerPoints)
         /\ pc[p] \in RecoveryPoints => recovery # NoFile /\ recovery.token.pid = p
<1>1. Tok(p).pid = p
  BY DEF Tok
<1>2. pc[p] \in OwnerPoints => lock # NoFile /\ lock.token = Tok(p)
  BY FilesAreFiles, NoFileAssumption
     DEF IInv, OwnerHasFile, OwnerPoints, Carries, Fresh
<1>3. pc[p] \in RecoveryPoints => recovery # NoFile /\ recovery.token = Tok(p)
  BY FilesAreFiles, NoFileAssumption
     DEF IInv, RecovererHasFile, RecoveryPoints, Carries, Fresh
<1>4. QED
  BY <1>1, <1>2, <1>3 DEF Orphaned

\* A file written through its own writer's descriptor is finished and still its.
LEMMA WriteFills ==
  ASSUME TypeOK, NEW p \in Proc
  PROVE  LET file == WriteThrough(p, Fresh(p))
         IN  file \in File /\ file.complete /\ ~file.old /\ file.token = Tok(p)
BY FilesAreFiles, NoFileAssumption DEF WriteThrough, Filled, Fresh, File

LEMMA IInvStep == ASSUME OneOwnerCrash, IInv, [Next]_vars PROVE IInv'
<1> USE FileLockAssumption, NoFileAssumption
    DEF IInv, OneOwnerCrash, Goto, OwnerPoints, RecoveryPoints,
        Orphaned, Carries, Tok, Alive, Fresh, TypeOK, FileOrNone, File, Token,
        OwnerHasFile, RecovererHasFile, OldIsOrphaned, UnfinishedIsWritten,
        RecoveryIsLive, CleanupNeedsCrash, RecoveryNeverTaken, SecondLookHolds
<1>0. TypeOK'
  BY TypeStep
<1>1. ASSUME NEW p \in Proc, Begin(p) PROVE IInv'
  BY <1>0, <1>1 DEF Begin
<1>2. ASSUME NEW p \in Proc, OpenLock(p) PROVE IInv'
  <2>1. OwnerHasFile'
    BY <1>0, <1>2, FileNamesOwner DEF OpenLock
  <2>2. /\ RecovererHasFile' /\ OldIsOrphaned' /\ UnfinishedIsWritten' /\ RecoveryIsLive'
       /\ CleanupNeedsCrash' /\ RecoveryNeverTaken' /\ SecondLookHolds'
    BY <1>0, <1>2 DEF OpenLock
  <2>3. QED
    BY <1>0, <2>1, <2>2
<1>3. ASSUME NEW p \in Proc, WriteLock(p) PROVE IInv'
  <2>1. OwnerHasFile'
    BY <1>0, <1>3, FileNamesOwner, WriteFills DEF WriteLock
  <2>2. /\ RecovererHasFile' /\ OldIsOrphaned' /\ UnfinishedIsWritten' /\ RecoveryIsLive'
       /\ CleanupNeedsCrash' /\ RecoveryNeverTaken' /\ SecondLookHolds'
    BY <1>0, <1>3 DEF WriteLock, WriteThrough, Filled
  <2>3. QED
    BY <1>0, <2>1, <2>2
<1>4. ASSUME NEW p \in Proc, ReleaseRead(p) PROVE IInv'
  BY <1>0, <1>4 DEF ReleaseRead
<1>5. ASSUME NEW p \in Proc, ReleaseUnlink(p) PROVE IInv'
  <2>1. OwnerHasFile'
    BY <1>0, <1>5, FileNamesOwner DEF ReleaseUnlink
  <2>2. SecondLookHolds'
    BY <1>0, <1>5, FileNamesOwner DEF ReleaseUnlink
  <2>3. /\ RecovererHasFile' /\ OldIsOrphaned' /\ UnfinishedIsWritten' /\ RecoveryIsLive'
       /\ CleanupNeedsCrash' /\ RecoveryNeverTaken'
    BY <1>0, <1>5 DEF ReleaseUnlink
  <2>4. QED
    BY <1>0, <2>1, <2>2, <2>3
<1>6. ASSUME NEW p \in Proc, ReadLock(p) PROVE IInv'
  BY <1>0, <1>6 DEF ReadLock
<1>7. ASSUME NEW p \in Proc, JudgeLock(p) PROVE IInv'
  BY <1>0, <1>7 DEF JudgeLock, Abandoned
<1>8. ASSUME NEW p \in Proc, OpenRecovery(p) PROVE IInv'
  <2>1. RecovererHasFile'
    BY <1>0, <1>8, FileNamesOwner DEF OpenRecovery
  <2>2. /\ OwnerHasFile' /\ OldIsOrphaned' /\ UnfinishedIsWritten' /\ RecoveryIsLive'
       /\ CleanupNeedsCrash' /\ RecoveryNeverTaken' /\ SecondLookHolds'
    BY <1>0, <1>8 DEF OpenRecovery
  <2>3. QED
    BY <1>0, <2>1, <2>2
<1>9. ASSUME NEW p \in Proc, WriteRecovery(p) PROVE IInv'
  <2>1. RecovererHasFile'
    BY <1>0, <1>9, FileNamesOwner, WriteFills DEF WriteRecovery
  <2>2. /\ OwnerHasFile' /\ OldIsOrphaned' /\ UnfinishedIsWritten' /\ RecoveryIsLive'
       /\ CleanupNeedsCrash' /\ RecoveryNeverTaken' /\ SecondLookHolds'
    BY <1>0, <1>9 DEF WriteRecovery, WriteThrough, Filled
  <2>3. QED
    BY <1>0, <2>1, <2>2
<1>10. ASSUME NEW p \in Proc, ReadRecovery(p) PROVE IInv'
  BY <1>0, <1>10 DEF ReadRecovery
<1>11. ASSUME NEW p \in Proc, JudgeRecovery(p) PROVE IInv'
  BY <1>0, <1>11 DEF JudgeRecovery, Abandoned
<1>12. ASSUME NEW p \in Proc, UnlinkRecovery(p) PROVE IInv'
  BY <1>0, <1>12 DEF UnlinkRecovery
<1>13. ASSUME NEW p \in Proc, CheckLock(p) PROVE IInv'
  BY <1>0, <1>13 DEF CheckLock
<1>14. ASSUME NEW p \in Proc, JudgeAgain(p) PROVE IInv'
  BY <1>0, <1>14 DEF JudgeAgain, Abandoned
<1>15. ASSUME NEW p \in Proc, UnlinkLock(p) PROVE IInv'
  <2>1. OwnerHasFile'
    BY <1>0, <1>15, FileNamesOwner DEF UnlinkLock
  <2>2. SecondLookHolds'
    BY <1>0, <1>15, FileNamesOwner DEF UnlinkLock
  <2>3. /\ RecovererHasFile' /\ OldIsOrphaned' /\ UnfinishedIsWritten' /\ RecoveryIsLive'
       /\ CleanupNeedsCrash' /\ RecoveryNeverTaken'
    BY <1>0, <1>15 DEF UnlinkLock
  <2>4. QED
    BY <1>0, <2>1, <2>2, <2>3
<1>16. ASSUME NEW p \in Proc, ReleaseRecoveryRead(p) PROVE IInv'
  BY <1>0, <1>16 DEF ReleaseRecoveryRead
<1>17. ASSUME NEW p \in Proc, ReleaseRecoveryUnlink(p) PROVE IInv'
  <2>1. RecovererHasFile'
    BY <1>0, <1>17, FileNamesOwner DEF ReleaseRecoveryUnlink
  <2>2. /\ OwnerHasFile' /\ OldIsOrphaned' /\ UnfinishedIsWritten' /\ RecoveryIsLive'
       /\ CleanupNeedsCrash' /\ RecoveryNeverTaken' /\ SecondLookHolds'
    BY <1>0, <1>17 DEF ReleaseRecoveryUnlink
  <2>3. QED
    BY <1>0, <2>1, <2>2
<1>18. ASSUME NEW p \in Proc, Retry(p) PROVE IInv'
  BY <1>0, <1>18 DEF Retry
<1>19. ASSUME NEW p \in Proc, WriteLockFails(p) PROVE IInv'
  <2>1. OwnerHasFile'
    BY <1>0, <1>19, FileNamesOwner DEF WriteLockFails
  <2>2. SecondLookHolds'
    BY <1>0, <1>19, FileNamesOwner DEF WriteLockFails
  <2>3. /\ RecovererHasFile' /\ OldIsOrphaned' /\ UnfinishedIsWritten' /\ RecoveryIsLive'
       /\ CleanupNeedsCrash' /\ RecoveryNeverTaken'
    BY <1>0, <1>19 DEF WriteLockFails
  <2>4. QED
    BY <1>0, <2>1, <2>2, <2>3
<1>20. ASSUME NEW p \in Proc, SyncLockFails(p) PROVE IInv'
  BY <1>0, <1>20 DEF SyncLockFails, WriteThrough, Filled
<1>21. ASSUME NEW p \in Proc, WriteRecoveryFails(p) PROVE IInv'
  <2>1. RecovererHasFile'
    BY <1>0, <1>21, FileNamesOwner DEF WriteRecoveryFails
  <2>2. /\ OwnerHasFile' /\ OldIsOrphaned' /\ UnfinishedIsWritten' /\ RecoveryIsLive'
       /\ CleanupNeedsCrash' /\ RecoveryNeverTaken' /\ SecondLookHolds'
    BY <1>0, <1>21 DEF WriteRecoveryFails
  <2>3. QED
    BY <1>0, <2>1, <2>2
<1>22. ASSUME NEW p \in Proc, SyncRecoveryFails(p) PROVE IInv'
  BY <1>0, <1>22 DEF SyncRecoveryFails, WriteThrough, Filled
<1>23. ASSUME NEW p \in Proc, TimeOut(p) PROVE IInv'
  BY <1>0, <1>23 DEF TimeOut
<1>24. ASSUME NEW p \in Proc, Crash(p) PROVE IInv'
  BY <1>0, <1>24 DEF Crash
<1>25. ASSUME NEW p \in Proc, Restart(p) PROVE IInv'
  BY <1>0, <1>25 DEF Restart
<1>26. ASSUME AgeLock PROVE IInv'
  <2>1. OldIsOrphaned'
    BY <1>0, <1>26 DEF AgeLock
  <2>2. SecondLookHolds'
    BY <1>0, <1>26 DEF AgeLock
  <2>3. /\ OwnerHasFile' /\ RecovererHasFile' /\ UnfinishedIsWritten' /\ RecoveryIsLive'
       /\ CleanupNeedsCrash' /\ RecoveryNeverTaken'
    BY <1>0, <1>26 DEF AgeLock
  <2>4. QED
    BY <1>0, <2>1, <2>2, <2>3
<1>27. ASSUME AgeRecovery PROVE IInv'
  BY <1>0, <1>27 DEF AgeRecovery
<1>28. ASSUME UNCHANGED vars PROVE IInv'
  BY <1>0, <1>28 DEF vars
<1>29. QED
  BY <1>1, <1>2, <1>3, <1>4, <1>5, <1>6, <1>7, <1>8, <1>9, <1>10, <1>11, <1>12, <1>13, <1>14,
     <1>15, <1>16, <1>17, <1>18, <1>19, <1>20, <1>21, <1>22, <1>23, <1>24, <1>25, <1>26, <1>27, <1>28
     DEF Next, Step, Fault

-------------------------------------------------------------------------------
\* Every variable stays in its type, whatever processes do and whenever they die.
THEOREM TypeCorrect == Spec => []TypeOK
<1>1. Init => TypeOK
  BY FileLockAssumption DEF Init, TypeOK, FileOrNone, Points
<1>2. TypeOK /\ [Next]_vars => TypeOK'
  BY TypeStep
<1>3. QED
  BY <1>1, <1>2, PTL DEF Spec

LEMMA IInvHolds == ASSUME OneOwnerCrash PROVE Spec => []IInv
<1>1. Init => IInv
  <2>1. Init => TypeOK
    BY FileLockAssumption DEF Init, TypeOK, FileOrNone, Points
  <2>2. QED
    BY <2>1 DEF Init, IInv, OwnerHasFile, RecovererHasFile, OldIsOrphaned,
                UnfinishedIsWritten, RecoveryIsLive, CleanupNeedsCrash,
                RecoveryNeverTaken, SecondLookHolds, RecoveryPoints
<1>2. IInv /\ [Next]_vars => IInv'
  BY IInvStep
<1>3. QED
  BY <1>1, <1>2, PTL DEF Spec

\* If at most one process dies, and it dies owning the lock, two processes are
\* never inside the operation one lock file guards.
THEOREM Exclusion == ASSUME OneOwnerCrash PROVE Spec => []MutualExclusion
<1>1. IInv => MutualExclusion
  <2> SUFFICES ASSUME IInv, NEW p \in Inside, NEW q \in Inside PROVE p = q
    BY DEF MutualExclusion
  <2>1. lock.token.pid = p /\ lock.token.pid = q
    BY FileNamesOwner DEF Inside, OwnerPoints
  <2>2. QED
    BY <2>1
<1>2. QED
  BY <1>1, IInvHolds, PTL

\* Under the same assumption the comment's promise is kept: one cleaner at a time.
THEOREM CleanupSerialized == ASSUME OneOwnerCrash PROVE Spec => []RecoverySerialized
<1>1. IInv => RecoverySerialized
  <2> SUFFICES ASSUME IInv, NEW p \in Proc, NEW q \in Proc,
                      pc[p] = "unlink", pc[q] = "unlink"
               PROVE  p = q
    BY DEF RecoverySerialized
  <2>1. recovery.token.pid = p /\ recovery.token.pid = q
    BY FileNamesOwner DEF RecoveryPoints
  <2>2. QED
    BY <2>1
<1>2. QED
  BY <1>1, IInvHolds, PTL

\* Under the same assumption cleanup never takes the file of a process at work.
THEOREM CleanupTakesOrphans ==
  ASSUME OneOwnerCrash PROVE Spec => []OnlyAbandonedReclaimed
<1>1. IInv => OnlyAbandonedReclaimed
  BY DEF IInv, SecondLookHolds, OnlyAbandonedReclaimed
<1>2. QED
  BY <1>1, IInvHolds, PTL

-------------------------------------------------------------------------------
\* A process at an owner point is the owner its users see.
LEMMA OwnerPointsOwn ==
  ASSUME IInv, NEW p \in Proc, pc[p] \in OwnerPoints
  PROVE  Owner = p /\ lock # NoFile
BY FileNamesOwner DEF Owner

\* A step that touches neither the lock file nor who is at an owner point is
\* invisible to the lock's users.
LEMMA QuietStep ==
  ASSUME TypeOK, lock' = lock, NEW p \in Proc, NEW point \in Points,
         pc' = [pc EXCEPT ![p] = point],
         pc[p] \notin OwnerPoints, point \notin OwnerPoints,
         \A q \in Proc \ {p} : attempt'[q] = attempt[q]
  PROVE  UNCHANGED M!vars
<1>1. Inside' = Inside
  BY DEF Inside, OwnerPoints, TypeOK
<1>2. lock # NoFile => (Orphaned(lock, OwnerPoints)' <=> Orphaned(lock, OwnerPoints))
  <2> SUFFICES ASSUME lock # NoFile
               PROVE  Orphaned(lock, OwnerPoints)' <=> Orphaned(lock, OwnerPoints)
    OBVIOUS
  <2>1. lock.token.pid \in Proc
    BY DEF TypeOK, FileOrNone, File, Token
  <2>2. QED
    BY <2>1 DEF Orphaned, Tok, TypeOK
<1>3. Owner' = Owner
  BY <1>2 DEF Owner
<1>4. QED
  BY <1>1, <1>3 DEF M!vars

\* What the users see after a step, from the file and its process's program point.
LEMMA OwnerAfter ==
  ASSUME NEW p \in Proc
  PROVE  /\ lock' = NoFile => Owner' = "free"
         /\ lock' # NoFile /\ lock'.token = Tok(p)' /\ pc'[p] \in OwnerPoints => Owner' = p
         /\ lock' # NoFile /\ lock'.token.pid = p /\ pc'[p] \notin OwnerPoints
              => Owner' = "orphan"
<1>1. Tok(p)'.pid = p
  BY DEF Tok
<1>2. QED
  BY <1>1 DEF Owner, Orphaned, OwnerPoints

\* Every step of the lock-file protocol is a step of an abstract lock.
LEMMA StepRefines == ASSUME OneOwnerCrash, IInv, [Next]_vars PROVE [M!Next]_(M!vars)
<1> USE NoFileAssumption DEF Goto
<1>0. TypeOK
  BY DEF IInv
<1>1. ASSUME NEW p \in Proc, OpenLock(p) PROVE [M!Next]_(M!vars)
  <2>1. CASE lock = NoFile
    <3>1. pc'[p] = "write" /\ Inside' = Inside
      BY <1>0, <1>1, <2>1 DEF OpenLock, Inside, TypeOK
    <3>2. lock' # NoFile /\ lock'.token = Tok(p)'
      BY <1>0, <1>1, <2>1, FilesAreFiles DEF OpenLock, Fresh, Tok
    <3>3. Owner = "free" /\ Owner' = p
      BY <3>1, <3>2, <2>1, OwnerAfter DEF Owner, OwnerPoints
    <3>4. QED
      BY <3>1, <3>3 DEF M!Next, M!Acquire
  <2>2. CASE lock # NoFile
    BY <1>0, <1>1, <2>2, QuietStep DEF OpenLock, OwnerPoints, Points
  <2>3. QED
    BY <2>1, <2>2
<1>2. ASSUME NEW p \in Proc, WriteLock(p) PROVE [M!Next]_(M!vars)
  <2>1. Owner = p /\ lock = Fresh(p)
    BY <1>2, OwnerPointsOwn DEF WriteLock, OwnerPoints, IInv, OwnerHasFile
  <2>2. pc'[p] = "held" /\ Inside' = Inside \cup {p}
    BY <1>0, <1>2 DEF WriteLock, Inside, TypeOK
  <2>3. lock' # NoFile /\ lock'.token = Tok(p)'
    BY <1>0, <1>2, <2>1, WriteFills DEF WriteLock, Tok
  <2>4. Owner' = p
    BY <2>2, <2>3, OwnerAfter DEF OwnerPoints
  <2>5. QED
    BY <2>1, <2>2, <2>4 DEF M!Next, M!Enter
<1>3. ASSUME NEW p \in Proc, ReleaseRead(p) PROVE [M!Next]_(M!vars)
  <2>1. Owner = p /\ Carries(lock, Tok(p))
    BY <1>3, OwnerPointsOwn DEF ReleaseRead, OwnerPoints, IInv, OwnerHasFile
  <2>2. pc'[p] = "unlinkOwn" /\ Inside' = Inside /\ lock' = lock
    BY <1>0, <1>3, <2>1 DEF ReleaseRead, Inside, TypeOK
  <2>3. Owner' = p
    BY <1>3, <2>1, <2>2, OwnerAfter DEF ReleaseRead, OwnerPoints, Carries, Tok
  <2>4. QED
    BY <2>1, <2>2, <2>3 DEF M!vars
<1>4. ASSUME NEW p \in Proc, ReleaseUnlink(p) \/ WriteLockFails(p) PROVE [M!Next]_(M!vars)
  <2>1. Owner = p /\ Owner' = "free"
    BY <1>4, OwnerPointsOwn, OwnerAfter DEF ReleaseUnlink, WriteLockFails, OwnerPoints
  <2>2. Inside' = Inside \ {p}
    BY <1>0, <1>4 DEF ReleaseUnlink, WriteLockFails, Inside, TypeOK
  <2>3. QED
    BY <2>1, <2>2 DEF M!Next, M!Release
<1>5. ASSUME NEW p \in Proc, UnlinkLock(p) PROVE [M!Next]_(M!vars)
  <2>1. Owner = "orphan" /\ Owner' = "free"
    BY <1>5, OwnerAfter DEF UnlinkLock, IInv, SecondLookHolds, Orphaned, Owner
  <2>2. Inside' = Inside
    BY <1>0, <1>5 DEF UnlinkLock, Inside, TypeOK
  <2>3. QED
    BY <2>1, <2>2 DEF M!Next, M!Reclaim
<1>6. ASSUME NEW p \in Proc, SyncLockFails(p) PROVE [M!Next]_(M!vars)
  <2>1. Owner = p /\ lock = Fresh(p)
    BY <1>6, OwnerPointsOwn DEF SyncLockFails, OwnerPoints, IInv, OwnerHasFile
  <2>2. lock' # NoFile /\ lock'.token.pid = p
    <3>1. Tok(p).pid = p
      BY DEF Tok
    <3>2. QED
      BY <1>0, <1>6, <2>1, <3>1, WriteFills DEF SyncLockFails
  <2>3. Owner' = "orphan" /\ Inside' = Inside \ {p}
    BY <1>0, <1>6, <2>2, OwnerAfter DEF SyncLockFails, OwnerPoints, Inside, TypeOK
  <2>4. QED
    BY <2>1, <2>3 DEF M!Next, M!Abandon
<1>7. ASSUME NEW p \in Proc, Crash(p) PROVE [M!Next]_(M!vars)
  <2>1. pc[p] \in OwnerPoints
    BY <1>7 DEF Crash, OneOwnerCrash
  <2>2. Owner = p /\ lock # NoFile /\ lock.token.pid = p
    BY <2>1, OwnerPointsOwn, FileNamesOwner
  <2>3. Owner' = "orphan" /\ Inside' = Inside \ {p}
    BY <1>0, <1>7, <2>2, OwnerAfter DEF Crash, OwnerPoints, Inside, TypeOK
  <2>4. QED
    BY <2>2, <2>3 DEF M!Next, M!Abandon
<1>8. ASSUME AgeLock PROVE [M!Next]_(M!vars)
  <2>1. lock \in File /\ lock' \in File /\ lock'.token = lock.token
    BY <1>0, <1>8 DEF AgeLock, Orphaned, TypeOK, FileOrNone, File
  <2>2. Owner' = Owner /\ Inside' = Inside
    BY <1>8, <2>1 DEF AgeLock, Owner, Orphaned, Tok, Inside
  <2>3. QED
    BY <2>2 DEF M!vars
<1>9. ASSUME NEW p \in Proc,
             \/ Begin(p) \/ ReadLock(p) \/ JudgeLock(p)
             \/ OpenRecovery(p) \/ WriteRecovery(p) \/ ReadRecovery(p) \/ JudgeRecovery(p)
             \/ UnlinkRecovery(p) \/ CheckLock(p) \/ JudgeAgain(p)
             \/ ReleaseRecoveryRead(p) \/ ReleaseRecoveryUnlink(p) \/ Retry(p)
             \/ WriteRecoveryFails(p) \/ SyncRecoveryFails(p) \/ TimeOut(p) \/ Restart(p)
      PROVE  [M!Next]_(M!vars)
  <2>1. /\ lock' = lock /\ pc[p] \notin OwnerPoints
        /\ \A q \in Proc \ {p} : attempt'[q] = attempt[q]
        /\ \E point \in Points : point \notin OwnerPoints /\ pc' = [pc EXCEPT ![p] = point]
    BY <1>0, <1>9 DEF Begin, ReadLock, JudgeLock, OpenRecovery, WriteRecovery, ReadRecovery,
       JudgeRecovery, UnlinkRecovery, CheckLock, JudgeAgain, ReleaseRecoveryRead,
       ReleaseRecoveryUnlink, Retry, WriteRecoveryFails, SyncRecoveryFails, TimeOut, Restart,
       OwnerPoints, RecoveryPoints, Points, TypeOK
  <2>2. QED
    BY <1>0, <2>1, QuietStep
<1>10. ASSUME AgeRecovery \/ UNCHANGED vars PROVE [M!Next]_(M!vars)
  BY <1>10 DEF AgeRecovery, vars, M!vars, Owner, Orphaned, Tok, Inside
<1>11. QED
  BY <1>1, <1>2, <1>3, <1>4, <1>5, <1>6, <1>7, <1>8, <1>9, <1>10 DEF Next, Step, Fault

\* A lock file is a lock: if at most one process dies, and it dies owning the
\* lock, every behaviour of the protocol is one of the abstract lock.
THEOREM FileLockIsMutex == ASSUME OneOwnerCrash PROVE Spec => RefinesMutex
<1>1. Init => M!Init
  BY DEF Init, M!Init, Owner, Inside
<1>2. IInv /\ [Next]_vars => [M!Next]_(M!vars)
  BY StepRefines
<1>3. QED
  BY <1>1, <1>2, IInvHolds, PTL DEF Spec, RefinesMutex, M!Spec

-------------------------------------------------------------------------------
(* A record *)

VARIABLES
  at,        \* where a client's call is: pc of FileRecord
  owner,     \* the record's lock file, and
  inside     \* those who work under it

Rec == INSTANCE FileRecord WITH pc <- at

ReplaceKinds == {"cas", "casExact", "delete"}

\* Each call is at a point where its operation goes.
KindAtPoint ==
  \A c \in Client :
    /\ at[c] = "look" => call[c].kind \in {"get", "delete"}
    /\ at[c] = "fetch" => call[c].kind = "get"
    /\ at[c] = "link" => call[c].kind = "insert"
    /\ at[c] \in {"acquire", "enter", "publish"} => call[c].kind \in ReplaceKinds \cup {"set"}
    /\ at[c] \in {"exists", "compare"} => call[c].kind \in ReplaceKinds

\* A call is answered when it took effect, and not before.
AnswerAtPoint ==
  \A c \in Client :
    /\ at[c] = "idle" <=> outcome[c] = "idle"
    /\ at[c] \in {"idle", "dead"} => found[c] = NoRecord
    /\ at[c] = "dead" <=> outcome[c] = "dead"
    /\ at[c] \in {"look", "fetch", "link", "acquire", "enter", "exists", "compare", "publish"} =>
         outcome[c] = "pending" /\ found[c] = NoRecord
    /\ at[c] = "release" =>
         outcome[c] \in {"written", "updated", "deleted", "conflict", "missing", "error"}
    /\ at[c] = "return" => outcome[c] \in Rec!A!Answers \cup {"error"}

\* The lock file belongs to whoever works under it.
LockHeld == \A c \in Client : at[c] \in Rec!Locked => owner = c

RecordInv ==
  /\ Rec!TypeOK /\ KindAtPoint /\ AnswerAtPoint /\ LockHeld
  /\ Rec!NothingLost /\ Rec!StaysReadable

-------------------------------------------------------------------------------
(* The invariant *)

LEMMA RequestKinds ==
  ASSUME NEW req \in Rec!A!Request
  PROVE  /\ req.kind \in {"get", "insert", "set"} \cup ReplaceKinds
         /\ req.value \in Value \cup {NoRecord}
BY DEF Rec!A!Request, ReplaceKinds

LEMMA NothingIsARequest == Rec!A!Nothing \in Rec!A!Request
BY DEF Rec!A!Nothing, Rec!A!Request

LEMMA RecordTypeInit == Rec!Init => Rec!TypeOK
BY NothingIsARequest DEF Rec!Init, Rec!A!Init, Rec!L!Init, Rec!TypeOK, Rec!Points,
   Rec!A!Outcomes

LEMMA RecordTypeStep == Rec!TypeOK /\ [Rec!Next]_(Rec!vars) => Rec!TypeOK'
<1> SUFFICES ASSUME Rec!TypeOK, [Rec!Next]_(Rec!vars) PROVE Rec!TypeOK'
  OBVIOUS
<1> USE DEF Rec!TypeOK, Rec!Points, Rec!Locked, Rec!Goto, Rec!Answer, Rec!lockVars
<1>1. ASSUME NEW c \in Client, NEW req \in Rec!A!Request, Rec!Call(c, req) PROVE Rec!TypeOK'
  BY <1>1 DEF Rec!Call, Rec!A!Call, Rec!A!Ends, Rec!A!Outcomes
<1>2. ASSUME NEW c \in Client, Rec!Look(c) PROVE Rec!TypeOK'
  BY <1>2 DEF Rec!Look, Rec!A!Outcomes, Rec!A!Answers
<1>3. ASSUME NEW c \in Client, Rec!Fetch(c) PROVE Rec!TypeOK'
  BY <1>3 DEF Rec!Fetch, Rec!A!Outcomes, Rec!A!Answers
<1>4. ASSUME NEW c \in Client, Rec!Link(c) PROVE Rec!TypeOK'
  BY <1>4, RequestKinds DEF Rec!Link, Rec!A!Outcomes, Rec!A!Answers
<1>5. ASSUME NEW c \in Client, Rec!Acquire(c) PROVE Rec!TypeOK'
  BY <1>5 DEF Rec!Acquire, Rec!L!Acquire, Rec!A!Outcomes
<1>6. ASSUME NEW c \in Client, Rec!Enter(c) PROVE Rec!TypeOK'
  BY <1>6 DEF Rec!Enter, Rec!L!Enter, Rec!A!Outcomes
<1>7. ASSUME NEW c \in Client, Rec!Exists(c) PROVE Rec!TypeOK'
  BY <1>7 DEF Rec!Exists, Rec!A!Outcomes, Rec!A!Answers
<1>8. ASSUME NEW c \in Client, Rec!Compare(c) PROVE Rec!TypeOK'
  BY <1>8 DEF Rec!Compare, Rec!A!Matches, Rec!A!Outcomes, Rec!A!Answers
<1>9. ASSUME NEW c \in Client, Rec!Publish(c) PROVE Rec!TypeOK'
  BY <1>9, RequestKinds DEF Rec!Publish, Rec!A!Outcomes, Rec!A!Answers
<1>10. ASSUME NEW c \in Client, Rec!Release(c) PROVE Rec!TypeOK'
  BY <1>10 DEF Rec!Release, Rec!L!Release, Rec!A!Outcomes
<1>11. ASSUME NEW c \in Client, Rec!Return(c) PROVE Rec!TypeOK'
  BY <1>11, NothingIsARequest DEF Rec!Return, Rec!A!Forget, Rec!A!Outcomes
<1>12. ASSUME NEW c \in Client, Rec!SyncFails(c) PROVE Rec!TypeOK'
  BY <1>12 DEF Rec!SyncFails, Rec!A!Outcomes
<1>13. ASSUME NEW c \in Client, Rec!ReleaseFails(c) PROVE Rec!TypeOK'
  BY <1>13 DEF Rec!ReleaseFails, Rec!L!Abandon, Rec!A!Outcomes
<1>14. ASSUME NEW c \in Client, Rec!Fail(c) PROVE Rec!TypeOK'
  BY <1>14 DEF Rec!Fail, Rec!A!Outcomes
<1>15. ASSUME NEW c \in Client, Rec!Die(c) PROVE Rec!TypeOK'
  BY <1>15, NothingIsARequest DEF Rec!Die, Rec!L!Abandon, Rec!A!Forget, Rec!A!Outcomes
<1>16. ASSUME NEW c \in Client, Rec!Restart(c) PROVE Rec!TypeOK'
  BY <1>16 DEF Rec!Restart, Rec!A!Outcomes
<1>17. CASE Rec!Reclaim
  BY <1>17 DEF Rec!Reclaim, Rec!L!Reclaim
<1>18. CASE UNCHANGED Rec!vars
  BY <1>18 DEF Rec!vars
<1> QED
  BY <1>1, <1>2, <1>3, <1>4, <1>5, <1>6, <1>7, <1>8, <1>9, <1>10, <1>11, <1>12, <1>13,
     <1>14, <1>15, <1>16, <1>17, <1>18 DEF Rec!Next, Rec!Step

LEMMA KindAtPointStep == RecordInv /\ [Rec!Next]_(Rec!vars) => KindAtPoint'
<1> SUFFICES ASSUME RecordInv, [Rec!Next]_(Rec!vars) PROVE KindAtPoint'
  OBVIOUS
<1> USE ClientAssumption DEF RecordInv, Rec!TypeOK, KindAtPoint, ReplaceKinds,
   Rec!Points, Rec!Locked, Rec!Goto, Rec!Answer, Rec!lockVars
<1>1. ASSUME NEW c \in Client, NEW req \in Rec!A!Request, Rec!Call(c, req) PROVE KindAtPoint'
  BY <1>1, RequestKinds DEF Rec!Call, Rec!A!Call, Rec!A!Ends
<1>2. ASSUME NEW c \in Client, Rec!Look(c) PROVE KindAtPoint'
  BY <1>2 DEF Rec!Look
<1>3. ASSUME NEW c \in Client, Rec!Fetch(c) PROVE KindAtPoint'
  BY <1>3 DEF Rec!Fetch
<1>4. ASSUME NEW c \in Client, Rec!Link(c) PROVE KindAtPoint'
  BY <1>4 DEF Rec!Link
<1>5. ASSUME NEW c \in Client, Rec!Acquire(c) PROVE KindAtPoint'
  BY <1>5 DEF Rec!Acquire, Rec!L!Acquire
<1>6. ASSUME NEW c \in Client, Rec!Enter(c) PROVE KindAtPoint'
  BY <1>6 DEF Rec!Enter, Rec!L!Enter
<1>7. ASSUME NEW c \in Client, Rec!Exists(c) PROVE KindAtPoint'
  BY <1>7 DEF Rec!Exists
<1>8. ASSUME NEW c \in Client, Rec!Compare(c) PROVE KindAtPoint'
  BY <1>8 DEF Rec!Compare, Rec!A!Matches
<1>9. ASSUME NEW c \in Client, Rec!Publish(c) PROVE KindAtPoint'
  BY <1>9 DEF Rec!Publish
<1>10. ASSUME NEW c \in Client, Rec!Release(c) PROVE KindAtPoint'
  BY <1>10 DEF Rec!Release, Rec!L!Release
<1>11. ASSUME NEW c \in Client, Rec!Return(c) PROVE KindAtPoint'
  BY <1>11 DEF Rec!Return, Rec!A!Forget
<1>12. ASSUME NEW c \in Client, Rec!SyncFails(c) PROVE KindAtPoint'
  BY <1>12 DEF Rec!SyncFails
<1>13. ASSUME NEW c \in Client, Rec!ReleaseFails(c) PROVE KindAtPoint'
  BY <1>13 DEF Rec!ReleaseFails, Rec!L!Abandon
<1>14. ASSUME NEW c \in Client, Rec!Fail(c) PROVE KindAtPoint'
  BY <1>14 DEF Rec!Fail
<1>15. ASSUME NEW c \in Client, Rec!Die(c) PROVE KindAtPoint'
  BY <1>15 DEF Rec!Die, Rec!L!Abandon, Rec!A!Forget
<1>16. ASSUME NEW c \in Client, Rec!Restart(c) PROVE KindAtPoint'
  BY <1>16 DEF Rec!Restart
<1>17. CASE Rec!Reclaim
  BY <1>17 DEF Rec!Reclaim, Rec!L!Reclaim
<1>18. CASE UNCHANGED Rec!vars
  BY <1>18 DEF Rec!vars
<1> QED
  BY <1>1, <1>2, <1>3, <1>4, <1>5, <1>6, <1>7, <1>8, <1>9, <1>10, <1>11, <1>12, <1>13,
     <1>14, <1>15, <1>16, <1>17, <1>18 DEF Rec!Next, Rec!Step

LEMMA AnswerAtPointStep == RecordInv /\ [Rec!Next]_(Rec!vars) => AnswerAtPoint'
<1> SUFFICES ASSUME RecordInv, [Rec!Next]_(Rec!vars) PROVE AnswerAtPoint'
  OBVIOUS
<1> USE ClientAssumption DEF RecordInv, Rec!TypeOK, AnswerAtPoint, Rec!A!Answers,
   Rec!Points, Rec!Locked, Rec!Goto, Rec!Answer, Rec!lockVars
<1>1. ASSUME NEW c \in Client, NEW req \in Rec!A!Request, Rec!Call(c, req) PROVE AnswerAtPoint'
  BY <1>1, RequestKinds DEF Rec!Call, Rec!A!Call, Rec!A!Ends, ReplaceKinds
<1>2. ASSUME NEW c \in Client, Rec!Look(c) PROVE AnswerAtPoint'
  BY <1>2 DEF Rec!Look
<1>3. ASSUME NEW c \in Client, Rec!Fetch(c) PROVE AnswerAtPoint'
  BY <1>3 DEF Rec!Fetch
<1>4. ASSUME NEW c \in Client, Rec!Link(c) PROVE AnswerAtPoint'
  BY <1>4 DEF Rec!Link
<1>5. ASSUME NEW c \in Client, Rec!Acquire(c) PROVE AnswerAtPoint'
  BY <1>5 DEF Rec!Acquire, Rec!L!Acquire
<1>6. ASSUME NEW c \in Client, Rec!Enter(c) PROVE AnswerAtPoint'
  BY <1>6 DEF Rec!Enter, Rec!L!Enter
<1>7. ASSUME NEW c \in Client, Rec!Exists(c) PROVE AnswerAtPoint'
  BY <1>7 DEF Rec!Exists
<1>8. ASSUME NEW c \in Client, Rec!Compare(c) PROVE AnswerAtPoint'
  BY <1>8 DEF Rec!Compare, Rec!A!Matches
<1>9. ASSUME NEW c \in Client, Rec!Publish(c) PROVE AnswerAtPoint'
  BY <1>9 DEF Rec!Publish
<1>10. ASSUME NEW c \in Client, Rec!Release(c) PROVE AnswerAtPoint'
  BY <1>10 DEF Rec!Release, Rec!L!Release
<1>11. ASSUME NEW c \in Client, Rec!Return(c) PROVE AnswerAtPoint'
  BY <1>11 DEF Rec!Return, Rec!A!Forget, Rec!A!Nothing
<1>12. ASSUME NEW c \in Client, Rec!SyncFails(c) PROVE AnswerAtPoint'
  BY <1>12 DEF Rec!SyncFails
<1>13. ASSUME NEW c \in Client, Rec!ReleaseFails(c) PROVE AnswerAtPoint'
  BY <1>13 DEF Rec!ReleaseFails, Rec!L!Abandon
<1>14. ASSUME NEW c \in Client, Rec!Fail(c) PROVE AnswerAtPoint'
  BY <1>14 DEF Rec!Fail
<1>15. ASSUME NEW c \in Client, Rec!Die(c) PROVE AnswerAtPoint'
  BY <1>15 DEF Rec!Die, Rec!L!Abandon, Rec!A!Forget, Rec!A!Nothing
<1>16. ASSUME NEW c \in Client, Rec!Restart(c) PROVE AnswerAtPoint'
  BY <1>16 DEF Rec!Restart
<1>17. CASE Rec!Reclaim
  BY <1>17 DEF Rec!Reclaim, Rec!L!Reclaim
<1>18. CASE UNCHANGED Rec!vars
  BY <1>18 DEF Rec!vars
<1> QED
  BY <1>1, <1>2, <1>3, <1>4, <1>5, <1>6, <1>7, <1>8, <1>9, <1>10, <1>11, <1>12, <1>13,
     <1>14, <1>15, <1>16, <1>17, <1>18 DEF Rec!Next, Rec!Step

LEMMA LockHeldStep == RecordInv /\ [Rec!Next]_(Rec!vars) => LockHeld'
<1> SUFFICES ASSUME RecordInv, [Rec!Next]_(Rec!vars) PROVE LockHeld'
  OBVIOUS
<1> USE ClientAssumption DEF RecordInv, Rec!TypeOK, LockHeld, Rec!Points, Rec!Locked,
   Rec!Goto, Rec!Answer, Rec!lockVars
<1>1. ASSUME NEW c \in Client, NEW req \in Rec!A!Request, Rec!Call(c, req) PROVE LockHeld'
  BY <1>1, RequestKinds DEF Rec!Call, Rec!A!Call, Rec!A!Ends, ReplaceKinds
<1>2. ASSUME NEW c \in Client, Rec!Look(c) PROVE LockHeld'
  BY <1>2 DEF Rec!Look
<1>3. ASSUME NEW c \in Client, Rec!Fetch(c) PROVE LockHeld'
  BY <1>3 DEF Rec!Fetch
<1>4. ASSUME NEW c \in Client, Rec!Link(c) PROVE LockHeld'
  BY <1>4 DEF Rec!Link
<1>5. ASSUME NEW c \in Client, Rec!Acquire(c) PROVE LockHeld'
  BY <1>5 DEF Rec!Acquire, Rec!L!Acquire
<1>6. ASSUME NEW c \in Client, Rec!Enter(c) PROVE LockHeld'
  BY <1>6 DEF Rec!Enter, Rec!L!Enter
<1>7. ASSUME NEW c \in Client, Rec!Exists(c) PROVE LockHeld'
  BY <1>7 DEF Rec!Exists
<1>8. ASSUME NEW c \in Client, Rec!Compare(c) PROVE LockHeld'
  BY <1>8 DEF Rec!Compare, Rec!A!Matches
<1>9. ASSUME NEW c \in Client, Rec!Publish(c) PROVE LockHeld'
  BY <1>9 DEF Rec!Publish
<1>10. ASSUME NEW c \in Client, Rec!Release(c) PROVE LockHeld'
  BY <1>10 DEF Rec!Release, Rec!L!Release
<1>11. ASSUME NEW c \in Client, Rec!Return(c) PROVE LockHeld'
  BY <1>11 DEF Rec!Return, Rec!A!Forget
<1>12. ASSUME NEW c \in Client, Rec!SyncFails(c) PROVE LockHeld'
  BY <1>12 DEF Rec!SyncFails
<1>13. ASSUME NEW c \in Client, Rec!ReleaseFails(c) PROVE LockHeld'
  BY <1>13 DEF Rec!ReleaseFails, Rec!L!Abandon
<1>14. ASSUME NEW c \in Client, Rec!Fail(c) PROVE LockHeld'
  BY <1>14 DEF Rec!Fail
<1>15. ASSUME NEW c \in Client, Rec!Die(c) PROVE LockHeld'
  BY <1>15 DEF Rec!Die, Rec!L!Abandon, Rec!A!Forget
<1>16. ASSUME NEW c \in Client, Rec!Restart(c) PROVE LockHeld'
  BY <1>16 DEF Rec!Restart
<1>17. CASE Rec!Reclaim
  BY <1>17 DEF Rec!Reclaim, Rec!L!Reclaim
<1>18. CASE UNCHANGED Rec!vars
  BY <1>18 DEF Rec!vars
<1> QED
  BY <1>1, <1>2, <1>3, <1>4, <1>5, <1>6, <1>7, <1>8, <1>9, <1>10, <1>11, <1>12, <1>13,
     <1>14, <1>15, <1>16, <1>17, <1>18 DEF Rec!Next, Rec!Step

LEMMA NothingLostStep == RecordInv /\ [Rec!Next]_(Rec!vars) => Rec!NothingLost'
<1> SUFFICES ASSUME RecordInv, [Rec!Next]_(Rec!vars) PROVE Rec!NothingLost'
  OBVIOUS
<1> USE ClientAssumption DEF RecordInv, Rec!TypeOK, Rec!NothingLost, Rec!A!Matches,
   Rec!Points, Rec!Locked, Rec!Goto, Rec!Answer, Rec!lockVars
<1>1. ASSUME NEW c \in Client, NEW req \in Rec!A!Request, Rec!Call(c, req) PROVE Rec!NothingLost'
  BY <1>1, RequestKinds DEF Rec!Call, Rec!A!Call, Rec!A!Ends, ReplaceKinds
<1>2. ASSUME NEW c \in Client, Rec!Look(c) PROVE Rec!NothingLost'
  BY <1>2 DEF Rec!Look
<1>3. ASSUME NEW c \in Client, Rec!Fetch(c) PROVE Rec!NothingLost'
  BY <1>3 DEF Rec!Fetch
<1>4. ASSUME NEW c \in Client, Rec!Link(c) PROVE Rec!NothingLost'
  BY <1>4 DEF Rec!Link, LockHeld, KindAtPoint, ReplaceKinds
<1>5. ASSUME NEW c \in Client, Rec!Acquire(c) PROVE Rec!NothingLost'
  BY <1>5 DEF Rec!Acquire, Rec!L!Acquire
<1>6. ASSUME NEW c \in Client, Rec!Enter(c) PROVE Rec!NothingLost'
  BY <1>6 DEF Rec!Enter, Rec!L!Enter, KindAtPoint, ReplaceKinds
<1>7. ASSUME NEW c \in Client, Rec!Exists(c) PROVE Rec!NothingLost'
  BY <1>7 DEF Rec!Exists
<1>8. ASSUME NEW c \in Client, Rec!Compare(c) PROVE Rec!NothingLost'
  BY <1>8 DEF Rec!Compare, Rec!A!Matches, KindAtPoint, ReplaceKinds
<1>9. ASSUME NEW c \in Client, Rec!Publish(c) PROVE Rec!NothingLost'
  BY <1>9 DEF Rec!Publish, LockHeld, KindAtPoint, ReplaceKinds
<1>10. ASSUME NEW c \in Client, Rec!Release(c) PROVE Rec!NothingLost'
  BY <1>10 DEF Rec!Release, Rec!L!Release
<1>11. ASSUME NEW c \in Client, Rec!Return(c) PROVE Rec!NothingLost'
  BY <1>11 DEF Rec!Return, Rec!A!Forget, LockHeld
<1>12. ASSUME NEW c \in Client, Rec!SyncFails(c) PROVE Rec!NothingLost'
  BY <1>12 DEF Rec!SyncFails
<1>13. ASSUME NEW c \in Client, Rec!ReleaseFails(c) PROVE Rec!NothingLost'
  BY <1>13 DEF Rec!ReleaseFails, Rec!L!Abandon
<1>14. ASSUME NEW c \in Client, Rec!Fail(c) PROVE Rec!NothingLost'
  BY <1>14 DEF Rec!Fail
<1>15. ASSUME NEW c \in Client, Rec!Die(c) PROVE Rec!NothingLost'
  BY <1>15 DEF Rec!Die, Rec!L!Abandon, Rec!A!Forget, LockHeld
<1>16. ASSUME NEW c \in Client, Rec!Restart(c) PROVE Rec!NothingLost'
  BY <1>16 DEF Rec!Restart
<1>17. CASE Rec!Reclaim
  BY <1>17 DEF Rec!Reclaim, Rec!L!Reclaim
<1>18. CASE UNCHANGED Rec!vars
  BY <1>18 DEF Rec!vars
<1> QED
  BY <1>1, <1>2, <1>3, <1>4, <1>5, <1>6, <1>7, <1>8, <1>9, <1>10, <1>11, <1>12, <1>13,
     <1>14, <1>15, <1>16, <1>17, <1>18 DEF Rec!Next, Rec!Step

LEMMA StaysReadableStep == RecordInv /\ [Rec!Next]_(Rec!vars) => Rec!StaysReadable'
<1> SUFFICES ASSUME RecordInv, [Rec!Next]_(Rec!vars) PROVE Rec!StaysReadable'
  OBVIOUS
<1> USE ClientAssumption DEF RecordInv, Rec!TypeOK, Rec!StaysReadable, Rec!Points,
   Rec!Locked, Rec!Goto, Rec!Answer, Rec!lockVars
<1>1. ASSUME NEW c \in Client, NEW req \in Rec!A!Request, Rec!Call(c, req) PROVE Rec!StaysReadable'
  BY <1>1, RequestKinds DEF Rec!Call, Rec!A!Call, Rec!A!Ends, ReplaceKinds
<1>2. ASSUME NEW c \in Client, Rec!Look(c) PROVE Rec!StaysReadable'
  BY <1>2 DEF Rec!Look
<1>3. ASSUME NEW c \in Client, Rec!Fetch(c) PROVE Rec!StaysReadable'
  BY <1>3 DEF Rec!Fetch
<1>4. ASSUME NEW c \in Client, Rec!Link(c) PROVE Rec!StaysReadable'
  BY <1>4 DEF Rec!Link, LockHeld, KindAtPoint, ReplaceKinds
<1>5. ASSUME NEW c \in Client, Rec!Acquire(c) PROVE Rec!StaysReadable'
  BY <1>5 DEF Rec!Acquire, Rec!L!Acquire
<1>6. ASSUME NEW c \in Client, Rec!Enter(c) PROVE Rec!StaysReadable'
  BY <1>6 DEF Rec!Enter, Rec!L!Enter
<1>7. ASSUME NEW c \in Client, Rec!Exists(c) PROVE Rec!StaysReadable'
  BY <1>7 DEF Rec!Exists
<1>8. ASSUME NEW c \in Client, Rec!Compare(c) PROVE Rec!StaysReadable'
  BY <1>8 DEF Rec!Compare, Rec!A!Matches
<1>9. ASSUME NEW c \in Client, Rec!Publish(c) PROVE Rec!StaysReadable'
  BY <1>9 DEF Rec!Publish, LockHeld, KindAtPoint, ReplaceKinds
<1>10. ASSUME NEW c \in Client, Rec!Release(c) PROVE Rec!StaysReadable'
  BY <1>10 DEF Rec!Release, Rec!L!Release
<1>11. ASSUME NEW c \in Client, Rec!Return(c) PROVE Rec!StaysReadable'
  BY <1>11 DEF Rec!Return, Rec!A!Forget, LockHeld
<1>12. ASSUME NEW c \in Client, Rec!SyncFails(c) PROVE Rec!StaysReadable'
  BY <1>12 DEF Rec!SyncFails
<1>13. ASSUME NEW c \in Client, Rec!ReleaseFails(c) PROVE Rec!StaysReadable'
  BY <1>13 DEF Rec!ReleaseFails, Rec!L!Abandon
<1>14. ASSUME NEW c \in Client, Rec!Fail(c) PROVE Rec!StaysReadable'
  BY <1>14 DEF Rec!Fail
<1>15. ASSUME NEW c \in Client, Rec!Die(c) PROVE Rec!StaysReadable'
  BY <1>15 DEF Rec!Die, Rec!L!Abandon, Rec!A!Forget, LockHeld
<1>16. ASSUME NEW c \in Client, Rec!Restart(c) PROVE Rec!StaysReadable'
  BY <1>16 DEF Rec!Restart
<1>17. CASE Rec!Reclaim
  BY <1>17 DEF Rec!Reclaim, Rec!L!Reclaim
<1>18. CASE UNCHANGED Rec!vars
  BY <1>18 DEF Rec!vars
<1> QED
  BY <1>1, <1>2, <1>3, <1>4, <1>5, <1>6, <1>7, <1>8, <1>9, <1>10, <1>11, <1>12, <1>13,
     <1>14, <1>15, <1>16, <1>17, <1>18 DEF Rec!Next, Rec!Step

LEMMA RecordInvHolds == Rec!Spec => []RecordInv
<1>1. Rec!Init => RecordInv
  BY RecordTypeInit DEF Rec!Init, Rec!A!Init, Rec!L!Init, RecordInv, Rec!TypeOK,
     KindAtPoint, AnswerAtPoint, LockHeld,
     Rec!NothingLost, Rec!StaysReadable, Rec!Locked
<1>2. RecordInv /\ [Rec!Next]_(Rec!vars) => RecordInv'
  BY RecordTypeStep, KindAtPointStep, AnswerAtPointStep, LockHeldStep, NothingLostStep,
     StaysReadableStep DEF RecordInv
<1> QED
  BY <1>1, <1>2, PTL DEF Rec!Spec

\* The variables keep their types.
THEOREM RecordTypeCorrect == Rec!Spec => []Rec!TypeOK
BY RecordInvHolds, PTL DEF RecordInv

\* No update is lost: what compareAndSet, compareAndSetExact or deleteIfExact
\* compared is still there when it is replaced, whatever clients without the
\* lock do in between.
THEOREM NoLostUpdate == Rec!Spec => []Rec!NothingLost
BY RecordInvHolds, PTL DEF RecordInv

\* A record seen under the lock does not vanish before it is read.
THEOREM SeenIsReadable == Rec!Spec => []Rec!StaysReadable
BY RecordInvHolds, PTL DEF RecordInv

-------------------------------------------------------------------------------
(* The refinement *)

LEMMA RecordInitRefines == Rec!Init => A!Init
BY DEF Rec!Init, Rec!A!Init, A!Init, Rec!A!Nothing, A!Nothing

LEMMA RecordStepRefines == RecordInv /\ [Rec!Next]_(Rec!vars) => [A!Next]_(A!vars)
<1> SUFFICES ASSUME RecordInv, [Rec!Next]_(Rec!vars) PROVE A!Next \/ UNCHANGED A!vars
  OBVIOUS
<1> USE DEF Rec!Goto, Rec!Answer, Rec!A!Ends, Rec!A!vars, Rec!lockVars, A!Ends, A!vars
<1>1. ASSUME NEW c \in Client, NEW req \in Rec!A!Request, Rec!Call(c, req) PROVE A!Next
  BY <1>1 DEF Rec!Call, Rec!A!Next, A!Next, Rec!A!Call, A!Call, Rec!A!Request, A!Request
<1>2. ASSUME NEW c \in Client, Rec!Look(c) PROVE A!Perform(c) \/ UNCHANGED A!vars
  BY <1>2 DEF Rec!Look, RecordInv, Rec!TypeOK, KindAtPoint, AnswerAtPoint,
     Rec!A!Perform, Rec!A!Get, Rec!A!Replace, A!Perform, A!Get, A!Replace, A!Matches
<1>3. ASSUME NEW c \in Client, Rec!Fetch(c) PROVE A!Perform(c)
  BY <1>3 DEF Rec!Fetch, RecordInv, Rec!TypeOK, KindAtPoint, AnswerAtPoint,
     Rec!A!Perform, Rec!A!Get, Rec!A!Fail, A!Perform, A!Get, A!Fail
<1>4. ASSUME NEW c \in Client, Rec!Link(c) PROVE A!Perform(c)
  BY <1>4 DEF Rec!Link, RecordInv, KindAtPoint, AnswerAtPoint, Rec!A!Perform,
     Rec!A!Insert, A!Perform, A!Insert
<1>5. ASSUME NEW c \in Client, Rec!Acquire(c) PROVE UNCHANGED A!vars
  BY <1>5 DEF Rec!Acquire
<1>6. ASSUME NEW c \in Client, Rec!Enter(c) PROVE UNCHANGED A!vars
  BY <1>6 DEF Rec!Enter
<1>7. ASSUME NEW c \in Client, Rec!Exists(c) PROVE A!Perform(c) \/ UNCHANGED A!vars
  BY <1>7 DEF Rec!Exists, RecordInv, KindAtPoint, AnswerAtPoint, ReplaceKinds,
     Rec!A!Perform, Rec!A!Replace, A!Perform, A!Replace, A!Matches
<1>8. ASSUME NEW c \in Client, Rec!Compare(c) PROVE A!Perform(c) \/ UNCHANGED A!vars
  BY <1>8 DEF Rec!Compare, RecordInv, KindAtPoint, AnswerAtPoint, ReplaceKinds,
     Rec!A!Perform, Rec!A!Replace, Rec!A!Fail, A!Perform, A!Replace, A!Fail,
     Rec!A!Matches, A!Matches
<1>9. ASSUME NEW c \in Client, Rec!Publish(c) PROVE A!Perform(c)
  BY <1>9 DEF Rec!Publish, RecordInv, KindAtPoint, AnswerAtPoint, Rec!NothingLost,
     ReplaceKinds, Rec!A!Perform, Rec!A!Replace, Rec!A!Set, A!Perform, A!Replace, A!Set,
     Rec!A!Matches, A!Matches
<1>10. ASSUME NEW c \in Client, Rec!Release(c) PROVE UNCHANGED A!vars
  BY <1>10 DEF Rec!Release
<1>11. ASSUME NEW c \in Client, Rec!Return(c) PROVE A!Return(c)
  BY <1>11 DEF Rec!Return, RecordInv, AnswerAtPoint, Rec!A!Return, A!Return,
     Rec!A!Forget, A!Forget, Rec!A!Answers, A!Answers, Rec!A!Nothing, A!Nothing
<1>12. ASSUME NEW c \in Client, Rec!SyncFails(c) PROVE A!Spoil(c)
  BY <1>12 DEF Rec!SyncFails, Rec!A!Spoil, A!Spoil
<1>13. ASSUME NEW c \in Client, Rec!ReleaseFails(c) PROVE A!Spoil(c) \/ UNCHANGED A!vars
  BY <1>13 DEF Rec!ReleaseFails, RecordInv, Rec!TypeOK, AnswerAtPoint, Rec!A!Spoil, A!Spoil
<1>14. ASSUME NEW c \in Client, Rec!Fail(c) PROVE A!Perform(c)
  BY <1>14 DEF Rec!Fail, RecordInv, AnswerAtPoint, Rec!A!Perform, Rec!A!Fail, A!Perform,
     A!Fail
<1>15. ASSUME NEW c \in Client, Rec!Die(c) PROVE A!Die(c)
  BY <1>15 DEF Rec!Die, RecordInv, AnswerAtPoint, Rec!A!Die, A!Die, Rec!A!Forget,
     A!Forget, Rec!A!Nothing, A!Nothing
<1>16. ASSUME NEW c \in Client, Rec!Restart(c) PROVE A!Restart(c)
  BY <1>16 DEF Rec!Restart, RecordInv, AnswerAtPoint, Rec!A!Restart, A!Restart
<1>17. CASE Rec!Reclaim
  BY <1>17 DEF Rec!Reclaim
<1>18. CASE UNCHANGED Rec!vars
  BY <1>18 DEF Rec!vars
<1> HIDE DEF Rec!A!vars, A!vars
<1> QED
  BY <1>1, <1>2, <1>3, <1>4, <1>5, <1>6, <1>7, <1>8, <1>9, <1>10, <1>11, <1>12, <1>13,
     <1>14, <1>15, <1>16, <1>17, <1>18 DEF Rec!Next, Rec!Step, Rec!A!Next, A!Next

\* Every call of the file-backed collection takes effect at one instant between
\* its start and its return, or fails, whatever the interleaving, the crashes
\* and the I/O errors.
THEOREM FileRecordIsAtomic == Rec!Spec => RefinesAtomic
<1>1. Rec!Init => A!Init
  BY RecordInitRefines
<1>2. RecordInv /\ [Rec!Next]_(Rec!vars) => [A!Next]_(A!vars)
  BY RecordStepRefines
<1> QED
  BY <1>1, <1>2, RecordInvHolds, PTL DEF Rec!Spec, RefinesAtomic, Rec!A!Spec, A!Spec
===============================================================================
