------------------------------ MODULE FileRecord ------------------------------
(***************************************************************************)
(* One record of the file backend: FileBackedBusinessScopedCollection in   *)
(* shared-core/src/persistence.ts, with one action per file-system step.   *)
(*                                                                         *)
(* set, compareAndSet, compareAndSetExact and deleteIfExact work under the *)
(* record's lock file, of which this module assumes what Mutex promises    *)
(* (module FileLock keeps that promise).  insertWithResult and get take no *)
(* lock: the one relies on link(2) refusing an existing path, the other    *)
(* looks and reads in two steps.  Clients are operating-system processes.  *)
(***************************************************************************)
EXTENDS RecordCalls

VARIABLES
  pc,        \* where its call is
  owner,     \* the record's lock file, and
  inside     \* those who work under it, as in Mutex

L == INSTANCE Mutex WITH Free <- "free", Orphan <- "orphan"

lockVars == <<owner, inside>>
vars == <<record, call, outcome, found, pc, owner, inside>>

\* Program points between acquireFileLock's success and releaseFileLock.
Locked == {"enter", "exists", "compare", "publish", "release"}

Points == Locked \cup {"idle", "look", "fetch", "link", "acquire", "return", "dead"}

Goto(c, point) == pc' = [pc EXCEPT ![c] = point]

Answer(c, result) == outcome' = [outcome EXCEPT ![c] = result]

Init == A!Init /\ L!Init /\ pc = [c \in Client |-> "idle"]

Call(c, req) ==
  /\ pc[c] = "idle"
  /\ A!Call(c, req)
  /\ Goto(c, CASE req.kind \in {"get", "delete"} -> "look"
               [] req.kind = "insert" -> "link"
               [] OTHER -> "acquire")
  /\ UNCHANGED lockVars

-------------------------------------------------------------------------------
(* Without the lock *)

\* existsSync: get returns undefined, deleteIfExact "missing"; or they go on.
Look(c) ==
  /\ pc[c] = "look"
  /\ IF record = NoRecord
     THEN /\ Answer(c, IF call[c].kind = "get" THEN "read" ELSE "missing")
          /\ Goto(c, "return")
     ELSE /\ UNCHANGED outcome
          /\ Goto(c, IF call[c].kind = "get" THEN "fetch" ELSE "acquire")
  /\ UNCHANGED <<record, call, found, lockVars>>

\* get: readFileSync, which throws if the file has gone since.
Fetch(c) ==
  /\ pc[c] = "fetch"
  /\ IF record = NoRecord
     THEN Answer(c, "error") /\ UNCHANGED found
     ELSE Answer(c, "read") /\ found' = [found EXCEPT ![c] = record]
  /\ Goto(c, "return")
  /\ UNCHANGED <<record, call, lockVars>>

\* Variation: rename where the code has link.
LinkByRename(c) ==
  /\ pc[c] = "link"
  /\ record' = call[c].value /\ Answer(c, "created")
  /\ Goto(c, "return")
  /\ UNCHANGED <<call, found, lockVars>>

\* atomicInsertWithResult: link the finished temporary file to the path.
Link(c) ==
  /\ pc[c] = "link"
  /\ IF record = NoRecord
     THEN record' = call[c].value /\ Answer(c, "created")
     ELSE UNCHANGED record /\ Answer(c, "exists")
  /\ Goto(c, "return")
  /\ UNCHANGED <<call, found, lockVars>>

-------------------------------------------------------------------------------
(* Under the lock *)

Acquire(c) ==
  /\ pc[c] = "acquire"
  /\ L!Acquire(c)
  /\ Goto(c, "enter")
  /\ UNCHANGED <<record, call, outcome, found>>

Enter(c) ==
  /\ pc[c] = "enter"
  /\ L!Enter(c)
  /\ Goto(c, IF call[c].kind = "set" THEN "publish" ELSE "exists")
  /\ UNCHANGED <<record, call, outcome, found>>

Exists(c) ==
  /\ pc[c] = "exists"
  /\ IF record = NoRecord
     THEN Answer(c, "missing") /\ Goto(c, "release")
     ELSE UNCHANGED outcome /\ Goto(c, "compare")
  /\ UNCHANGED <<record, call, found, lockVars>>

\* Read the file (a missing one throws) and compare its version or its value.
Compare(c) ==
  /\ pc[c] = "compare"
  /\ IF record = NoRecord THEN Answer(c, "error") /\ Goto(c, "release")
     ELSE IF A!Matches(call[c], record) THEN UNCHANGED outcome /\ Goto(c, "publish")
     ELSE Answer(c, "conflict") /\ Goto(c, "release")
  /\ UNCHANGED <<record, call, found, lockVars>>

\* atomicWrite renames the finished temporary file over the path; or unlinkSync.
Publish(c) ==
  /\ pc[c] = "publish"
  /\ record' = call[c].value
  /\ Answer(c, CASE call[c].kind = "set" -> "written"
                 [] call[c].kind = "delete" -> "deleted"
                 [] OTHER -> "updated")
  /\ Goto(c, "release")
  /\ UNCHANGED <<call, found, lockVars>>

\* The directory fsync after the rename fails: the write stands, the call throws.
SyncFails(c) ==
  /\ pc[c] = "release" /\ outcome[c] \in {"written", "updated"}
  /\ Answer(c, "error")
  /\ UNCHANGED <<record, call, found, pc, lockVars>>

Release(c) ==
  /\ pc[c] = "release"
  /\ L!Release(c)
  /\ Goto(c, "return")
  /\ UNCHANGED <<record, call, outcome, found>>

\* releaseFileLock throws: the lock file stays.
ReleaseFails(c) ==
  /\ pc[c] = "release"
  /\ L!Abandon(c)
  /\ Answer(c, "error")
  /\ Goto(c, "return")
  /\ UNCHANGED <<record, call, found>>

-------------------------------------------------------------------------------
\* An I/O error before the effect, or the deadline of acquireFileLock.
Fail(c) ==
  /\ \/ pc[c] \in {"look", "fetch", "link", "acquire"} /\ Goto(c, "return")
     \/ pc[c] \in {"exists", "compare", "publish"} /\ Goto(c, "release")
  /\ Answer(c, "error")
  /\ UNCHANGED <<record, call, found, lockVars>>

Return(c) ==
  /\ pc[c] = "return"
  /\ Answer(c, "idle")
  /\ Goto(c, "idle")
  /\ A!Forget(c)
  /\ UNCHANGED <<record, lockVars>>

\* The process dies; a lock file it owns stays until somebody reclaims it.
Die(c) ==
  /\ pc[c] # "dead"
  /\ IF pc[c] \in Locked THEN L!Abandon(c) ELSE UNCHANGED lockVars
  /\ Answer(c, "dead")
  /\ Goto(c, "dead")
  /\ A!Forget(c)
  /\ UNCHANGED record

Restart(c) ==
  /\ pc[c] = "dead"
  /\ Answer(c, "idle")
  /\ Goto(c, "idle")
  /\ UNCHANGED <<record, call, found, lockVars>>

Reclaim == L!Reclaim /\ UNCHANGED <<record, call, outcome, found, pc>>

Step(c) ==
  \/ Look(c) \/ Fetch(c) \/ Link(c)
  \/ Acquire(c) \/ Enter(c) \/ Exists(c) \/ Compare(c) \/ Publish(c) \/ Release(c)
  \/ Return(c)

Next ==
  \/ \E c \in Client :
       \/ \E req \in A!Request : Call(c, req)
       \/ Step(c)
       \/ SyncFails(c) \/ ReleaseFails(c) \/ Fail(c) \/ Die(c) \/ Restart(c)
  \/ Reclaim

Spec == Init /\ [][Next]_vars

-------------------------------------------------------------------------------
TypeOK ==
  /\ record \in Value \cup {NoRecord}
  /\ call \in [Client -> A!Request]
  /\ outcome \in [Client -> A!Outcomes]
  /\ found \in [Client -> Value \cup {NoRecord}]
  /\ pc \in [Client -> Points]
  /\ owner \in Client \cup {"free", "orphan"}
  /\ inside \subseteq Client

\* What compareAndSet or deleteIfExact compared is what it replaces: nobody
\* writes, deletes or inserts the record between the look and the rename.
NothingLost ==
  \A c \in Client :
    pc[c] = "publish" /\ call[c].kind # "set" =>
      record # NoRecord /\ A!Matches(call[c], record)

\* A record that was seen to exist under the lock can be read: compareAndSet
\* never fails with ENOENT between existsSync and readFileSync.
StaysReadable == \A c \in Client : pc[c] = "compare" => record # NoRecord
===============================================================================
