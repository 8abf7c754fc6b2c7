# Verification of the catering agents platform

TLA+ models of the parts of CateringOS whose correctness depends on the order in
which things happen: the locks and records of the file backend, the life of an intake
request, an offer case and a production case with its drafts, login, and the two jobs
that stop the containers of the production host. TLC checks the models on small
instances, TLAPS proves the central theorems for every instance. `PROJECT.json`
lists the runs, maps every modelled definition to its source lines, and names
the hazards the properties are about.

    tlc -config <run>.cfg <MC module>.tla     # check a model
    tlapm <Module>Proofs.tla                  # check proofs

## The system

Four Fastify services (intake, offer, production, exports) share the library
`shared-core` and one store: JSON files under a data root, or PostgreSQL. They
call each other over HTTP for reading; everything they coordinate goes through
the store. Several processes, and during an update two releases, work on one
data root. The backoffice UI calls the services.

| Component | State | Operations | What is hard |
|---|---|---|---|
| File locks (`shared-core/src/persistence.ts` 880-1025) | `<record>.lock`, `<record>.lock.recovery` | acquire, release, reclaim | check and unlink are separate calls; owners die; pids come back; recoverers die |
| Business-scoped collection (`persistence.ts` 800-1300) | one JSON file per record | get, list, set, insert, compare-and-set, delete-if-exact | inserts and reads take no lock; a rename that succeeds may be reported as an error |
| Target critical section (`shared-core/src/target-critical-section.ts`) | a queue of tickets and markers per target, a lock path shared with older releases | enter, leave, heartbeat, clear | leases, late heartbeats, deaths, failing markers, older releases without a queue, several targets at once |
| Cases (`shared-core/src/case-contracts.ts`) | cases and numbered case events | append, compare-and-set | numbers from a read before the write |
| Audit log (`audit-log.ts`) | audit records | insert under a derived identity | idempotence |
| Offer service (`offer-service/src/store.ts`, `routes/approval-routes.ts`) | drafts, approvals, approved offers, decision aggregates, handoffs, plus the case and its audits | save draft or continuation, decide, hand over, read the hand-over, list | nothing makes the writes of a request atomic; retries and compensations; previous releases write the same rows |
| Production decisions (`production-service/src/routes/approval-routes.ts`) | plans, purchase lists, approvals, manifests, snapshots, applied state, recipes | decide, apply, continue | the same protocol as offers with a larger state |
| Production drafts (`production-service/src/routes/artifact-routes.ts`, `case-routes.ts`) | drafts with their cards, revisions, planning evidence, feedback, quantity overrides | review, prepare, change, revise, plan, feed back | three writes per revision, nothing is undone, whatever is cut short blocks the case until it is sent again; model calls between reading and writing |
| Intake service (`intake-service/src`) | requests, specifications, original documents, audits | upload, form, text source, write, answer, replace, archive | request and specs are separate records; requests are written without a lock; what an answer or an archive has read may be stale |
| Host maintenance (`platform-infra/scripts/catering_target_nue_image_update.py`, `platform-infra/backup/`) | containers, restart policies, compose file, guard directory, bundle and its records, backup proofs | stage, apply, roll back, back up, resume, recover by hand | docker commands whose outcome is unknown; two tools and an operator; records written one file after the other |
| Login (`shared-core/src/catering-login-service.ts`, `catering-user-store.ts`, `catering-request-auth.ts`, `scripts/manage-catering-user.ts`) | account records, in-memory source buckets and KDF reservations, cookies | log in, check a session, administer | attempts interleave at every await; limits are read before they are written |
| Rules (`shared-core/src/rules`, `production-service/src/rules`, `recipe-discovery`) | none | pure functions | rounding, splitting, readiness |
| Language models (`byo-llm-*`, `llm-readiness-*`) | run results | gated calls | what may be sent |
| Print and export, UI, other scripts | - | rendering, views, migration, deployment | the migration fences directories while services run |

What makes each part correct:

- *locks*: one owner; a live owner is never evicted; whoever waits gets in
  although owners die; several locks never deadlock.
- *records*: every operation takes effect at one instant, with the answer that
  instant justifies; no update is lost.
- *offer cases*: one decision per draft, no row that contradicts it, evidence
  before completion, links to the current draft only, retries that finish what
  was begun, compensations that undo only their own work.
- *production cases*: what presents a draft as applied has all its evidence at
  every moment; an answered application stays; a decided draft is not
  superseded; results that were continued do not come back.
- *production drafts*: a case has one line of drafts, no review is lost, and what was
  cut short can be finished.
- *intake*: archiving is monotonic and all or nothing; a document precedes the
  request that names it; what was answered was stored; a retry completes.
- *host maintenance*: a free guard means that the host serves; receipts tell the
  truth; nothing is applied twice; a backup copies what stands still, and no
  update meets it.
- *login*: a session stands for the present credential; the account lock stands
  until it ends; failures are counted however many compete.

## Modules

| Module | Models | Abstract specification | Runs | Proofs |
|---|---|---|---|---|
| `FileLock` | `acquireFileLock` and what it calls, one action per system call | `Mutex` | `FileLock`, `FileLockSerialized` | `FileBackendProofs` |
| `FileRecord`, `RecordCalls` | one record of `FileBackedBusinessScopedCollection`; uses `Mutex` for its lock. `RecordCalls` has what its users see and are promised | `AtomicRecord` | `FileRecord` | `FileBackendProofs` |
| `TargetLock` | the ticket queue and lock path of one target | - | `TargetLock` | `TargetLockProofs` |
| `OrderedLocks`, `LockOrder` | critical sections over several targets; a target is a mutex. `LockOrder` has who waits for whom, and what is to hold of it | - | `OrderedLocks` | `TargetLockProofs` |
| `OfferDecision` | one offer case: saving, deciding, handing over, reading back; works under one lock, and on records whose operations are atomic | - | `OfferDecision`, `OfferDecisionShows` | `OfferDecisionProofs` |
| `ProductionApply` | one production case: preparing, deciding, applying and continuing drafts; one lock, atomic records | - | `ProductionApply` | `ProductionApplyProofs` |
| `DraftRevision` | the drafts of one production case: reviewing, preparing, changing by command, revising by a model, planning evidence; one lock, atomic records | - | `DraftRevision` | `DraftRevisionProofs` |
| `IntakeCase` | requests, specs and documents of one business, with the decision on a clarification draft; a lock is a mutex, a record atomic | - | `IntakeCase` | `IntakeCaseProofs` |
| `TargetMaintenance` | the update tool, the backup service, docker and the operator on one host | - | `TargetMaintenance` | `TargetMaintenanceProofs` |
| `CateringLogin` | one account: attempts, source limiter, administrator, sessions; its record is atomic | - | `CateringLogin` | `CateringLoginProofs` |

The modules form layers. `FileLock` implements `Mutex`, though not without bound: it is
proved while at most one process dies, as an owner (`OneOwnerCrash`), and checked
for three processes with two deaths anywhere; with four processes and two deaths two recoverers
can meet (`FileLockSerialized`). `FileRecord` is built
on `Mutex` and implements `AtomicRecord`; `OfferDecision`, `ProductionApply`,
`DraftRevision`, `IntakeCase` and `CateringLogin` take a stored record's operation as
one step, as `AtomicRecord` allows, and the first four and `OrderedLocks` take a target's critical section as a mutex with progress, which
is what `TargetLock` is checked for. `IntakeCase` takes the locks of several
targets at once, as `OrderedLocks` allows. `TargetMaintenance` stands alone. The `MC` modules hold the constants of the instances.

Operators whose comment begins with "Variation" are plausible mistakes. Each
property is shown to depend on the code by substituting a variation for the
definition that follows it, after which TLC finds the property violated
(`mutants` in `PROJECT.json`).

### How state and actions correspond to the code

**FileLock.** The processes are the clients: the code is synchronous
(`Atomics.wait` between attempts), so nothing of the same process interleaves.
`lock` and `recovery` are the two paths with their content (token, whether the
metadata was written, whether the mtime is past the grace period). `seen` is
what `isAbandonedFileLock` read and then judges. A read, a probe of the process
and an unlink are separate actions. Failing writes, fsyncs and directory fsyncs
are actions of their own because they leave different files behind. A waiting
process that finds the lock abandoned goes through the recovery lock, looks
again, and unlinks. `Restart` gives a dead pid to a new process.

**FileRecord.** `record` is the value of the file; `call`, `outcome` and
`found` are shared with `AtomicRecord`, where each call takes effect in one
action. Reads look and fetch in two steps. `insert` links a complete temporary
file. The other operations take the lock, check existence, compare and rename.
`SyncFails` is the error after the rename; the refinement maps it to the
abstract record's answer "error" of an operation that took effect.

**TargetLock.** Requests share processes. `tickets`, `released` and
`agedTickets` are the queue directory with the leases; `lock` and `agedLock`
the lock path. Choosing a number and linking the ticket, seeing the lock path
and judging it, judging and unlinking are separate actions. The queue's memory
of the blocking ticket (`blockingSequence`) is left out: it only saves reads.
The lease of any ticket may expire at any time, which covers late heartbeats
and blocked event loops. Older releases enter through the lock path alone.

**OrderedLocks.** `wants` are the targets of a call, `holds` those it has;
`Rank` is their place in the sorted order. All processes must agree on the
order of `localeCompare`, which is the assumption `OrderAssumption`.

**OfferDecision.** `db` holds the records of one case. The names of approvals,
offers and audits are derived from the draft, so there is at most one of each
per draft and kind; what distinguishes two requests for the same decision
(operator, times) is a `Stamp`. A handler holds the case's lock and performs
one action per record it writes. `Fail` is an error before the effect of any
call, `LateError` one after it: of an update of the case (`LateUpdate`), or of an
insert whose hard link is made (`LateInsert`); an audit is then taken back by
`prepareOfferAudit`, or stays where that fails too. `Crash` ends a
worker between any two writes and releases its lock. `made` is what the request
would undo: only what was noted after a call that returned. The handoff or the
result event that an insert stored and threw is not in it, and `torn` remembers its draft. The text, prices and validation of drafts are left out.

**ProductionApply.** `db` holds the records of one case opened by a hand-over.
Its drafts form a line, as `productionCaseDraftTimelineError` demands: `d + 1`
is either the preparation of `d`, with plan, list and recipes, or the
continuation of the applied `d`, without. `Begin` is what a route reads before
the lock (`seen`, `route`, a continuation's `at`), the checks under the lock are one action
(nothing else writes the case meanwhile; a decision and an application take their time `at` here), and then there is one action per
record written, in the code's order. Ids derive from the draft, so an object is
there or not; decisions and manifests carry their time, a `Stamp`, which
decides whether an existing event or audit "is the same". A plan and a list
belong to one preparation, a recipe is shared by all, so that an application
finds objects it has not made. `Attempt` is a write that may fail without or
with effect (`atomicWrite` renames or links, then syncs the directory), after which
reading it back may fail; `made`
is what `createdPlans`, `createdManifest` and the like remember, `torn` the drafts of
which it misses the link or the event, and `Undo`
takes it back in the order of `rollbackApplyState`. A continuation is audited
after its lock is released. Review cards are taken as decided, and a draft can
be approved if it was prepared (only then plan, list and recipes are complete).

**DraftRevision.** A draft is named by the steps that lead to it from the first one,
since the code derives its identity from the old draft's and from the command or the
cards to change; the identity of a preparation is the old draft's alone. `drafts` is
the content of each, `events` the timeline of the case, of which the link of a draft
and the proof of a review matter. A request looks at its draft (`Ask`), then works
under the lock of the case. The operators `...Writes` say which writes it plans there,
none if it is refused, and each write is one action; what it reads under the lock
nobody changes, so reading comes with the first write. A preparation and a revision by
a model (`Checked`) take the lock twice, first to check and later to commit, and look
for the new draft in between (`Look`) and again after a refusal (`Reconsider`). A
decision and planning evidence rest only on what they read under the lock (`Take`).
`Cut` is a failed write or a dead worker: nothing is undone. `EditRecipe` changes a
recipe in the library, after which planning evidence fits no longer (`fitting`). The
model's answer is taken as valid, and every draft needs evidence. Left out are the
audit log, which is written after the commit, the reopening of the case, which changes
nothing before an approval, events about errors, and the other conditions of a
decision, which are in `ProductionApply`.

**IntakeCase.** A call is one HTTP request; its fields hold what the handler has
read (`seen`), what it will write (`value`), the locks it is in, and the progress
of an archive (`ids`, `todo`, `changed`). A step is one operation of a collection,
one lock section entered, or one audit event. `saveRecord` is `Load`, `Insert`
and `Swap`, for a request without and for a spec with its lock; PATCH and the
clarification decision read in `Get`, before the lock. A spec is the request it
was made from and the set of changes made to it; `Lineage` says which requests
its sources name. `operationalArchive` is the number of the archive that wrote it.
A list of a collection is one step; the order of its result is any. An operation
that takes effect and reports an error is a failure of the next step, except in an
archive, which undoes what it knows to have changed: `torn` remembers the archives
where the two differ. Documents have fresh names; `registered` and `published` are
the write-ahead audit and the renamed directory.

**TargetMaintenance.** A step of the update tool (`job`) or of the backup
(`backup`) is one docker command or one durable file. `host` is what docker and
the compose file say; `stops` are stops that the daemon still works on. `Fail`
is an exception: with an uncertain outcome (a docker command that failed may
have had any part of its effect) or a plain one; `AfterFailure` is the chain of
`except` clauses that follows. `Die` is a kill or a reboot. `Daemon` lets a
pending stop land and restarts what its policy restarts. `ByHand`,
`CompleteResume` and `Reconcile` are what the runbook has the operator do.
The edge container, ages of proofs, signatures, manifests and the contents of
archives are left out. A docker update lands at once or never: the update tool
keeps the guard when one timed out, the backup's resume sets the policies again
and gives the guard back, which is safe only under this assumption. The
temporary workspace of a run is left out too; a backup that meets the guard of
an update for a moment fails its gate and has to be started again.

**CateringLogin.** An action is the code between two awaits. `attempt[a]`
holds what the handler has read: the time, the account, the record it expects.
`evaluated` and `disturbed` are history for `GuessesBounded` and
`FailuresCounted`. The source table is a
function, as the code's `Map` is, with the order of its keys in `recent`. Hashing,
signing and the text of login codes are left out; a PIN check may fail for any
PIN, since a stored hash may be damaged and the check may throw.

## What the runs check

| Run | Bounds | Properties |
|---|---|---|
| `FileLock` | 3 processes, 1 acquisition each, 2 deaths anywhere, all faults | refinement of `Mutex`, whoever waits gets in |
| `FileLockSerialized` | 4 processes, 2 deaths anywhere | *violated*: two recoveries at once |
| `FileRecord` | 2 clients, 3 values in 2 versions, failures, deaths, restarts | refinement of `AtomicRecord` |
| `TargetLock` | 3 requests in 2 processes, 1 older request, queue limit 2, 3 numbers; two processes may die, one of which leaves a pid that is in use again; file faults; one request may time out | exclusion, one leader, no eviction of the living, order, limit, progress |
| `OrderedLocks` | 3 calls on any subsets of 3 targets, one impatient | isolation, no circle of waiting calls, no deadlock, progress |
| `OfferDecision` | 1 worker, a draft and two competing continuations, 2 stamps, a previous release that decides one draft, crashes, errors before the effect of any call, after that of an update of the case, and after that of an insert for the first draft (`LateInserts`) | what "ok" means, evidence, repairable links, links to the current draft, decisions and their projections can be published, handoffs repeated, linear history |
| `OfferDecisionShows` | 1 worker, 2 drafts | *violated*: a completed case without its approval event |
| `ProductionApply` | 2 workers, 3 drafts, 2 stamps, 2 failures or crashes, each write that fails with a read-back that may fail; workers and stamps are symmetric | results backed by evidence, success stands, decisions stay, no revival |
| `DraftRevision` | 2 workers, 3 drafts in a row, 1 card, 1 command, 2 reviews, cuts before any write but the first, recipe changes; workers are symmetric | one history, reviews kept, interrupted requests can be finished |
| `IntakeCase` | 3 calls of any kind, 2 failures or deaths, 2 requests, 3 specs of which one has both as sources; two beginnings | archiving stands, marks are backed, evidence kept, answers stored, retries accepted |
| `TargetMaintenance` | 2 processes of the update tool with 4 commands and 2 admissions, 2 backup runs, 3 failures or deaths, 2 services and a database | a free guard means a serving host, true receipts, one attempt, cold copies, undisturbed backups |
| `CateringLogin` | 3 attempts, 2 trusted sources and the fallback, 1 change of role, account limit 2, source limit 1, 2 KDF reservations, 1 bucket, 2 moments | sessions, lock, current logins, counted failures, bounded guesses |

*Why the bounds are enough to be interesting.* The hazards of the locks need an
owner, a process judging it and a third that takes the lock in between: three
clients. With two deaths an owner and a process that recovers its lock may die.
In the queue, limit 2 with three requests makes it full, and three numbers make
it exhausted. In the offer case a continuation of a decided draft is the only
way two drafts meet; a third draft makes two tabs compete; two stamps tell a
request's own decision from an equal one. One worker is enough there: a request
works under the lock from its checks to its end, so two of them meet only in what
the first leaves behind; what it reads before the lock cannot become wrong, except
for the link of the case, whose reading the model lets be stale. Inserts that throw
after their effect are allowed for the first draft, which the others continue; the run was
also done with them for all three drafts, without a violation. In intake a
call meets an archive, and an archive another one, on the shared spec; the third
call is what comes in between, or the retry; one failure starts an undoing and the
second cuts it short. In maintenance three applies and two admissions make a
replay possible; three failures interrupt an apply, its rollback or archive, and
what follows. In the production case a draft that
is applied must first have been prepared, and a third draft continues it; two
workers make what is read before the lock stale; an undo that fails needs two
failures, as does a failed retry of a crashed application; two stamps tell a
retry's claim from the standing one. Four drafts with one worker and three
failures were also run, without a violation. Among the drafts, two workers step on one draft, or one continues where the other was
cut short; three drafts in a row let the successor of a successor be interrupted; a
command, a preparation and each model revision are different steps, so that one card
and one command already fork; two reviews let a card be reviewed again after its first
review was cut short. In the login model three attempts
exceed the KDF limit and race for a failure count of two, and two moments end
the window and the lock.

`CHECK_DEADLOCK FALSE` stands where clients stop: after their bounded number of
acquisitions, requests, calls or commands. `OrderedLocks`, `FileRecord`, the offer
runs, `ProductionApply` and `DraftRevision` check for deadlock. The type invariants of `FileLock`,
`FileRecord` and `OrderedLocks` are proved, and so is that no update of a record is
lost, so no run repeats them.

*Fairness.* `FileLock`: every process that runs takes its next step, and the
mtime of an abandoned unfinished file passes the grace period: the waiting loop
polls until its deadline and the clock advances. There is no fairness for
faults or deaths. `TargetLock`: weak fairness of each request's own steps
(timers and event loops run), of the expiry of dead owners' leases, and of
leaving by older requests; none for timeouts, so progress does not come from
giving up. Both properties called `Served` allow for a file that nobody may clear
(`Obstinate` in `FileLock`, where it may also be the recovery file; `Stuck` in
`TargetLock`): one a living process has left after an error, or one of a dead owner
whose pid another process has and that recorded no fingerprint. In `FileLock` a client
may also end with the error its deadline gives it. `OrderedLocks`: every
call proceeds, operations end, and a lock that is free again and again is
obtained (strong fairness of acquiring), which the queue of `TargetLock`
justifies.

*What the properties assume.* In `TargetLock` a ticket whose marker cannot be
created is removed, so that its number may be given twice. From then on there
may be two leaders: the properties about leaders and the queue's limit hold
until that happens (`reused`), and exclusion beyond it only while no owner has
died (`Intact`). In `OfferDecision` the evidence beneath a handoff or a result event
may be missing where the insert of it stored it and threw (`torn`), until a hand-over of
that draft is answered with success, which means that all of it is there
(`OkMeansDone`). In `ProductionApply` the same holds of a draft whose link in the case or
result event was stored by a call that failed, and could not be read back: `ResultsBacked`
excepts it until an application of it succeeds, but not from being the draft the
case is linked to. Both exceptions are mistakes of the code, which the next section
describes; without the exception TLC finds each property violated by a behaviour with a single failure. `IntakeCase` excepts three
situations that the next section describes: archives in `torn`, and a mark on a
spec that its archive has not locked (`bare`). `Redoable` of `DraftRevision` excepts
two interrupted requests that nobody can finish, also described there.

## Disagreements between comments and code, and situations nobody handles

- `persistence.ts:982` says recoverers cannot both unlink the same path. With
  two deaths they can (`FileLockSerialized`).
- `target-critical-section.ts:602` says only the canonical leader inspects the
  lock path. A ticket whose marker cannot be created is unlinked, its number is
  given again, and a second request may lead (no run states this one).
- `offer-service/src/routes/case-routes.ts:144` says a reopened case must show
  its persisted approval. A case handed over after an interrupted publication
  has no approval event to show (`OfferDecisionShows`).
- `persistence.ts:64` and `:1096` say that an insert that fails after its hard link keeps
  its "exact ownership result" for "deterministic compensation". `insert` (`:1189`) throws the error and
  drops the result. So when `insertHandoff` stores the handoff and throws,
  `createdHandoff` is not set, and the compensation (`offer-service/src/routes/approval-routes.ts:907`)
  deletes the two audits under a handoff that stays. When
  `appendCaseEvent` does so with the result event, the handoff and the audits go. No run
  states this one; `EvidenceOrder` excepts it.
- `production-service/src/routes/approval-routes.ts:1828` says that a rollback never
  deletes what was applied while the case may still refer to it. When the update of
  the case takes effect and throws, and the read-back at line 2011 throws as well,
  `updatedCase` is not set; the rollback takes the case as unchanged and deletes the objects
  and the manifest under a completed case. A result event whose
  read-back fails loses them likewise. No run states this one; `ResultsBacked` excepts it.

More that no run states. A decision that is cut short between its audit
and its aggregate: the audit stays, the next request for the same decision has
another time, its audit conflicts with the standing one, and it is refused for
good (`DecisionAudit`, last case). An orphan "approved" audit also stays when
the draft is then rejected, since the two have different identities.

Among the drafts of a production case:

- A revision by a model that is cut short after its new draft was stored, and before
  the old one was superseded, blocks the case for good. Sending it again only tries
  `appendCanonicalRevisionEventInScope` (`artifact-routes.ts:525`), which asks that
  the old draft is superseded, and every other route refuses a case with a draft that
  no event links. A preparation (`recoverPreparedDraft`) and a command supersede the
  old draft in the same situation.
- A preparation that is cut short cannot be finished once the recipe that its planning
  evidence rests on was changed (`artifact-routes.ts:2139`), until it is changed back.
- After a revision by a model the draft carries another spec than the case, and the
  case accepts no preparation, command, model revision or planning evidence any more
  (`SpecKept`).

In intake:

- `archiveRequestContext` compares the list of specs under the lock, and
  `archiveWithinCollections` lists them again (`store.ts:463`, `:542`). A spec that
  comes in between is marked without its lock. When it has two requests, the
  archive of the other may lock it, find it archived, answer so, and the first then
  fails and takes its mark back. Without the exception in `ArchiveStands` TLC
  finds this with three calls.
- A compare-and-set of an archive that takes effect and throws is not among the
  changes that are rolled back: the spec stays archived under an active request,
  where `tests/intake-business-scope.test.ts:265` has "rolls back file archive
  writes when a later related record cannot be replaced".
- PATCH reads the spec before the lock and compares with what it reads under the
  lock. It overwrites a change that came in between, and writes back the mark of
  an archive that has been undone meanwhile.
- A spec that is inserted after the last list of an archive stays active.
- Two decisions on one clarification draft, or a crash between the replaced spec
  and the saved draft, may end with a rejected draft whose questions are in the
  spec, although `artifact-routes.ts:4030` means to answer the second with
  "wurde bereits entschieden".
- A text source ("Unveränderlicher Textursprung") can be overwritten by
  `/v1/intake/normalize` with its request id; the retry of the source is then
  refused, which `RetryAccepted` allows.

## What is proved

The theorems hold for every number of clients and every value of the constants
that satisfies the modules' assumptions.

- **`FileBackendProofs`**, the lock: assumes `OneOwnerCrash`: at most one process dies, and
  as an owner of the lock. (Without it the theorems are false, see above.)
  `MutualExclusion` is not inductive: a process about to unlink an abandoned
  lock could remove a fresh one. `IInv` adds that an owner's file carries its
  token, that a recovery file belongs to a live process which is still
  recovering (so it is never itself reclaimed), that nobody recovers before a
  death, and that what the recoverer saw at its second look is still true when
  it unlinks: nobody else may unlink, and an existing path refuses a new owner.
  From `IInv` follow exclusion, serialized recovery, that only orphaned files
  are reclaimed, and, action by action, the refinement of `Mutex`.
- **`FileBackendProofs`**, the record: the lock belongs to whoever is between acquiring and
  releasing it, so what was compared is still there when it is replaced; the
  one writer outside the lock, `Link`, needs the file to be absent. The rename,
  link, read, or failed check is the instant of the abstract operation.
- **`TargetLockProofs`**: the queue first. As long as no ticket was removed (`reused`
  is FALSE) tickets have no gaps and a request in the queue owns an unmarked ticket
  (`QueueInv`): a marker is written by the owner, or by somebody who saw the owner's
  process gone. A leader has found every earlier ticket marked, and an earlier number
  is never free again, so it stays first: one leader, in order. Of the requests that chose
  a number, only one whose number is the first free one can publish it, and since it
  counted nobody has published another: the place that it saw is still there, which
  makes the limit exact. The lock path builds on that: the one leader
  finds the file it has judged until it leaves (`SeenStays`), since a
  path that exists refuses older releases, so what it clears is the file of a
  process that is gone, and who is inside has its own file there. After a ticket
  was removed only the last part holds, and only while no process has died
  (`Intact`), because nobody can be judged gone then.
- **`TargetLockProofs`** also holds the theorems about `OrderedLocks`, which takes such
  locks for several targets. A call holds a beginning of its sorted targets, so
  a waiting call waits for a target of a higher rank than any it holds. Along a
  chain of waiting calls ranks climb, and no finite or infinite set of calls
  whose members all wait for one another exists, since ranks are bounded.
- **`CateringLoginProofs`**: every record an attempt or a cookie remembers is
  `Within` the account: of an older epoch, or with the same PIN and role.
  Compare-and-set on the version-stamped record then gives current sessions and
  logins, and since every write that could move a lock has seen the record
  unlocked at a time not after the clock, the lock stands.
  For the counting, `Follows` says that each conflict a failed check has met is a failure
  that another one has counted, unless a write of another kind came between. So an attempt
  that has used up its tries finds the limit reached, as does one that finds a lock.
  `BucketSound` says that a bucket below its limit has seen what it counts, and that a full
  one will see at most the attempts that hold a KDF reservation: nobody is admitted until
  the bucket is gone, and a reservation was returned when it became full.
- **`IntakeCaseProofs`**: every stored record, and every record a call or the
  plan of an archive remembers and may store again, is `Sound`: a request that
  came with a document has it published, and the changes in a spec are counted
  as having reached the store. That is kept because documents and reached
  changes only grow and a mark leaves the body of its record. With what each
  point of a call knows of its answer (`Answering`) this gives `EvidenceKept`
  and `AnsweredReached`. A text source is refused at two points; there the spec it
  was to store is made from the stored request, unless another route has written
  that request since (`Sourcing`), which gives `RetryAccepted`.
  The marks of archives have an invariant of their own (`MarkInv`). As long as an archive
  may take a mark back, it has the lock of the record that carries it, or had marked it
  without one; this holds also of a mark that an operator's answer or an approval has read
  and may store again (`MarkKnown`, `Carrying`). So what another call finds archived under
  its lock is archived for good (`Settled`), and what an archive reports it has marked itself
  or found so (`Holding`). The request is planned first and taken back last (`Planning`,
  `Changing`), so that a failed archive that has a mark left has its request. From it
  follow `MarksBacked` and, since no step but the undo of its own archive touches an
  archived record (`Lasting`), `ArchiveStands`.
- **`DraftRevisionProofs`**: a new draft is stored only when the old one is pending and
  all its stored successors are linked. A draft with a linked successor is superseded
  (`Line`), so the old one has none and is the last of the line: there is no fork.
  What makes this inductive is that every plan of writes is, at each of its points,
  one of seven kinds (`Legal`), each of which says what must still be true for its next
  write; only the owner of the lock writes. For the reviews, `Reviews` adds that a
  draft that is not pending, or has a successor, has its marks proven by the timeline
  and gets no more of them, that marks only grow newer, and that predecessors of a
  stored draft are stored. What a preparation or a model revision has checked in its
  first section stays true until its second, since the timeline only grows and the
  draft is compared. From `IInv` follow `OneHistory` and `ReviewsKept`. For `Redoable`,
  `Remains` says what an interrupted request can leave: one draft at most that is not
  linked, the last one, untouched, made by a step that the draft before it still stands
  for (`Unlinked`); a decision only of the linked, proven, last draft that the case
  shows; and at most one card of a draft whose review is not on the timeline. Every
  write keeps this, also in the middle of a plan, and each condition that the
  repeated request meets follows from it. That the value for nothing is no
  draft's content (`NoneAssumption`) lets the request tell that it has found one.
- **`OfferDecisionProofs`** assumes only what the module says of its constants
  (`OfferAssumption`). None of the properties is inductive: each depends on what the
  requests under way are going to write. `IInv` has three parts. `DbInv`: the stored
  records agree with each other at every moment, also while they are written one by one
  and taken back one by one (events are numbered without gaps, a row or an event of a
  decided draft is of that decision, a link is to a decided draft, and so on). `Known`: at
  each of its points a request knows what it has found and what it has made, in the order
  in which it takes it back. `Kept`: whoever is about to answer "ok" has done all of it.
  Only the request that has the lock is past waiting for it, so nobody else writes what it
  knows; the previous release inserts rows without the lock, but changes none that is
  there. There is one lemma for
  each kind of change of the stored records (a decision logged, a draft linked, an
  aggregate claimed, an audit taken back ...) and one for each action. From `IInv` follow
  five of the six invariants of the run, and step by step `LinksCurrentOnly`. `EvidenceOrder` has a
  second layer over it, since it does not hold where an insert threw after its effect:
  `Order` says that a draft that is not `torn` has its evidence in order, and that nothing which
  its request would take back next is relied on by what it would take back later or not at
  all (`UndoneAt`). It is inductive together with `IInv`.

- **`ProductionApplyProofs`** assumes what the module says of its constants, and nothing of
  its failures: a write may fail with or without effect, and its read-back too. None of the
  properties is inductive: a worker that takes back an application removes what the
  properties speak of. In `IInv`, `Known` says of each worker, at each of its points,
  what it has made (`made`) and that this is its own: an object or a manifest that an
  application has inserted was not there before, so nothing stored before refers to it
  (`Owns`), save for what a write that failed unseen presents (`torn`). The rollback takes the case, the event and the audit away first and what they refer to
  afterwards, so it never removes what is still presented. Only the owner of the
  lock is past waiting for it, so what a worker knows is disturbed by nobody, and what
  a preparation found before it waited is compared again inside. From `IInv` follow the
  three invariants of the run, and step by step `NoRevival`.

- **`TargetMaintenanceProofs`**: `IInv` says what the owner of the guard may rely on, at
  each of its points. `HostInv`: without a guard the host serves and no stop is under way;
  nothing but an apply that has counted its changes leaves the old version. `BundleInv`: an
  admission that was reserved is the attempt of the bundle or in one of its archives, or the
  bundle is on hold, and the receipts are true of the host. `JobInv` has what each step of an apply keeps for
  the next: it reserves an admission it has not found anywhere (this is why an attempt is
  archived before its record goes), and writes a receipt only over the version
  that it has seen serve. `RunInv` does so for a backup: which containers lost their
  restart policy so far and which stopped, that only stops of its own are under way while it
  settles, and that after its capture nothing can be stopped late. The guard alone is not
  enough (`GuardKept` says whose it is), since a backup ends without it: `ServiceInv` adds
  that the service counts a run until its end, which every step of an update that
  matters has asked for first. An owner that fails or dies keeps the guard, so that what is
  left half done is never judged by these properties until it was repaired.

Only model-checked: the liveness properties (`Served`), which no installed prover reaches.
Every other property of a passing run is stated by a theorem.

## Not modelled

PostgreSQL mode (its transactions roll back what a crash leaves in file mode),
scanning a directory while it changes, document text, prices and rendering, model
calls, the UI, first installation, feedback drafts and planning runs, drafts made from
documents, cases that no hand-over opened. Intake's shadow runs and governance records
are only written, extraction is a function of a document. `PROJECT.json` gives the reason for each component.
Durability of directory entries after a power loss is outside the models, as is
a process suspended for 30 s inside a few synchronous system calls.

## Plan

In this order:

1. `ProductionApply` continued: archiving and source advancement; the
   interrupted decision as a run of its own; abstract
   specification: at most one applied snapshot per case, always of an approved draft.
   `DraftRevision` and `ProductionApply` share the case: an abstract case whose draft
   is pending, decided or applied, which both implement.
2. `CasePersistence`: several services appending events to one case; the audit
   log's idempotent insert.
3. Feedback drafts and planning runs with a model call between reading and writing.
4. `ScopeMigration`: the fences of `migrate-local-business-scope.ts`.
5. One module of algorithms checked against reference definitions: quantity
   rounding and overrides, component splits, access table, readiness.
