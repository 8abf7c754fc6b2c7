-------------------------- MODULE TargetMaintenance --------------------------
(***************************************************************************)
(* The two jobs that stop the containers of the production host: the       *)
(* image-only update (platform-infra/scripts/catering_target_nue_image     *)
(* _update.py: stage and apply) and the cold backup (platform-infra/backup *)
(* /catering-nue-service.py and catering-nue-core.py).  They exclude each  *)
(* other with one guard directory, which stays where it is whenever a job  *)
(* ends without knowing that the host serves again.                        *)
(*                                                                         *)
(* A step is one docker command or one durable file.  Any step may fail or *)
(* be the last of its process; a docker command that fails may have taken  *)
(* effect, and a stop may still be under way in the daemon.                *)
(*                                                                         *)
(* Left out: what an archive, a manifest or a signature contains, the age  *)
(* of a proof or an admission, the configuration, volumes and networks of  *)
(* the host (nothing here changes them), and the schema.  A docker update  *)
(* lands at once or never.                                                 *)
(***************************************************************************)
EXTENDS Naturals, Sequences, FiniteSets

CONSTANTS
  Invocation, \* processes of the update tool, one command each at a time
  Run,        \* runs of catering-backup.service
  Nonce,      \* of the signed admissions of an apply: its runId
  Service,    \* the application services, in the order of SERVICES
  Database,   \* the PostgreSQL container
  None,
  MaxCommands, \* bound: commands given to the update tool
  MaxFaults    \* bound: failures and deaths of a process

App == {Service[i] : i \in 1..Len(Service)}
Container == App \cup {Database}

ASSUME HostAssumption ==
  /\ Service \in Seq(App) \ {<<>>}
  /\ Database \notin App
  /\ None \notin Invocation \cup Run \cup Nonce
  /\ Invocation \cap Run = {}
  /\ MaxCommands \in Nat
  /\ MaxFaults \in Nat

VARIABLES
  host,     \* what docker and the compose file say
  guard,    \* /opt/catering-target-update.lock: its owner, or None
  bundle,   \* the staged release and the records of its applies
  job,      \* the local state of each process of the update tool
  backup,   \* the local state and the durable proofs of each backup run
  service,  \* catering-backup.service as systemd sees it
  commands,
  reserved, \* how often each nonce was reserved for an apply
  changes,  \* how many applies began to stop writers
  faults

vars == <<host, guard, bundle, job, backup, service, commands, reserved, changes, faults>>
jobVars == <<bundle, job, commands, reserved, changes>>
runVars == <<backup, service>>

Version == {"old", "new"}

\* baseline: every container runs, with its restart policy, from the compose file.
Serving(h, v) ==
  /\ h.compose = v
  /\ h.image = [a \in App |-> v]
  /\ h.running = Container
  /\ h.policy = Container

Init ==
  /\ host = [image |-> [a \in App |-> "old"], compose |-> "old",
             running |-> Container, policy |-> Container, stops |-> {}]
  /\ guard = None
  /\ bundle = [staged |-> "no", attempt |-> None, terminal |-> "none", receipts |-> {},
               artifacts |-> FALSE, hold |-> FALSE, archives |-> {}]
  /\ job = [p \in Invocation |->
              [at |-> "idle", nonce |-> None, aim |-> "new", place |-> 1, pending |-> {}]]
  /\ backup = [r \in Run |-> [at |-> "idle", binds |-> "old", place |-> 1, pending |-> {},
                              ok |-> TRUE, captured |-> FALSE]]
  /\ service = [active |-> None, success |-> TRUE]
  /\ commands = 0
  /\ reserved = [n \in Nonce |-> 0]
  /\ changes = 0
  /\ faults = 0

-----------------------------------------------------------------------------
(* docker *)

\* The daemon on its own: a stop it was still working on takes effect, and a container
\* that stands still is started again if its restart policy says so.
Daemon(c) ==
  /\ host' \in
       (IF c \in host.stops
        THEN {[host EXCEPT !.stops = @ \ {c}, !.running = @ \ {c}]} ELSE {})
       \cup (IF c \in host.policy \ host.running
             THEN {[host EXCEPT !.running = @ \cup {c}]} ELSE {})
  /\ UNCHANGED <<guard, jobVars, runVars, faults>>

NoRestart(c) == [host EXCEPT !.policy = @ \ {c}]
OwnPolicy(c) == [host EXCEPT !.policy = @ \cup {c}]
Stop(c) == [host EXCEPT !.running = @ \ {c}, !.stops = @ \ {c}]
Start(c) == [host EXCEPT !.running = @ \cup {c}]

\* What compose up leaves behind when it has come as far as the containers A: one
\* whose image differs is created anew, with the restart policy of the file.
UpTo(A) ==
  LET fresh == {a \in A : host.image[a] # host.compose} IN
  [host EXCEPT !.image = [a \in App |-> IF a \in fresh THEN host.compose ELSE @[a]],
               !.running = @ \cup A,
               !.policy = @ \cup fresh]

-----------------------------------------------------------------------------
(* The update tool *)

At(p, point) == job[p].at = point

Goto(p, point) == job' = [job EXCEPT ![p].at = point, ![p].place = 1]
Advance(p) == job' = [job EXCEPT ![p].place = @ + 1]

\* require_fresh_apply: earlier attempts, in place or archived, were all aborted
\* before they changed a writer, completely recorded, and admitted by other nonces.
\* Variation: an archived attempt is not looked into.
FreshUnarchived(n) ==
  /\ bundle.receipts = {}
  /\ ~bundle.hold
  /\ IF bundle.attempt = None
     THEN bundle.terminal = "none" /\ ~bundle.artifacts
     ELSE bundle.terminal = "aborted" /\ bundle.attempt # n

Fresh(n) ==
  /\ bundle.receipts = {}
  /\ ~bundle.hold
  /\ \A d \in bundle.archives : d.whole /\ d.nonce \notin {n, bundle.attempt}
  /\ IF bundle.attempt = None
     THEN bundle.terminal = "none" /\ ~bundle.artifacts
     ELSE bundle.terminal = "aborted" /\ bundle.attempt # n

\* backup_gate: a backup of this very host state was restored and compared.
Proven(v) == \E r \in Run : backup[r].at = "proven" /\ backup[r].binds = v

\* stage or apply is called; what is checked before the guard is taken.
BeginStage(p) ==
  /\ At(p, "idle") /\ commands < MaxCommands
  /\ job' = [job EXCEPT ![p].at = "own", ![p].nonce = None, ![p].aim = "new"]
  /\ commands' = commands + 1
  /\ UNCHANGED <<host, guard, bundle, runVars, reserved, changes, faults>>

BeginApply(p, n) ==
  /\ At(p, "idle") /\ commands < MaxCommands
  /\ bundle.staged = "yes" /\ Fresh(n) /\ Proven("old")
  /\ job' = [job EXCEPT ![p].at = "own", ![p].nonce = n, ![p].aim = "new"]
  /\ commands' = commands + 1
  /\ UNCHANGED <<host, guard, bundle, runVars, reserved, changes, faults>>

\* own_lock: the prepared directory is renamed to the guard, unless one is there.
OwnLock(p) ==
  /\ At(p, "own")
  /\ IF guard = None THEN guard' = p /\ Goto(p, "busy") ELSE guard' = guard /\ Goto(p, "idle")
  /\ UNCHANGED <<host, bundle, runVars, commands, reserved, changes, faults>>

\* require_backup_service_idle.  Variation: only a run that holds the guard counts.
IdleAnyhow(p) ==
  /\ At(p, "busy")
  /\ Goto(p, IF job[p].nonce = None THEN "stage" ELSE "fresh")
  /\ UNCHANGED <<host, guard, bundle, runVars, commands, reserved, changes, faults>>

Idle(p) ==
  /\ At(p, "busy")
  /\ Goto(p, IF service.active # None \/ ~service.success THEN "unlock"
             ELSE IF job[p].nonce = None THEN "stage" ELSE "fresh")
  /\ UNCHANGED <<host, guard, bundle, runVars, commands, reserved, changes, faults>>

\* stage: the checks and the first file of the copy; then its last, stage.json.
Stage(p) ==
  /\ At(p, "stage")
  /\ IF Serving(host, "old") /\ Proven("old") /\ bundle.staged = "no"
     THEN bundle' = [bundle EXCEPT !.staged = "partial"] /\ Goto(p, "copy")
     ELSE bundle' = bundle /\ Goto(p, "unlock")
  /\ UNCHANGED <<host, guard, runVars, commands, reserved, changes, faults>>

Staged(p) ==
  /\ At(p, "copy")
  /\ bundle' = [bundle EXCEPT !.staged = "yes"]
  /\ Goto(p, "unlock")
  /\ UNCHANGED <<host, guard, runVars, commands, reserved, changes, faults>>

\* apply, under the guard: the attempt is new, and an aborted one is archived first.
FreshApply(p) ==
  /\ At(p, "fresh")
  /\ Goto(p, IF ~Fresh(job[p].nonce) THEN "unlock"
             ELSE IF bundle.attempt # None THEN "archive" ELSE "reserve")
  /\ UNCHANGED <<host, guard, bundle, runVars, commands, reserved, changes, faults>>

\* archive_aborted_attempt: the directory, the artifacts, the attempt, and the
\* terminal record last, one rename each.
Archive(p) ==
  /\ At(p, "archive")
  /\ LET entry == [nonce |-> bundle.attempt, whole |-> FALSE] IN
     CASE job[p].place = 1 ->
            bundle' = [bundle EXCEPT !.archives = @ \cup {entry}] /\ Advance(p)
       [] job[p].place = 2 ->
            bundle' = [bundle EXCEPT !.artifacts = FALSE] /\ Advance(p)
       [] job[p].place = 3 ->
            bundle' = [bundle EXCEPT !.attempt = None] /\ Advance(p)
       [] OTHER ->
            /\ bundle' = [bundle EXCEPT !.terminal = "none",
                                        !.archives = {[d EXCEPT !.whole = TRUE] : d \in @}]
            /\ Goto(p, "reserve")
  /\ UNCHANGED <<host, guard, runVars, commands, reserved, changes, faults>>

\* apply-attempt.json
Reserve(p) ==
  /\ At(p, "reserve")
  /\ bundle' = [bundle EXCEPT !.attempt = job[p].nonce]
  /\ reserved' = [reserved EXCEPT ![job[p].nonce] = @ + 1]
  /\ Goto(p, "load")
  /\ UNCHANGED <<host, guard, runVars, commands, changes, faults>>

\* The baseline is compared, the images are loaded and saved again, and the compose
\* files kept; the admission is looked at once more.  From here on writers change.
Load(p) ==
  /\ At(p, "load")
  /\ IF Serving(host, "old")
     THEN /\ bundle' = [bundle EXCEPT !.artifacts = TRUE]
          /\ changes' = changes + 1
          /\ Goto(p, "policies")
     ELSE Goto(p, "abort") /\ UNCHANGED <<bundle, changes>>
  /\ UNCHANGED <<host, guard, runVars, commands, reserved, faults>>

\* A loop over the applications: what becomes of the host, and after the last to the
\* next point.
Current(p) == Service[job[p].place]

Each(p, point, after, next) ==
  /\ At(p, point)
  /\ host' = after
  /\ IF job[p].place < Len(Service) THEN Advance(p) ELSE Goto(p, next)
  /\ UNCHANGED <<guard, bundle, runVars, commands, reserved, changes, faults>>

\* pause_applications, forward and in a rollback.
DisableRestart(p) == Each(p, "policies", NoRestart(Current(p)), "stop")
StopService(p) == Each(p, "stop", Stop(Current(p)), "compose")

\* No database client is left; the compose file is exchanged.
ReplaceCompose(p) ==
  /\ At(p, "compose")
  /\ host' = [host EXCEPT !.compose = job[p].aim]
  /\ Goto(p, "up")
  /\ UNCHANGED <<guard, bundle, runVars, commands, reserved, changes, faults>>

ComposeUp(p) ==
  /\ At(p, "up")
  /\ host' = UpTo(App)
  /\ Goto(p, "restart")
  /\ UNCHANGED <<guard, bundle, runVars, commands, reserved, changes, faults>>

SetPolicies(p) == Each(p, "restart", OwnPolicy(Current(p)), "verify")

\* verify_runtime and the smoke test; a failure is a choice of Fail.
VerifyRuntime(p) ==
  /\ At(p, "verify")
  /\ Goto(p, IF Serving(host, job[p].aim) THEN "receipt"
             ELSE IF job[p].aim = "new" THEN "settle" ELSE "held")
  /\ UNCHANGED <<host, guard, bundle, runVars, commands, reserved, changes, faults>>

Outcome(p) == IF job[p].aim = "new" THEN "installed" ELSE "restored"

Receipt(p) ==
  /\ At(p, "receipt")
  /\ bundle' = [bundle EXCEPT !.receipts = @ \cup {Outcome(p)}]
  /\ Goto(p, "terminal")
  /\ UNCHANGED <<host, guard, runVars, commands, reserved, changes, faults>>

\* apply-terminal.json: of the receipt, or of an attempt that changed nothing.
Terminal(p) ==
  /\ job[p].at \in {"terminal", "abort"} /\ bundle.terminal = "none"
  /\ bundle' = [bundle EXCEPT !.terminal = IF At(p, "abort") THEN "aborted" ELSE Outcome(p)]
  /\ Goto(p, "unlock")
  /\ UNCHANGED <<host, guard, runVars, commands, reserved, changes, faults>>

\* unlock: the guard is renamed away.
Unlock(p) ==
  /\ At(p, "unlock") /\ guard = p
  /\ guard' = None
  /\ Goto(p, "idle")
  /\ UNCHANGED <<host, bundle, runVars, commands, reserved, changes, faults>>

Points == {"own", "busy", "stage", "copy", "fresh", "archive", "reserve", "load", "abort",
           "settle", "policies", "stop", "compose", "up", "restart", "verify", "receipt",
           "terminal", "unlock"}
Docker == {"load", "policies", "stop", "up", "restart"}

\* What a step that does not return may have done to the host: nothing, all of it,
\* or a part; a stop may be left to the daemon.
PartOfStep(point, c) ==
  CASE point = "policies" -> {host, [host EXCEPT !.policy = @ \ {c}]}
    [] point = "restart" -> {host, [host EXCEPT !.policy = @ \cup {c}]}
    [] point = "stop" -> {host, [host EXCEPT !.running = @ \ {c}]} \cup
         (IF c \in host.running THEN {[host EXCEPT !.stops = @ \cup {c}]} ELSE {})
    [] point = "start" -> {host, [host EXCEPT !.running = @ \cup {c}]}
    [] point = "up" -> {UpTo(A) : A \in SUBSET App}
    [] OTHER -> {host}

\* A file that is not written to the end is there all the same.
PartOfRecord(p) ==
  CASE At(p, "reserve") -> {bundle, [bundle EXCEPT !.attempt = job[p].nonce]}
    [] At(p, "copy") -> {bundle, [bundle EXCEPT !.staged = "yes"]}
    [] At(p, "load") -> {bundle, [bundle EXCEPT !.artifacts = TRUE]}
    [] At(p, "receipt") -> {bundle, [bundle EXCEPT !.receipts = @ \cup {Outcome(p)}]}
    [] job[p].at \in {"terminal", "abort"} -> {bundle, [bundle EXCEPT !.terminal = "torn"]}
    [] OTHER -> {bundle}

Held(b) == [b EXCEPT !.hold = TRUE]

\* Where an exception leads: out of the process, if the guard itself was being taken
\* or given back; out, before anything was reserved; to the abort record,
\* before a writer was changed; to the rollback, if the outcome of every docker
\* command is known and no result has been recorded; or to a hold of the guard.
\* Variation: the rollback also follows when a receipt is being recorded.
AfterFailureAlways(p, uncertain) ==
  CASE job[p].at \in {"own", "unlock"} -> "dead"
    [] job[p].at \in {"busy", "stage", "copy", "fresh"} -> "unlock"
    [] At(p, "load") /\ ~uncertain -> "abort"
    [] job[p].aim = "new" /\ ~uncertain
         /\ job[p].at \in {"policies", "stop", "compose", "restart", "verify", "receipt", "terminal"}
         -> "settle"
    [] OTHER -> "held"

AfterFailure(p, uncertain) ==
  CASE job[p].at \in {"own", "unlock"} -> "dead"
    [] job[p].at \in {"busy", "stage", "copy", "fresh"} -> "unlock"
    [] At(p, "load") /\ ~uncertain -> "abort"
    [] job[p].aim = "new" /\ ~uncertain
         /\ job[p].at \in {"policies", "stop", "compose", "restart", "verify"}
         -> "settle"
    [] OTHER -> "held"

\* A step raises.  A docker command that raises leaves its outcome open; what raises
\* around it (a check, a signal between two calls) does not.
Fail(p, uncertain) ==
  /\ job[p].at \in Points /\ faults < MaxFaults
  /\ At(p, "own") => guard = None
  /\ uncertain => job[p].at \in Docker
  /\ LET c == Service[job[p].place]
         next == AfterFailure(p, uncertain) IN
     /\ host' \in IF uncertain THEN PartOfStep(job[p].at, c)
                  ELSE IF At(p, "compose")
                    THEN {host, [host EXCEPT !.compose = job[p].aim]}
                  ELSE IF At(p, "stop") THEN {host, [host EXCEPT !.running = @ \ {c}]}
                  ELSE {host}
     /\ \E b \in PartOfRecord(p) :
          bundle' = IF next = "held" THEN Held(b) ELSE b
     /\ reserved' = IF At(p, "reserve") THEN [reserved EXCEPT ![job[p].nonce] = @ + 1]
                    ELSE reserved
     /\ job' = [job EXCEPT ![p].at = next, ![p].place = 1,
                           ![p].pending = IF At(p, "stop") THEN {c} ELSE {}]
  /\ guard' = IF At(p, "own") THEN p ELSE guard
  /\ faults' = faults + 1
  /\ UNCHANGED <<runVars, commands, changes>>

\* settle_stops: what was being stopped stands still, or the deadline passes.
Settle(p) ==
  /\ At(p, "settle")
  /\ IF job[p].pending \cap host.running = {}
     THEN /\ job' = [job EXCEPT ![p] = [at |-> "policies", nonce |-> job[p].nonce, aim |-> "old",
                                      place |-> 1, pending |-> {}]]
          /\ UNCHANGED bundle
     ELSE Goto(p, "held") /\ bundle' = Held(bundle)
  /\ UNCHANGED <<host, guard, runVars, commands, reserved, changes, faults>>

\* SIGKILL, or the machine.
Die(p) ==
  /\ job[p].at \in Points /\ faults < MaxFaults
  /\ host' \in IF At(p, "compose") THEN {host, [host EXCEPT !.compose = job[p].aim]}
               ELSE PartOfStep(job[p].at, Service[job[p].place])
  /\ bundle' \in PartOfRecord(p)
  /\ Goto(p, "dead")
  /\ faults' = faults + 1
  /\ UNCHANGED <<guard, runVars, commands, reserved, changes>>

-----------------------------------------------------------------------------
(* catering-backup.service *)

Is(r, point) == backup[r].at = point

Go(r, point) == backup' = [backup EXCEPT ![r].at = point, ![r].place = 1]
Further(r) == backup' = [backup EXCEPT ![r].place = @ + 1]

StopOrder == Service \o <<Database>>
StartOrder == <<Database>> \o Service

\* Job.gate: no guard, the configured release is installed, and the host is as configured.
Gate(r) ==
  /\ guard = None
  /\ Serving(host, backup[r].binds)
  /\ backup[r].binds = "new" => bundle.terminal = "installed"

\* The timer or an operator starts the oneshot service, configured for one release.
StartRun(r) ==
  /\ Is(r, "idle") /\ service.active = None
  /\ \E v \in Version : backup' = [backup EXCEPT ![r].at = "gate", ![r].binds = v]
  /\ service' = [service EXCEPT !.active = r]
  /\ UNCHANGED <<host, guard, jobVars, faults>>

\* The process ends; systemd keeps the result.
EndRun(r, point) ==
  /\ Go(r, point)
  /\ service' = [active |-> None, success |-> point = "proven"]

\* stage_admission
Admit(r) ==
  /\ Is(r, "gate")
  /\ IF Gate(r) THEN Go(r, "mkdir") /\ UNCHANGED service ELSE EndRun(r, "failed")
  /\ UNCHANGED <<host, guard, jobVars, faults>>

\* capture looks at the host again; own_lock makes the directory, and then its file.
MakeGuard(r) ==
  /\ Is(r, "mkdir")
  /\ IF guard = None /\ Serving(host, backup[r].binds)
     THEN guard' = r /\ Go(r, "prepare") /\ UNCHANGED service
     ELSE guard' = guard /\ EndRun(r, "failed")
  /\ UNCHANGED <<host, jobVars, faults>>

\* owner.json, the workspace, the images; and the host once more.
Prepare(r) ==
  /\ Is(r, "prepare")
  /\ IF Serving(host, backup[r].binds) THEN Go(r, "policies")
     ELSE backup' = [backup EXCEPT ![r].at = "release", ![r].ok = FALSE]
  /\ UNCHANGED <<host, guard, service, jobVars, faults>>

CurrentOf(r, order) == order[backup[r].place]

EachOf(r, point, order, after, next) ==
  /\ Is(r, point)
  /\ host' = after
  /\ IF backup[r].place < Len(order) THEN Further(r) ELSE Go(r, next)
  /\ UNCHANGED <<guard, service, jobVars, faults>>

\* Variation: the restart policies stay as they are.
DisableRestartsNot(r) ==
  /\ Is(r, "policies")
  /\ Go(r, "stop")
  /\ UNCHANGED <<host, guard, service, jobVars, faults>>

DisableRestarts(r) == EachOf(r, "policies", StopOrder, NoRestart(CurrentOf(r, StopOrder)), "stop")

\* The database is dumped when the applications stand still, and stopped last.
StopAll(r) == EachOf(r, "stop", StopOrder, Stop(CurrentOf(r, StopOrder)), "copy")

\* The volumes and the configuration are archived; nothing may run at the end of it.
Copy(r) ==
  /\ Is(r, "copy")
  /\ IF host.running = {} THEN Go(r, "record")
     ELSE backup' = [backup EXCEPT ![r].at = "settle", ![r].ok = FALSE]
  /\ UNCHANGED <<host, guard, service, jobVars, faults>>

\* capture.json
Record(r) ==
  /\ Is(r, "record")
  /\ backup' = [backup EXCEPT ![r].at = "settle", ![r].captured = TRUE]
  /\ UNCHANGED <<host, guard, service, jobVars, faults>>

\* capture's finally.  Variation: a stop of unknown outcome does not keep the guard.
SettleBlind(r) ==
  /\ Is(r, "settle")
  /\ Go(r, "start")
  /\ UNCHANGED <<host, guard, service, jobVars, faults>>

SettleRun(r) ==
  /\ Is(r, "settle")
  /\ IF backup[r].pending \cap host.running = {}
     THEN Go(r, "start") /\ UNCHANGED service ELSE EndRun(r, "held")
  /\ UNCHANGED <<host, guard, jobVars, faults>>

\* resume: the containers, their restart policies, and a last look at both.
Resume(r) == EachOf(r, "start", StartOrder, Start(CurrentOf(r, StartOrder)), "restart")
OwnPolicies(r) ==
  EachOf(r, "restart", StartOrder, OwnPolicy(CurrentOf(r, StartOrder)), "resumed")

Resumed(r) ==
  /\ Is(r, "resumed")
  /\ IF host.running = Container /\ host.policy = Container
     THEN Go(r, "release") /\ UNCHANGED service ELSE EndRun(r, "held")
  /\ UNCHANGED <<host, guard, jobVars, faults>>

\* release_lock
Release(r) ==
  /\ Is(r, "release") /\ guard = r
  /\ guard' = None
  /\ IF backup[r].ok THEN Go(r, "transfer") /\ UNCHANGED service ELSE EndRun(r, "failed")
  /\ UNCHANGED <<host, jobVars, faults>>

\* transfer_restore: sent away, restored from there and compared, and the host healthy;
\* the gate is passed before each.
Transfer(r) ==
  /\ Is(r, "transfer")
  /\ IF Gate(r) THEN Go(r, "restore") /\ UNCHANGED service ELSE EndRun(r, "failed")
  /\ UNCHANGED <<host, guard, jobVars, faults>>

Restore(r) ==
  /\ Is(r, "restore")
  /\ EndRun(r, IF Gate(r) THEN "proven" ELSE "failed")
  /\ UNCHANGED <<host, guard, jobVars, faults>>

RunPoints == {"gate", "mkdir", "prepare", "policies", "stop", "copy", "record", "settle",
              "start", "restart", "resumed", "release", "transfer", "restore"}
Changing == {"policies", "stop", "copy", "record"}
Recovering == {"settle", "start", "restart", "resumed", "release"}

\* A step raises: before a container was touched the guard is given back; later the
\* source is resumed; while it is being resumed, or the guard made, the guard stays.
FailRun(r) ==
  /\ backup[r].at \in RunPoints /\ faults < MaxFaults
  /\ LET c == StopOrder[backup[r].place] IN
     /\ host' \in PartOfStep(backup[r].at, IF backup[r].at \in Recovering
                                           THEN StartOrder[backup[r].place] ELSE c)
     /\ \/ /\ Is(r, "prepare")
           /\ backup' = [backup EXCEPT ![r].at = "release", ![r].ok = FALSE]
           /\ UNCHANGED service
        \/ /\ backup[r].at \in Changing
           /\ backup' = [backup EXCEPT ![r].at = "settle", ![r].place = 1, ![r].ok = FALSE,
                            ![r].pending = IF Is(r, "stop") THEN {c} ELSE {}]
           /\ UNCHANGED service
        \/ /\ backup[r].at \in Recovering \cup {"prepare"}
           /\ EndRun(r, "held")
        \/ /\ backup[r].at \in {"gate", "mkdir", "transfer", "restore"}
           /\ EndRun(r, "failed")
  /\ faults' = faults + 1
  /\ UNCHANGED <<guard, jobVars>>

DieRun(r) ==
  /\ backup[r].at \in RunPoints /\ faults < MaxFaults
  /\ host' \in PartOfStep(backup[r].at, IF backup[r].at \in Recovering
            THEN StartOrder[backup[r].place] ELSE StopOrder[backup[r].place])
  /\ EndRun(r, "dead")
  /\ faults' = faults + 1
  /\ UNCHANGED <<guard, jobVars>>

-----------------------------------------------------------------------------
(* The operator *)

Stuck(point) == point \in {"held", "dead"}

\* The containers are started and their restart policies set by hand.
ByHand(r) ==
  /\ Stuck(backup[r].at) /\ guard = r
  /\ host' = [host EXCEPT !.running = Container, !.policy = Container]
  /\ UNCHANGED <<guard, jobVars, runVars, faults>>

\* complete_captured_resume: the rest of the recovery of a run that had recorded its
\* capture; no stop of it can be under way any more.
CompleteResume(r) ==
  /\ Stuck(backup[r].at) /\ guard = r /\ backup[r].captured
  /\ Serving(host, backup[r].binds)
  /\ guard' = None
  /\ Go(r, "completed")
  /\ UNCHANGED <<host, service, jobVars, faults>>

\* Everything else is reconciled without a tool: the host is brought to what its
\* compose file says, and then the guard is removed.  The bundle stays as it is.
Reconcile ==
  /\ \/ \E p \in Invocation :
          Stuck(job[p].at) /\ guard = p /\ Goto(p, "idle") /\ UNCHANGED backup
     \/ \E r \in Run :
          /\ Stuck(backup[r].at) /\ guard = r /\ ~backup[r].captured
          /\ Go(r, "failed") /\ UNCHANGED job
  /\ host' = [host EXCEPT !.image = [a \in App |-> host.compose], !.running = Container,
                          !.policy = Container, !.stops = {}]
  /\ guard' = None
  /\ UNCHANGED <<bundle, service, commands, reserved, changes, faults>>

-----------------------------------------------------------------------------

Update(p) ==
  \/ OwnLock(p) \/ Idle(p) \/ Stage(p) \/ Staged(p)
  \/ FreshApply(p) \/ Archive(p) \/ Reserve(p) \/ Load(p)
  \/ DisableRestart(p) \/ StopService(p) \/ ReplaceCompose(p) \/ ComposeUp(p)
  \/ SetPolicies(p) \/ VerifyRuntime(p) \/ Receipt(p) \/ Terminal(p)
  \/ Settle(p) \/ Unlock(p)

Backup(r) ==
  \/ Admit(r) \/ MakeGuard(r) \/ Prepare(r) \/ DisableRestarts(r) \/ StopAll(r)
  \/ Copy(r) \/ Record(r) \/ SettleRun(r) \/ Resume(r) \/ OwnPolicies(r)
  \/ Resumed(r) \/ Release(r) \/ Transfer(r) \/ Restore(r)

Next ==
  \/ \E c \in Container : Daemon(c)
  \/ \E p \in Invocation :
       \/ BeginStage(p)
       \/ \E n \in Nonce : BeginApply(p, n)
       \/ Update(p)
       \/ \E uncertain \in BOOLEAN : Fail(p, uncertain)
       \/ Die(p)
  \/ \E r \in Run :
       StartRun(r) \/ Backup(r) \/ FailRun(r) \/ DieRun(r) \/ ByHand(r) \/ CompleteResume(r)
  \/ Reconcile

Spec == Init /\ [][Next]_vars

-----------------------------------------------------------------------------
(* Properties *)

\* The state of the host, the guard, the bundle's records and every process has the
\* form of what docker, the file system and systemd report.
TypeOK ==
  /\ host \in [image : [App -> Version], compose : Version, running : SUBSET Container,
               policy : SUBSET Container, stops : SUBSET Container]
  /\ guard \in Invocation \cup Run \cup {None}
  /\ bundle \in [staged : {"no", "partial", "yes"}, attempt : Nonce \cup {None},
                 terminal : {"none", "torn", "aborted", "installed", "restored"},
                 receipts : SUBSET {"installed", "restored"}, artifacts : BOOLEAN,
                 hold : BOOLEAN, archives : SUBSET [nonce : Nonce, whole : BOOLEAN]]
  /\ job \in [Invocation -> [at : Points \cup {"idle", "held", "dead"}, nonce : Nonce \cup {None},
                             aim : Version, place : Nat, pending : SUBSET App]]
  /\ backup \in [Run -> [at : RunPoints \cup {"idle", "failed", "held", "dead", "proven", "completed"},
                         binds : Version, place : Nat, pending : SUBSET Container,
                         ok : BOOLEAN, captured : BOOLEAN]]
  /\ service \in [active : Run \cup {None}, success : BOOLEAN]
  /\ reserved \in [Nonce -> Nat] /\ changes \in Nat

\* The guard is only given back by a host that serves: every container runs with its
\* own restart policy, from the images its compose file names, and no stop that was
\* sent to docker can still take one down.  A job that cannot know keeps the guard.
ReleasedMeansServing ==
  guard = None => host.stops = {} /\ \E v \in Version : Serving(host, v)

\* What an apply has recorded is what the host runs, however the tool was cut short
\* and whatever was tried later: installed, the new images; restored, the old; and an
\* attempt recorded as aborted before any writer was changed really changed none.
ReceiptsTrue ==
  LET all(v) == host.compose = v /\ host.image = [a \in App |-> v] IN
  /\ "installed" \in bundle.receipts => all("new")
  /\ "restored" \in bundle.receipts => all("old")
  /\ bundle.terminal \in {"installed", "restored"} => bundle.terminal \in bundle.receipts
  /\ bundle.terminal = "aborted" => all("old") /\ changes = 0

\* A signed admission serves one attempt, and a bundle stops the writers for one
\* apply: also after aborted attempts, deaths in the middle of archiving one, and
\* guards that were removed by hand.
AttemptOnce ==
  /\ \A n \in Nonce : reserved[n] <= 1
  /\ changes <= 1

\* From the moment the last container is stopped until the capture is recorded none
\* runs: docker does not restart it, and no update starts it.
ColdCopy ==
  \A r \in Run : backup[r].at \in {"copy", "record"} => host.running = {}

\* Once a backup has passed its first gate, and until its proof is written, also while
\* it holds no guard, no update inspects, stages or changes the host.
BackupUndisturbed ==
  \A r \in Run : backup[r].at \in RunPoints \ {"gate"} =>
    \A p \in Invocation :
      job[p].at \in {"idle", "own", "busy", "unlock", "held", "dead"}
=============================================================================
