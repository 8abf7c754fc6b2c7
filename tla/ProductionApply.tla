---------------------------- MODULE ProductionApply ----------------------------
(***************************************************************************)
(* One production case of the production service in file mode, opened by a *)
(* hand-over: its drafts are prepared, decided and applied, and an applied *)
(* draft is continued by a new one.                                        *)
(*                                                                         *)
(* Every request works under the case's target lock, one action per stored *)
(* record written.  A write may fail, or take effect and fail all the same *)
(* (the directory cannot be synced), and a worker may crash between any    *)
(* two writes.  Decisions take back only their audit, applications all     *)
(* they made, preparations and continuations nothing: they are finished by *)
(* the next request.                                                       *)
(***************************************************************************)
EXTENDS Naturals, SequencesExt

CONSTANTS
  Worker,
  Drafts,         \* bound on the drafts of the case
  Stamp,          \* what tells apart two requests for the same thing
  None,
  MaxFaults       \* bound on failing writes and crashes

ASSUME DraftsAssumption == Drafts \in Nat \ {0, 1}
ASSUME MaxFaultsAssumption == MaxFaults \in Nat

VARIABLES
  db,        \* the stored records
  lock,      \* the worker in the case's critical section, or None
  task,      \* what each worker is doing
  faults,    \* failures so far
  answered,  \* drafts whose application was answered with success
  torn       \* history: drafts whose link in the case or result event an application
             \* stored in a call that failed, as did reading it back

vars == <<db, lock, task, faults, answered, torn>>

\* The drafts follow each other in a line: d + 1 is d's preparation, with plan,
\* list and recipes, or the continuation of an applied d, without.
Draft == 1 .. Drafts

Prepared(d) == d \in db.prepared

Verdict == {"approved", "rejected"}

DraftStatus == {"none", "pending", "superseded"} \cup Verdict

\* The plan and the purchase list are a preparation's own, the recipe is shared.
Object(kind, d) == [kind |-> kind, draft |-> IF kind = "recipe" THEN 0 ELSE d]

ObjectKinds == {"plan", "list", "recipe"}

\* A case is completed exactly while it names results.
Case == [spec : Draft \cup {None}, results : Draft \cup {None},
         version : 1 .. (3 * Drafts) \div 2]

EventKinds == {"draft", "review", "approval", "result"}

AuditKinds == Verdict \cup {"applied", "continued"}

Job ==
  [kind : {"decide"}, draft : Draft, verdict : Verdict]
    \cup [kind : {"prepare", "apply", "continue"}, draft : Draft, verdict : {None}]

ASSUME NoneAssumption ==
  /\ None \notin Worker /\ None \notin Draft /\ None \notin Stamp
  /\ None \notin [verdict : Verdict, at : Stamp]

Idle == [pc |-> "idle", job |-> None, route |-> None, at |-> None, seen |-> None, made |-> {}]

Init ==
  /\ db = [drafts |-> [d \in Draft |-> IF d = 1 THEN "pending" ELSE "none"],
           prepared |-> {},
           events |-> << [kind |-> "draft", draft |-> 1, at |-> None] >>,
           aggregates |-> [d \in Draft |-> None], approvals |-> {}, specs |-> {},
           objects |-> {}, manifests |-> [d \in Draft |-> None], audits |-> {},
           case |-> [spec |-> None, results |-> None, version |-> 1]]
  /\ lock = None
  /\ task = [w \in Worker |-> Idle]
  /\ faults = 0
  /\ answered = {}
  /\ torn = {}

-------------------------------------------------------------------------------
At(w, point) == task[w].pc = point

Go(w, point) == task' = [task EXCEPT ![w].pc = point] /\ UNCHANGED <<db, faults, torn>>

D(w) == task[w].job.draft

Decides(w) == task[w].job.kind = "decide"

Positions(d, kinds) ==
  {i \in DOMAIN db.events : db.events[i].draft = d /\ db.events[i].kind \in kinds}

Linked(d) == Positions(d, {"draft"}) # {}

\* The last event of these kinds, 0 if there is none.
Latest(kinds) == Max({0} \cup UNION {Positions(d, kinds) : d \in Draft})

\* productionCaseDraftTimelineError finds nothing wrong: d and what it supersedes
\* are linked, nothing supersedes d and its event is the last of a draft.
IsCurrent(d) ==
  /\ \A e \in 1 .. d : Linked(e)
  /\ \A e \in Draft : e > d => db.drafts[e] = "none"
  /\ Latest({"draft"}) \in Positions(d, {"draft"})

Agree(d, kind, at) == \A i \in Positions(d, {kind}) : db.events[i].at = at

Undecided(d) == db.aggregates[d] = None /\ d \notin db.approvals

Fault == faults < MaxFaults /\ faults' = faults + 1

\* A write: it succeeds, or it fails and the request undoes what it knows to
\* have made.  What a failed write did is known from reading it back, of an
\* audit from the error; the reading may fail as well.
Attempt(w, result, made, next) ==
  \/ /\ db' = result
     /\ task' = [task EXCEPT ![w].pc = next, ![w].made = @ \cup made]
     /\ UNCHANGED <<faults, torn>>
  \/ /\ Fault
     /\ \E done \in BOOLEAN, known \in IF made = {"audit"} THEN {TRUE} ELSE BOOLEAN :
          /\ db' = IF done THEN result ELSE db
          /\ task' = [task EXCEPT ![w].pc = "undo",
                                  ![w].made = IF done /\ known THEN @ \cup made ELSE @]
          /\ torn' = IF made \cap {"case", "event"} # {} /\ done /\ ~known
                     THEN torn \cup {D(w)} ELSE torn

\* A projection that is written unless it is there.
Ensure(w, point, holds, result, next) ==
  /\ At(w, point)
  /\ IF holds THEN Go(w, next) ELSE Attempt(w, result, {}, next)
  /\ UNCHANGED <<lock, answered>>

WithEvent(kind, d, at) ==
  [db EXCEPT !.events = Append(@, [kind |-> kind, draft |-> d, at |-> at])]

WithCase(spec, results) ==
  [db EXCEPT !.case = [spec |-> spec, results |-> results, version |-> @.version + 1]]

-------------------------------------------------------------------------------
(* A request: looked at before the lock, served under it *)

\* resolveLastAppliedSnapshot: d is the last draft applied, and provably so.
LastApplied(d) ==
  /\ \E i \in Positions(d, {"result"}) :
       i = Latest({"result"}) /\ db.manifests[d] = db.events[i].at
  /\ db.case.results # None => db.case.results = d /\ db.case.spec = d
  /\ Positions(d, {"approval"}) # {} /\ d \in db.specs

Admitted(job) ==
  LET d == job.draft IN
  CASE job.kind = "decide" -> db.drafts[d] # "none" /\ \A e \in 1 .. d : Linked(e)
    [] job.kind = "apply" -> d \in db.specs
    [] job.kind = "prepare" ->
         /\ d + 1 \in Draft
         /\ db.drafts[IF Prepared(d + 1) THEN d + 1 ELSE d] = "pending"
    [] job.kind = "continue" ->
         /\ d + 1 \in Draft /\ db.drafts[d] = "approved"
         /\ lock = None /\ LastApplied(d)

Begin(w, job) ==
  /\ At(w, "idle")
  /\ Admitted(job)
  /\ task' = [task EXCEPT ![w] =
       [pc |-> "wait", job |-> job,
        route |-> IF job.kind # "prepare" THEN None
                  ELSE IF Prepared(job.draft + 1) THEN "recover" ELSE "commit",
        at |-> IF job.kind = "continue" THEN db.manifests[job.draft] ELSE None,
        seen |-> IF job.kind \in {"decide", "continue"} THEN db.case ELSE None,
        made |-> {}]]
  /\ UNCHANGED <<db, lock, faults, answered, torn>>

\* A decision and an application have a stamp of their own, which is chosen in their
\* checks: nothing looks at it before.
Enter(w) ==
  /\ At(w, "wait")
  /\ lock = None
  /\ lock' = w
  /\ Go(w, task[w].job.kind)
  /\ UNCHANGED answered

\* The lock's deadline: nothing was written.
TimeOut(w) ==
  /\ At(w, "wait")
  /\ task' = [task EXCEPT ![w] = Idle]
  /\ UNCHANGED <<db, lock, faults, answered, torn>>

\* Answer a request that failed or was refused.
Refuse(w) ==
  /\ At(w, "refused")
  /\ lock' = None
  /\ task' = [task EXCEPT ![w] = Idle]
  /\ UNCHANGED <<db, faults, answered, torn>>

\* Answer one that succeeded; a continuation is audited after the lock.
Succeed(w) ==
  /\ At(w, "done")
  /\ lock' = None
  /\ task' = [task EXCEPT ![w] = IF task[w].job.kind = "continue" THEN [@ EXCEPT !.pc = "log"] ELSE Idle]
  /\ answered' = IF task[w].job.kind = "apply" THEN answered \cup {D(w)} ELSE answered
  /\ UNCHANGED <<db, faults, torn>>

LogContinuation(w) ==
  /\ At(w, "log")
  /\ db' = [db EXCEPT !.audits = @ \cup {[kind |-> "continued", draft |-> D(w) + 1, at |-> None]}]
  /\ task' = [task EXCEPT ![w] = Idle]
  /\ UNCHANGED <<lock, faults, answered, torn>>

-------------------------------------------------------------------------------
(* Preparing a draft: a new draft supersedes it *)

\* canonicalLineageProjectionIsValid: d and the drafts after it are linked,
\* save the one that is about to be.
Projected(d, exempt) ==
  \A e \in Draft : e >= d /\ e # exempt => db.drafts[e] = "none" \/ Linked(e)

NoneAfter(d) == \A e \in Draft : e > d => db.drafts[e] = "none"

\* Variation: that the source still waits for its review is enough.
PrepareCheckStatus(w) ==
  LET source == db.drafts[D(w)]
      child == db.drafts[D(w) + 1]
      route == task[w].route
  IN /\ At(w, "prepare")
     /\ CASE route = "commit" /\ source = "pending" /\ child = "none" -> Go(w, "insert")
          [] route = "recover" /\ source = "pending" -> Go(w, "supersede")
          [] route # "commit" /\ source = "superseded" /\ child = "pending" -> Go(w, "draftEvent")
          [] OTHER -> Go(w, "refused")
     /\ UNCHANGED <<lock, answered>>

\* commitPreparedDraft and recoverPreparedDraft up to their first write; when
\* another request got ahead of a commit, its event is appended again.
PrepareCheck(w) ==
  LET source == db.drafts[D(w)]
      child == db.drafts[D(w) + 1]
      route == task[w].route
      open == source = "pending" /\ Undecided(D(w))
      last == NoneAfter(D(w) + 1) /\ Projected(D(w), D(w) + 1)
  IN /\ At(w, "prepare")
     /\ CASE route = "commit" /\ open /\ child = "none" /\ Projected(D(w), None) ->
               Go(w, "insert") /\ UNCHANGED lock
          [] route = "commit" /\ child = "pending" ->
               /\ task' = [task EXCEPT ![w].pc = "wait", ![w].route = "repair"]
               /\ lock' = None
               /\ UNCHANGED <<db, faults, torn>>
          [] route = "recover" /\ open /\ last -> Go(w, "supersede") /\ UNCHANGED lock
          [] route # "commit" /\ source = "superseded" /\ child = "pending" /\ last ->
               Go(w, "draftEvent") /\ UNCHANGED lock
          [] OTHER -> Go(w, "refused") /\ UNCHANGED lock
     /\ UNCHANGED answered

\* The new draft, of a preparation or of a continuation.
InsertDraft(w) ==
  /\ At(w, "insert")
  /\ IF task[w].job.kind = "prepare"
     THEN Attempt(w, [db EXCEPT !.drafts[D(w) + 1] = "pending", !.prepared = @ \cup {D(w) + 1}],
                  {}, "supersede")
     ELSE Attempt(w, [db EXCEPT !.drafts[D(w) + 1] = "pending"], {}, "draftEvent")
  /\ UNCHANGED <<lock, answered>>

Supersede(w) ==
  /\ At(w, "supersede")
  /\ Attempt(w, [db EXCEPT !.drafts[D(w)] = "superseded"], {}, "draftEvent")
  /\ UNCHANGED <<lock, answered>>

DraftEvent(w) ==
  Ensure(w, "draftEvent", Linked(D(w) + 1), WithEvent("draft", D(w) + 1, None), "reopen")

\* reopenCaseForDraftContinuation: unless something came of the draft already.
Reopen(w) ==
  LET downstream == Latest({"approval", "result"})
      stale == \A i \in Positions(D(w) + 1, {"draft"}) : i > downstream
      clear == db.case.spec = None /\ db.case.results = None
  IN Ensure(w, "reopen", ~stale \/ clear, WithCase(None, None), "done")

-------------------------------------------------------------------------------
(* Continuing an applied draft: commitAppliedDraftContinuation *)

ContinueCheck(w) ==
  LET d == D(w)
      result == Latest({"result"})
      stillApplied == db.case.spec = d /\ db.case.results = d
      reopened == Linked(d + 1) /\ db.case.spec = None /\ db.case.results = None
  IN /\ At(w, "continue")
     /\ IF /\ db.case = task[w].seen
           /\ db.drafts[d] = "approved" /\ db.manifests[d] = task[w].at /\ LastApplied(d)
           /\ Latest({"approval"}) \in Positions(d, {"approval"})
           /\ Latest({"approval"}) < result
           /\ Latest({"draft"}) \in Positions(d, {"draft"}) \cup Positions(d + 1, {"draft"})
           /\ db.drafts[d + 1] = "pending" \/ (db.drafts[d + 1] = "none" /\ ~Linked(d + 1))
           /\ \A i \in Positions(d + 1, {"draft"}) : i > result
           /\ stillApplied \/ reopened
        THEN Go(w, IF db.drafts[d + 1] = "none" THEN "insert" ELSE "draftEvent")
        ELSE Go(w, "refused")
     /\ UNCHANGED <<lock, answered>>

-------------------------------------------------------------------------------
(* Deciding a draft *)

\* A decision that stands is published again as it was taken.
DecideCheck(w) ==
  LET d == D(w)
      verdict == task[w].job.verdict
      standing == db.aggregates[d]
      decidable ==
        IF standing = None
        THEN /\ db.drafts[d] = "pending"
             /\ db.case.spec = None
             /\ verdict = "approved" => Prepared(d)
        ELSE /\ standing.verdict = verdict
             /\ db.drafts[d] \in {"pending", verdict}
             /\ db.case.spec \in {None} \cup (IF verdict = "approved" THEN {d} ELSE {})
  IN /\ At(w, "decide")
     /\ \E at \in IF standing = None THEN Stamp ELSE {standing.at} :
          IF /\ decidable
             /\ db.case.version = task[w].seen.version
             /\ IsCurrent(d)
             /\ Agree(d, "review", at) /\ (verdict = "approved" => Agree(d, "approval", at))
          THEN /\ task' = [task EXCEPT ![w].pc = "decisionAudit", ![w].at = at]
               /\ UNCHANGED <<db, faults, torn>>
          ELSE Go(w, "refused")
     /\ UNCHANGED <<lock, answered>>

TheAudit(w) ==
  [kind |-> IF Decides(w) THEN task[w].job.verdict ELSE "applied",
   draft |-> D(w), at |-> task[w].at]

\* Audits of the same thing: they have the same identity.
Audited(w) == {a \in db.audits : a.kind = TheAudit(w).kind /\ a.draft = D(w)}

WithAudit(w) == [db EXCEPT !.audits = @ \cup {TheAudit(w)}]

\* prepareDecisionAudit.  An audit that was published by a failing call is kept.
DecisionAudit(w) ==
  /\ At(w, "decisionAudit")
  /\ CASE Audited(w) = {} ->
            \/ /\ db' = WithAudit(w)
               /\ task' = [task EXCEPT ![w].pc = "aggregate", ![w].made = {"audit"}]
               /\ UNCHANGED faults
            \/ /\ Fault
               /\ db' \in {db, WithAudit(w)}
               /\ task' = [task EXCEPT ![w].pc = "refused"]
       [] Audited(w) = {TheAudit(w)} -> Go(w, "aggregate")
       [] OTHER -> Go(w, "refused")
  /\ UNCHANGED <<lock, answered, torn>>

Aggregate(w) ==
  Ensure(w, "aggregate", db.aggregates[D(w)] # None,
         [db EXCEPT !.aggregates[D(w)] = [verdict |-> task[w].job.verdict, at |-> task[w].at]],
         "approvalRow")

\* projectDecisionAggregate.
ApprovalRow(w) ==
  Ensure(w, "approvalRow", D(w) \in db.approvals, [db EXCEPT !.approvals = @ \cup {D(w)}],
         IF task[w].job.verdict = "approved" THEN "specRow" ELSE "decidedDraft")

SpecRow(w) ==
  Ensure(w, "specRow", D(w) \in db.specs, [db EXCEPT !.specs = @ \cup {D(w)}], "decidedDraft")

DecidedDraft(w) ==
  Ensure(w, "decidedDraft", FALSE, [db EXCEPT !.drafts[D(w)] = task[w].job.verdict], "reviewEvent")

\* appendProductionDecisionEventsInCaseScope.
ReviewEvent(w) ==
  Ensure(w, "reviewEvent", Positions(D(w), {"review"}) # {},
         WithEvent("review", D(w), task[w].at),
         IF task[w].job.verdict = "approved" THEN "linkSpec" ELSE "done")

LinkSpec(w) ==
  Ensure(w, "linkSpec", db.case.spec = D(w), WithCase(D(w), db.case.results), "approvalEvent")

ApprovalEvent(w) ==
  Ensure(w, "approvalEvent", Positions(D(w), {"approval"}) # {},
         WithEvent("approval", D(w), task[w].at), "done")

-------------------------------------------------------------------------------
(* Applying an approved draft *)

\* Variation: the approved specification is enough, unless the case names another.
ApplyCheckLink(w) ==
  /\ At(w, "apply")
  /\ IF db.case.spec \in {None, D(w)}
     THEN /\ \E at \in Stamp :
               task' = [task EXCEPT ![w].pc = "plan", ![w].at = at, ![w].seen = db.case]
          /\ UNCHANGED <<db, faults, torn>>
     ELSE Go(w, "refused")
  /\ UNCHANGED <<lock, answered>>

\* productionCaseApplyConsistencyError and the checks around it.
ApplyCheck(w) ==
  LET d == D(w) IN
  /\ At(w, "apply")
  /\ IF /\ db.case.spec = d
        /\ db.aggregates[d] # None /\ db.aggregates[d].verdict = db.drafts[d]
        /\ IsCurrent(d)
        /\ \E i \in Positions(d, {"approval"}) : i > Latest({"draft"})
     THEN /\ \E at \in Stamp :
               task' = [task EXCEPT ![w].pc = "plan", ![w].at = at, ![w].seen = db.case]
          /\ UNCHANGED <<db, faults, torn>>
     ELSE Go(w, "refused")
  /\ UNCHANGED <<lock, answered>>

\* Variation: an object that was there already counts as made by this request.
InsertAnyObject(w, kind, next) ==
  /\ At(w, kind)
  /\ Attempt(w, [db EXCEPT !.objects = @ \cup {Object(kind, D(w))}], {kind}, next)
  /\ UNCHANGED <<lock, answered>>

\* compareOrInsert.
InsertObject(w, kind, next) ==
  /\ At(w, kind)
  /\ IF Object(kind, D(w)) \in db.objects THEN Go(w, next)
     ELSE Attempt(w, [db EXCEPT !.objects = @ \cup {Object(kind, D(w))}], {kind}, next)
  /\ UNCHANGED <<lock, answered>>

\* The manifest claims the application; a standing claim is taken over.
Manifest(w) ==
  LET standing == db.manifests[D(w)] IN
  /\ At(w, "manifest")
  /\ IF standing # None
     THEN /\ task' = [task EXCEPT ![w].pc = "results", ![w].at = standing]
          /\ UNCHANGED <<db, faults, torn>>
     ELSE Attempt(w, [db EXCEPT !.manifests[D(w)] = task[w].at], {"manifest"}, "results")
  /\ UNCHANGED <<lock, answered>>

LinkResults(w) ==
  /\ At(w, "results")
  /\ IF db.case.results = D(w) THEN Go(w, "resultEvent")
     ELSE Attempt(w, WithCase(db.case.spec, D(w)), {"case"}, "resultEvent")
  /\ UNCHANGED <<lock, answered>>

ResultEvent(w) ==
  /\ At(w, "resultEvent")
  /\ CASE Positions(D(w), {"result"}) = {} ->
            Attempt(w, WithEvent("result", D(w), task[w].at), {"event"}, "applyAudit")
       [] Positions(D(w), {"result"}) # {} ->
            Go(w, IF Agree(D(w), "result", task[w].at) THEN "applyAudit" ELSE "undo")
  /\ UNCHANGED <<lock, answered>>

ApplyAudit(w) ==
  /\ At(w, "applyAudit")
  /\ IF Audited(w) = {} THEN Attempt(w, WithAudit(w), {"audit"}, "done")
     ELSE Go(w, IF Audited(w) = {TheAudit(w)} THEN "done" ELSE "undo")
  /\ UNCHANGED <<lock, answered>>

-------------------------------------------------------------------------------
(* Failures *)

\* Variation: the artefacts go first, the case last.
UndoOrderCaseLast == <<"audit", "event", "recipe", "list", "plan", "manifest", "case">>

\* rollbackApplyState: the case first, the claim last.
UndoOrder == <<"case", "audit", "event", "recipe", "list", "plan", "manifest">>

Rank(thing) == CHOOSE i \in DOMAIN UndoOrder : UndoOrder[i] = thing

Without(w, thing) ==
  CASE thing = "case" -> [db EXCEPT !.case = task[w].seen]
    [] thing = "audit" -> [db EXCEPT !.audits = @ \ {TheAudit(w)}]
    [] thing = "event" ->
         [db EXCEPT !.events = RemoveAt(@, CHOOSE i \in Positions(D(w), {"result"}) : TRUE)]
    [] thing \in ObjectKinds -> [db EXCEPT !.objects = @ \ {Object(thing, D(w))}]
    [] thing = "manifest" -> [db EXCEPT !.manifests[D(w)] = None]

\* Undo one thing.  An error ends it there, unless it was the case that was
\* restored for all that and reads so.
Undo(w) ==
  /\ At(w, "undo")
  /\ \E thing \in task[w].made :
       /\ \A other \in task[w].made : Rank(thing) <= Rank(other)
       /\ \/ /\ db' = Without(w, thing)
             /\ task' = [task EXCEPT ![w].made = @ \ {thing}]
             /\ UNCHANGED faults
          \/ /\ Fault
             /\ \E done \in BOOLEAN, known \in BOOLEAN :
                  /\ db' = IF done THEN Without(w, thing) ELSE db
                  /\ task' = IF thing = "case" /\ done /\ known
                             THEN [task EXCEPT ![w].made = @ \ {thing}]
                             ELSE [task EXCEPT ![w].pc = "refused", ![w].made = {}]
  /\ UNCHANGED <<lock, answered, torn>>

Undone(w) ==
  /\ At(w, "undo") /\ task[w].made = {}
  /\ Go(w, "refused")
  /\ UNCHANGED <<lock, answered>>

\* The process ends; TargetLock's recovery passes its lock on.
Crash(w) ==
  /\ ~At(w, "idle")
  /\ Fault
  /\ task' = [task EXCEPT ![w] = Idle]
  /\ lock' = IF lock = w THEN None ELSE lock
  /\ UNCHANGED <<db, answered, torn>>

-------------------------------------------------------------------------------
Serve(w) ==
  \/ Enter(w) \/ Refuse(w) \/ Succeed(w) \/ LogContinuation(w)
  \/ PrepareCheck(w) \/ InsertDraft(w) \/ Supersede(w) \/ DraftEvent(w) \/ Reopen(w)
  \/ ContinueCheck(w)
  \/ DecideCheck(w) \/ DecisionAudit(w) \/ Aggregate(w) \/ ApprovalRow(w) \/ SpecRow(w)
  \/ DecidedDraft(w) \/ ReviewEvent(w) \/ LinkSpec(w) \/ ApprovalEvent(w)
  \/ ApplyCheck(w) \/ Manifest(w) \/ LinkResults(w) \/ ResultEvent(w) \/ ApplyAudit(w)
  \/ InsertObject(w, "plan", "list") \/ InsertObject(w, "list", "recipe")
  \/ InsertObject(w, "recipe", "manifest")
  \/ Undo(w) \/ Undone(w)

Next ==
  \E w \in Worker :
    \/ \E job \in Job : Begin(w, job)
    \/ Serve(w)
    \/ TimeOut(w) \/ Crash(w)

Spec == Init /\ [][Next]_vars

-------------------------------------------------------------------------------
Points ==
  {"idle", "wait", "prepare", "decide", "apply", "continue", "insert", "supersede",
   "draftEvent", "reopen", "decisionAudit", "aggregate", "approvalRow", "specRow",
   "decidedDraft", "reviewEvent", "linkSpec", "approvalEvent", "manifest", "results",
   "resultEvent", "applyAudit", "undo", "refused", "done", "log"} \cup ObjectKinds

\* The shape of the state; the case's version grows by three steps for each two
\* drafts (the prepared one is linked and completes it, its continuation reopens
\* it), however often these are asked for, cut short and redone.
TypeOK ==
  /\ db.drafts \in [Draft -> DraftStatus]
  /\ db.events \in Seq([kind : EventKinds, draft : Draft, at : Stamp \cup {None}])
  /\ db.aggregates \in [Draft -> [verdict : Verdict, at : Stamp] \cup {None}]
  /\ db.prepared \subseteq Draft /\ db.approvals \subseteq Draft /\ db.specs \subseteq Draft
  /\ db.objects \subseteq {Object(kind, d) : kind \in ObjectKinds, d \in Draft}
  /\ db.manifests \in [Draft -> Stamp \cup {None}]
  /\ db.audits \subseteq [kind : AuditKinds, draft : Draft, at : Stamp \cup {None}]
  /\ db.case \in Case
  /\ lock \in Worker \cup {None}
  /\ \A w \in Worker :
       /\ task[w].pc \in Points
       /\ task[w].job \in Job \cup {None}
       /\ task[w].route \in {"commit", "recover", "repair", None}
       /\ task[w].at \in Stamp \cup {None}
       /\ task[w].seen \in Case \cup {None}
       /\ task[w].made \subseteq {UndoOrder[i] : i \in DOMAIN UndoOrder}
  /\ faults \in 0 .. MaxFaults
  /\ answered \subseteq Draft /\ torn \subseteq Draft

Backed(d, at) ==
  /\ \A kind \in ObjectKinds : Object(kind, d) \in db.objects
  /\ db.manifests[d] = at

\* Whatever presents a draft as applied (the case, its result event, the audit)
\* finds the plan, the list, the recipe and the same claim, at every moment:
\* applied halfway, rolled back halfway or crashed.  Only where the link or the event
\* was stored by a call that failed and could not be read back, so that the rollback
\* does not know of it, they may be missing, until an application of the draft is
\* answered with success.  The case has results of the draft it is linked to always.
ResultsBacked ==
  \A d \in Draft :
    /\ db.case.results = d => db.case.spec = d
    /\ d \notin torn \ answered =>
         /\ db.case.results = d => \E at \in Stamp : Backed(d, at)
         /\ \A i \in Positions(d, {"result"}) : Backed(d, db.events[i].at)
         /\ \A a \in db.audits : a.kind = "applied" /\ a.draft = d => Backed(d, a.at)

\* What was answered as applied stays so with all its evidence: a later request
\* for the same draft that fails, or a continuation, takes nothing of it away.
SuccessStands ==
  \A d \in answered :
    /\ Positions(d, {"result"}) # {}
    /\ \E a \in db.audits : a.kind = "applied" /\ a.draft = d
    /\ Backed(d, db.manifests[d]) /\ db.manifests[d] # None

\* A draft that was decided is not superseded by a preparation that raced its
\* decision, and a case is linked only to a draft that is approved all over.
DecidedStays ==
  \A d \in Draft :
    /\ db.aggregates[d] # None => db.drafts[d] \in {"pending", db.aggregates[d].verdict}
    /\ db.case.spec = d => d \in db.approvals \cap db.specs /\ db.drafts[d] = "approved"

\* A case is never completed with a draft that has been continued: results that
\* a continuation took from the case do not come back.
NoRevival ==
  [][ \A d \in Draft : db'.case.results = d /\ db.case.results # d => IsCurrent(d) ]_db
===============================================================================
