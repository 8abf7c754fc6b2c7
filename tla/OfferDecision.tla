---------------------------- MODULE OfferDecision ----------------------------
(***************************************************************************)
(* One offer case of the offer service in file mode: saving drafts and     *)
(* continuations, deciding a draft, handing an approved offer over to      *)
(* production and reading the hand-over back.                              *)
(*                                                                         *)
(* Every request works under the case's target lock, one action per stored *)
(* record written.  Nothing makes the writes of a request atomic: a worker *)
(* may crash between any two of them (TargetLock then passes its lock on), *)
(* a call may throw before or after its effect, and a release from before  *)
(* the decision aggregate may insert approvals and offers without regard   *)
(* to this lock.                                                           *)
(***************************************************************************)
EXTENDS Naturals, Sequences, FiniteSetsExt

CONSTANTS
  Worker, Draft,
  Original,       \* the draft a continuation was made from, or None
  Stamp,          \* what tells apart two requests for the same decision
  None,
  OlderRelease,   \* the drafts a previous release, which runs beside this one, decides
  LateUpdates,    \* may an update of the case take effect and then throw?
  LateInserts     \* the drafts for which an insert may

Decision == [verdict : {"approved", "rejected"}, at : Stamp]

ASSUME OfferAssumption ==
  /\ None \notin Worker /\ None \notin Draft /\ None \notin Decision
  /\ Original \in [Draft -> Draft \cup {None}]

VARIABLES
  db,      \* the stored records
  lock,    \* the worker in the case's critical section, or None
  task,    \* what each worker is doing
  torn     \* history: the drafts whose handoff or result event an insert stored and
           \* threw all the same, until a hand-over of theirs is answered with success

vars == <<db, lock, task, torn>>

\* Drafts, handoffs and audits are insert-only or deleted whole, so sets of
\* names; approvals, offers and aggregates have one record per draft, their
\* identities being derived from the draft's.  An offer is its approval's.
EventKinds == {"draft_created", "review_decision", "approval", "result"}

Db ==
  [drafts : SUBSET Draft,
   events : SUBSET [seq : 1 .. 4 * Cardinality(Draft), kind : EventKinds,
                    draft : Draft, of : Decision \cup {None}],
   approvals : [Draft -> Decision \cup {None}],
   offers : [Draft -> Decision \cup {None}],
   aggregates : [Draft -> Decision \cup {None}],
   handoffs : SUBSET Draft,
   audits : SUBSET [kind : {"approved", "handoff"}, draft : Draft, of : Decision],
   case : [status : {"open", "completed"}, offer : Draft \cup {None},
           handoff : Draft \cup {None}]]

Job == [kind : {"decide"}, draft : Draft, decision : Decision]
       \cup [kind : {"save", "handoff", "get"}, draft : Draft, decision : {None}]

Idle == [pc |-> "idle", job |-> None, cand |-> None, route |-> "fresh",
         seen |-> None, made |-> <<>>, reply |-> "none"]

Nothing == [d \in Draft |-> None]

Init ==
  /\ db = [drafts |-> {}, events |-> {}, approvals |-> Nothing, offers |-> Nothing,
           aggregates |-> Nothing, handoffs |-> {}, audits |-> {},
           case |-> [status |-> "open", offer |-> None, handoff |-> None]]
  /\ lock = None
  /\ task = [w \in Worker |-> Idle]
  /\ torn = {}

-------------------------------------------------------------------------------
At(w, point) == task[w].pc = point

Go(w, point) == task' = [task EXCEPT ![w].pc = point]

Answer(w, reply) == task' = [task EXCEPT ![w].pc = "leave", ![w].reply = reply]

D(w) == task[w].job.draft

Cand(w) == task[w].cand

Approved(decision) == decision.verdict = "approved"

SameDecision(a, b) == a.verdict = b.verdict

EventsOf(d, kind) == {e \in db.events : e.draft = d /\ e.kind = kind}

Linked(d) == EventsOf(d, "draft_created") # {}

\* offerDraftTimelineError finds nothing wrong: d's is the last draft event.
IsCurrent(d) ==
  \E e \in EventsOf(d, "draft_created") :
    \A f \in db.events : f.kind = "draft_created" => f.seq <= e.seq

Last(events) == Max({0} \cup {e.seq : e \in events})

Event(kind, d, decision) ==
  [seq |-> Last(db.events) + 1, kind |-> kind, draft |-> d, of |-> decision]

\* decisionPublicationPreflight: the case, its history and the audit log leave
\* room for this decision.
Preflight(d, decision) ==
  /\ db.case.offer \in {None} \cup (IF Approved(decision) THEN {d} ELSE {})
  /\ \A e \in EventsOf(d, "review_decision") : e.of = decision
  /\ Approved(decision) => /\ \A e \in EventsOf(d, "approval") : e.of = decision
                           /\ \A a \in db.audits : a.kind = "approved" /\ a.draft = d
                                                     => a.of = decision

-------------------------------------------------------------------------------
(* A request: looked at before the lock, served under it.  What Begin finds    *)
(* stays true (aggregates and draft events are never removed), except what     *)
(* GET handoff finds of the case: that may be stale by the time of the lock,   *)
(* whatever it was, and Reread looks again.                                    *)

Begin(w, job) ==
  /\ At(w, "idle")
  /\ CASE job.kind = "decide" -> Linked(job.draft)
       [] job.kind = "save" -> TRUE
       [] job.kind \in {"handoff", "get"} ->
            /\ db.aggregates[job.draft] # None /\ Approved(db.aggregates[job.draft])
            /\ Linked(job.draft)
  /\ task' = [task EXCEPT ![w].pc = "wait", ![w].job = job,
                          ![w].cand = IF job.kind = "decide" THEN job.decision
                                      ELSE db.aggregates[job.draft]]
  /\ UNCHANGED <<db, lock, torn>>

Enter(w) ==
  /\ At(w, "wait")
  /\ lock = None
  /\ lock' = w
  /\ Go(w, CASE task[w].job.kind = "decide" -> "check"
             [] task[w].job.kind = "save" -> "admit"
             [] task[w].job.kind = "handoff" -> "verify"
             [] task[w].job.kind = "get" -> "reread")
  /\ UNCHANGED <<db, torn>>

\* The lock's deadline: nothing was written.
TimeOut(w) == At(w, "wait") /\ task' = [task EXCEPT ![w] = Idle] /\ UNCHANGED <<db, lock, torn>>

Leave(w) ==
  /\ At(w, "leave")
  /\ lock' = None
  /\ task' = [task EXCEPT ![w] = Idle]
  /\ torn' = IF task[w].job.kind = "handoff" /\ task[w].reply = "ok" THEN torn \ {D(w)} ELSE torn
  /\ UNCHANGED db

-------------------------------------------------------------------------------
(* saveDraftForCase *)

\* Variation: the continuation's source exists, current or not.
AdmitAny(w) ==
  /\ At(w, "admit")
  /\ IF Original[D(w)] = None \/ Original[D(w)] \in db.drafts
     THEN Go(w, "saveDraft") ELSE Answer(w, "no")
  /\ UNCHANGED <<db, lock, torn>>

Admit(w) ==
  /\ At(w, "admit")
  /\ LET source == Original[D(w)]
         admitted == source = None \/ (source \in db.drafts /\ (Linked(D(w)) \/ IsCurrent(source)))
     IN IF admitted THEN Go(w, "saveDraft") ELSE Answer(w, "no")
  /\ UNCHANGED <<db, lock, torn>>

SaveDraft(w) ==
  /\ At(w, "saveDraft")
  /\ db' = [db EXCEPT !.drafts = @ \cup {D(w)}]
  /\ Go(w, "draftEvent")
  /\ UNCHANGED <<lock, torn>>

DraftEvent(w) ==
  /\ At(w, "draftEvent")
  /\ IF Linked(D(w)) THEN UNCHANGED db
     ELSE db' = [db EXCEPT !.events = @ \cup {Event("draft_created", D(w), None)}]
  /\ Go(w, "reopen")
  /\ UNCHANGED <<lock, torn>>

\* reopenOfferCaseForContinuation, unless something already came of the draft.
Superseding(d) ==
  Last({e \in db.events : e.kind \in {"approval", "result"}}) < Last(EventsOf(d, "draft_created"))

ReopenedCase(d) ==
  IF Superseding(d) THEN [status |-> "open", offer |-> None, handoff |-> None] ELSE db.case

Reopen(w) ==
  /\ At(w, "reopen")
  /\ db' = [db EXCEPT !.case = ReopenedCase(D(w))]
  /\ Answer(w, "ok")
  /\ UNCHANGED <<lock, torn>>

-------------------------------------------------------------------------------
(* The decision route, up to the aggregate *)

\* Variation: the draft need not be the current one any more.
CheckAnyDraft(w) ==
  /\ At(w, "check")
  /\ LET decided == db.aggregates[D(w)] IN
     CASE decided = None -> Go(w, "approval")
       [] decided # None /\ ~SameDecision(decided, Cand(w)) -> Answer(w, "no")
       [] decided # None /\ SameDecision(decided, Cand(w)) ->
            task' = [task EXCEPT ![w].pc = "publish", ![w].cand = decided]
  /\ UNCHANGED <<db, lock, torn>>

\* Variation: what was decided before is taken to be published.
CheckDone(w) ==
  /\ At(w, "check")
  /\ LET decided == db.aggregates[D(w)] IN
     CASE ~IsCurrent(D(w)) -> Answer(w, "no")
       [] IsCurrent(D(w)) /\ decided = None -> Go(w, "approval")
       [] IsCurrent(D(w)) /\ decided # None ->
            Answer(w, IF SameDecision(decided, Cand(w)) THEN "ok" ELSE "no")
  /\ UNCHANGED <<db, lock, torn>>

Check(w) ==
  /\ At(w, "check")
  /\ LET decided == db.aggregates[D(w)] IN
     CASE ~IsCurrent(D(w)) -> Answer(w, "no")
       [] IsCurrent(D(w)) /\ decided = None -> Go(w, "approval")
       [] IsCurrent(D(w)) /\ decided # None ->
            IF SameDecision(decided, Cand(w))
            THEN task' = [task EXCEPT ![w].pc = "publish", ![w].cand = decided]
            ELSE Answer(w, "no")
  /\ UNCHANGED <<db, lock, torn>>

\* resolveLegacyDecision: an approval, and perhaps an offer, without aggregate.
FindApproval(w) ==
  /\ At(w, "approval")
  /\ LET row == db.approvals[D(w)] IN
     CASE row = None -> Go(w, "orphan")
       [] row # None /\ ~SameDecision(row, task[w].job.decision) -> Answer(w, "no")
       [] row # None /\ SameDecision(row, task[w].job.decision) ->
            task' = [task EXCEPT ![w].pc = "offer", ![w].cand = row]
  /\ UNCHANGED <<db, lock, torn>>

\* No approval: an offer would be an orphan.
NoOrphan(w) ==
  /\ At(w, "orphan")
  /\ IF db.offers[D(w)] = None /\ task[w].route = "fresh"
     THEN Go(w, "fresh") ELSE Answer(w, "no")
  /\ UNCHANGED <<db, lock, torn>>

FindOffer(w) ==
  /\ At(w, "offer")
  /\ LET row == db.offers[D(w)] IN
     IF row \in {None} \cup (IF Approved(Cand(w)) THEN {Cand(w)} ELSE {})
     THEN task' = [task EXCEPT ![w].pc = "confirm", ![w].seen = row]
     ELSE Answer(w, "no")
  /\ UNCHANGED <<db, lock, torn>>

Confirm(w) ==
  /\ At(w, "confirm")
  /\ IF /\ db.approvals[D(w)] = Cand(w)
        /\ db.offers[D(w)] = task[w].seen
        /\ Preflight(D(w), Cand(w))
     THEN task' = [task EXCEPT ![w].pc = "stageApproval", ![w].route = "legacy"]
     ELSE Answer(w, "no")
  /\ UNCHANGED <<db, lock, torn>>

\* Look once more for a previous release's rows.
ResolveLate(w) ==
  task' = [task EXCEPT ![w].pc = "approval", ![w].route = "late",
                       ![w].cand = task[w].job.decision]

\* Variation: nothing is checked before the first row is written.
FreshUnchecked(w) ==
  /\ At(w, "fresh")
  /\ IF db.approvals[D(w)] # None \/ db.offers[D(w)] # None
     THEN ResolveLate(w) ELSE Go(w, "stageApproval")
  /\ UNCHANGED <<db, lock, torn>>

Fresh(w) ==
  /\ At(w, "fresh")
  /\ CASE D(w) \notin db.drafts -> Answer(w, "no")
       [] D(w) \in db.drafts /\ (db.approvals[D(w)] # None \/ db.offers[D(w)] # None) ->
            ResolveLate(w)
       [] D(w) \in db.drafts /\ db.approvals[D(w)] = None /\ db.offers[D(w)] = None ->
            IF Preflight(D(w), Cand(w)) THEN Go(w, "stageApproval") ELSE Answer(w, "no")
  /\ UNCHANGED <<db, lock, torn>>

\* Somebody else's row stands where the candidate's should.
Staged(w, row, next) ==
  IF row \in {None, Cand(w)} THEN Go(w, next)
  ELSE IF task[w].route = "fresh" THEN ResolveLate(w)
  ELSE Answer(w, "no")

\* What insert leaves in a row: the first value written.
Inserted(row, value) == IF row = None THEN value ELSE row

StageApproval(w) ==
  /\ At(w, "stageApproval")
  /\ db' = [db EXCEPT !.approvals[D(w)] = Inserted(@, Cand(w))]
  /\ Staged(w, db.approvals[D(w)], "stageOffer")
  /\ UNCHANGED <<lock, torn>>

StageOffer(w) ==
  /\ At(w, "stageOffer")
  /\ IF Approved(Cand(w))
     THEN /\ db' = [db EXCEPT !.offers[D(w)] = Inserted(@, Cand(w))]
          /\ Staged(w, db.offers[D(w)], "claim")
     ELSE /\ UNCHANGED db
          /\ IF db.offers[D(w)] = None THEN Go(w, "claim")
             ELSE Staged(w, db.offers[D(w)], "claim")
  /\ UNCHANGED <<lock, torn>>

\* claimAggregate: the insert-only aggregate is the decision.
Claim(w) ==
  /\ At(w, "claim")
  /\ LET winner == Inserted(db.aggregates[D(w)], Cand(w))
         taken == IF task[w].route = "legacy" THEN winner = Cand(w)
                  ELSE SameDecision(winner, task[w].job.decision)
     IN /\ db' = [db EXCEPT !.aggregates[D(w)] = winner]
        /\ IF taken THEN task' = [task EXCEPT ![w].pc = "publish", ![w].cand = winner]
           ELSE Answer(w, "no")
  /\ UNCHANGED <<lock, torn>>

-------------------------------------------------------------------------------
(* What follows from the aggregate *)

\* Undo what this request has made, last first, then answer with a conflict.
Back(w) == Go(w, "undo")

Audit(kind, d, decision) == [kind |-> kind, draft |-> d, of |-> decision]

\* Variation: an audit that was there already is claimed as this request's own.
WriteAuditClaiming(w, kind, next) ==
  LET others == {a \in db.audits : a.kind = kind /\ a.draft = D(w)}
      mine == Audit(kind, D(w), Cand(w))
  IN IF others \subseteq {mine}
     THEN /\ db' = [db EXCEPT !.audits = @ \cup {mine}]
          /\ task' = [task EXCEPT ![w].pc = next, ![w].made = <<kind>> \o @]
     ELSE UNCHANGED db /\ Back(w)

Audits(d, kind) == {a \in db.audits : a.kind = kind /\ a.draft = d}

AddAudit(w, kind) == db' = [db EXCEPT !.audits = @ \cup {Audit(kind, D(w), Cand(w))}]

\* prepareOfferAudit: idempotent under the audit's identity.
WriteAudit(w, kind, next) ==
  LET others == Audits(D(w), kind)
  IN CASE others = {} -> /\ AddAudit(w, kind)
                         /\ task' = [task EXCEPT ![w].pc = next, ![w].made = <<kind>> \o @]
       [] others # {} -> /\ UNCHANGED db
                         /\ IF Audit(kind, D(w), Cand(w)) \in others THEN Go(w, next) ELSE Back(w)

\* publishAggregateInCaseScope's preflight; no row contradicts the aggregate.
Projectable(w) ==
  /\ task[w].job.kind = "decide" => Preflight(D(w), Cand(w))
  /\ db.approvals[D(w)] \in {None, Cand(w)}
  /\ Approved(Cand(w)) => db.offers[D(w)] \in {None, Cand(w)}

\* The first half of projectDecisionAggregate: audit the approval.
Publish(w) ==
  /\ At(w, "publish")
  /\ IF Projectable(w)
     THEN IF Approved(Cand(w)) THEN WriteAudit(w, "approved", "repair")
          ELSE Go(w, "reviewEvent") /\ UNCHANGED db
     ELSE Back(w) /\ UNCHANGED db
  /\ UNCHANGED <<lock, torn>>

\* The second half: insert the rows that are missing.
Repair(w) ==
  /\ At(w, "repair")
  /\ LET approval == Inserted(db.approvals[D(w)], Cand(w))
         offer == Inserted(db.offers[D(w)], Cand(w))
     IN /\ db' = [db EXCEPT !.approvals[D(w)] = approval,
                            !.offers[D(w)] = IF approval = Cand(w) THEN offer ELSE @]
        /\ IF approval # Cand(w) \/ offer # Cand(w) THEN Back(w)
           ELSE CASE task[w].job.kind = "decide" -> Go(w, "reviewEvent")
                  [] task[w].job.kind = "handoff" -> Go(w, "insertHandoff")
                  [] task[w].job.kind = "get" -> Answer(w, "ok")
  /\ UNCHANGED <<lock, torn>>

\* appendOfferCaseEventInCollections: idempotent under the event's identity.
AppendEvent(w, kind) ==
  db' = IF EventsOf(D(w), kind) = {}
        THEN [db EXCEPT !.events = @ \cup {Event(kind, D(w), Cand(w))}]
        ELSE db

Contradicted(w, kind) == \E e \in EventsOf(D(w), kind) : e.of # Cand(w)

ReviewEvent(w) ==
  /\ At(w, "reviewEvent")
  /\ AppendEvent(w, "review_decision")
  /\ IF Contradicted(w, "review_decision") THEN Back(w)
     ELSE IF Approved(Cand(w)) THEN Go(w, "approvalEvent") ELSE Answer(w, "ok")
  /\ UNCHANGED <<lock, torn>>

ApprovalEvent(w) ==
  /\ At(w, "approvalEvent")
  /\ AppendEvent(w, "approval")
  /\ IF Contradicted(w, "approval") THEN Back(w) ELSE Go(w, "linkCase")
  /\ UNCHANGED <<lock, torn>>

LinkCase(w) ==
  /\ At(w, "linkCase")
  /\ IF db.case.offer \in {None, D(w)}
     THEN db' = [db EXCEPT !.case.offer = D(w)] /\ Answer(w, "ok")
     ELSE UNCHANGED db /\ Back(w)
  /\ UNCHANGED <<lock, torn>>

-------------------------------------------------------------------------------
(* The hand-over to production *)

\* Variation: no look at the history under the lock.
VerifyCaseOnly(w) ==
  /\ At(w, "verify")
  /\ IF db.case.handoff \in {None, D(w)} /\ db.case.offer \in {None, D(w)}
     THEN task' = [task EXCEPT ![w].pc = "auditHandoff", ![w].seen = db.case]
     ELSE Answer(w, "no")
  /\ UNCHANGED <<db, lock, torn>>

Verify(w) ==
  /\ At(w, "verify")
  /\ IF /\ IsCurrent(D(w))
        /\ db.case.handoff \in {None, D(w)}
        /\ db.case.offer \in {None, D(w)}
        /\ ~Contradicted(w, "result")
     THEN task' = [task EXCEPT ![w].pc = "auditHandoff", ![w].seen = db.case]
     ELSE Answer(w, "no")
  /\ UNCHANGED <<db, lock, torn>>

AuditHandoff(w) ==
  /\ At(w, "auditHandoff")
  /\ WriteAudit(w, "handoff", "publish")
  /\ UNCHANGED <<lock, torn>>

\* createdHandoff is noted when insertHandoff returns "created": not after a LateError.
InsertHandoff(w) ==
  /\ At(w, "insertHandoff")
  /\ db' = [db EXCEPT !.handoffs = @ \cup {D(w)}]
  /\ task' = [task EXCEPT ![w].pc = "resultEvent",
                          ![w].made = IF D(w) \in db.handoffs THEN @ ELSE <<"record">> \o @]
  /\ UNCHANGED <<lock, torn>>

\* createdResultEvent likewise.
ResultEvent(w) ==
  /\ At(w, "resultEvent")
  /\ AppendEvent(w, "result")
  /\ task' = [task EXCEPT ![w].pc = "complete",
                          ![w].made = IF EventsOf(D(w), "result") # {} THEN @
                                      ELSE <<"result">> \o @]
  /\ UNCHANGED <<lock, torn>>

\* Variation: the offer's link is left as it was.
CompletedCaseAsLinked(d) ==
  [status |-> "completed", offer |-> db.case.offer, handoff |-> d]

\* compareAndSetCase against the version read in Verify.
CompletedCase(d) == [status |-> "completed", offer |-> d, handoff |-> d]

Complete(w) ==
  /\ At(w, "complete")
  /\ CASE task[w].seen.handoff = D(w) /\ task[w].seen.status = "completed" ->
            UNCHANGED db /\ Answer(w, "ok")
       [] task[w].seen # CompletedCase(D(w)) /\ task[w].seen = db.case ->
            db' = [db EXCEPT !.case = CompletedCase(D(w))] /\ Answer(w, "ok")
       [] OTHER -> UNCHANGED db /\ Back(w)
  /\ UNCHANGED <<lock, torn>>

\* GET handoff: check again under the lock, repair, answer.
Reread(w) ==
  /\ At(w, "reread")
  /\ IF IsCurrent(D(w)) /\ db.case = CompletedCase(D(w)) /\ D(w) \in db.handoffs
     THEN Go(w, "publish") ELSE Answer(w, "no")
  /\ UNCHANGED <<db, lock, torn>>

-------------------------------------------------------------------------------
(* Failures *)

\* compensateHandoffPublication and compensateOfferAudits.
Without(thing, w) ==
  CASE thing = "result" -> [db EXCEPT !.events = @ \ EventsOf(D(w), "result")]
    [] thing = "record" -> [db EXCEPT !.handoffs = @ \ {D(w)}]
    [] thing \in {"approved", "handoff"} ->
         [db EXCEPT !.audits = @ \ {Audit(thing, D(w), Cand(w))}]

Undo(w) ==
  /\ At(w, "undo")
  /\ IF task[w].made = <<>> THEN Answer(w, "no") /\ UNCHANGED db
     ELSE /\ db' = Without(Head(task[w].made), w)
          /\ task' = [task EXCEPT ![w].made = Tail(@)]
  /\ UNCHANGED <<lock, torn>>

\* A call throws without effect; while undoing, what is left stays.
Fail(w) ==
  /\ lock = w /\ ~At(w, "leave")
  /\ IF At(w, "undo") THEN Answer(w, "no") ELSE Back(w)
  /\ UNCHANGED <<db, lock, torn>>

\* compareAndSetCase throws after the rename.
LateUpdate(w) ==
  \/ At(w, "linkCase") /\ db.case.offer = None /\ db' = [db EXCEPT !.case.offer = D(w)]
  \/ At(w, "complete") /\ task[w].seen = db.case /\ db' = [db EXCEPT !.case = CompletedCase(D(w))]
  \/ At(w, "reopen") /\ db' = [db EXCEPT !.case = ReopenedCase(D(w))]

\* insert throws after the hard link; an audit stays where prepareOfferAudit fails to
\* take it back.  For an insert that is not here, the same follows from its own
\* action and Fail after it.
LateInsert(w) ==
  \/ At(w, "reviewEvent") /\ AppendEvent(w, "review_decision")
  \/ At(w, "auditHandoff") /\ Audits(D(w), "handoff") = {} /\ AddAudit(w, "handoff")
  \/ At(w, "publish") /\ Projectable(w) /\ Approved(Cand(w))
       /\ Audits(D(w), "approved") = {} /\ AddAudit(w, "approved")
  \/ At(w, "insertHandoff") /\ db' = [db EXCEPT !.handoffs = @ \cup {D(w)}]
  \/ At(w, "resultEvent") /\ AppendEvent(w, "result")

\* A write takes effect and throws all the same: nothing is noted as made.
LateError(w) ==
  /\ (LateUpdates /\ LateUpdate(w)) \/ (LateInsert(w) /\ D(w) \in LateInserts)
  /\ db' # db
  /\ torn' = IF At(w, "insertHandoff") \/ At(w, "resultEvent") THEN torn \cup {D(w)} ELSE torn
  /\ Back(w)
  /\ UNCHANGED lock

Crash(w) ==
  /\ ~At(w, "idle")
  /\ task' = [task EXCEPT ![w] = Idle]
  /\ lock' = IF lock = w THEN None ELSE lock
  /\ UNCHANGED <<db, torn>>

-------------------------------------------------------------------------------
(* A previous release: first the approval, then the offer of an approved one *)

OlderApproval(d, decision) ==
  /\ d \in OlderRelease
  /\ d \in db.drafts
  /\ db.approvals[d] = None
  /\ db' = [db EXCEPT !.approvals[d] = decision]
  /\ UNCHANGED <<lock, task, torn>>

OlderOffer(d) ==
  /\ d \in OlderRelease
  /\ db.approvals[d] # None /\ Approved(db.approvals[d])
  /\ db.offers[d] = None
  /\ db' = [db EXCEPT !.offers[d] = db.approvals[d]]
  /\ UNCHANGED <<lock, task, torn>>

-------------------------------------------------------------------------------
Serve(w) ==
  \/ Enter(w) \/ Leave(w)
  \/ Admit(w) \/ SaveDraft(w) \/ DraftEvent(w) \/ Reopen(w)
  \/ Check(w) \/ FindApproval(w) \/ NoOrphan(w) \/ FindOffer(w) \/ Confirm(w) \/ Fresh(w)
  \/ StageApproval(w) \/ StageOffer(w) \/ Claim(w)
  \/ Publish(w) \/ Repair(w) \/ ReviewEvent(w) \/ ApprovalEvent(w) \/ LinkCase(w)
  \/ Verify(w) \/ AuditHandoff(w) \/ InsertHandoff(w) \/ ResultEvent(w) \/ Complete(w)
  \/ Reread(w) \/ Undo(w)

Next ==
  \/ \E w \in Worker :
       \/ \E job \in Job : Begin(w, job)
       \/ Serve(w)
       \/ TimeOut(w) \/ Fail(w) \/ LateError(w) \/ Crash(w)
  \/ \E d \in Draft : OlderOffer(d) \/ \E decision \in Decision : OlderApproval(d, decision)

Spec == Init /\ [][Next]_vars

-------------------------------------------------------------------------------
Tasks ==
  [pc : {"idle", "wait", "admit", "saveDraft", "draftEvent", "reopen", "check", "approval",
         "orphan", "offer", "confirm", "fresh", "stageApproval", "stageOffer", "claim",
         "publish", "repair", "reviewEvent", "approvalEvent", "linkCase", "verify",
         "auditHandoff", "insertHandoff", "resultEvent", "complete", "reread", "undo", "leave"},
   job : Job \cup {None},
   cand : Decision \cup {None},
   route : {"fresh", "legacy", "late"},
   seen : Decision \cup {None} \cup
          [status : {"open", "completed"}, offer : Draft \cup {None}, handoff : Draft \cup {None}],
   made : {<<>>, <<"approved">>, <<"handoff">>, <<"approved", "handoff">>,
           <<"record">>, <<"record", "approved">>, <<"record", "handoff">>,
           <<"record", "approved", "handoff">>, <<"result">>, <<"result", "record">>,
           <<"result", "approved">>, <<"result", "handoff">>, <<"result", "record", "approved">>,
           <<"result", "record", "handoff">>, <<"result", "approved", "handoff">>,
           <<"result", "record", "approved", "handoff">>},
   reply : {"none", "ok", "no"}]

TypeOK ==
  /\ DOMAIN db = DOMAIN [drafts |-> 0, events |-> 0, approvals |-> 0, offers |-> 0,
                         aggregates |-> 0, handoffs |-> 0, audits |-> 0, case |-> 0]
  /\ db.drafts \subseteq Draft
  /\ \A e \in db.events :
       /\ DOMAIN e = {"seq", "kind", "draft", "of"}
       /\ e.seq \in 1 .. 4 * Cardinality(Draft) /\ e.kind \in EventKinds /\ e.draft \in Draft
       /\ e.of \in IF e.kind = "draft_created" THEN {None} ELSE Decision
  /\ {db.approvals, db.offers, db.aggregates} \subseteq [Draft -> Decision \cup {None}]
  /\ db.handoffs \subseteq Draft
  /\ db.audits \subseteq [kind : {"approved", "handoff"}, draft : Draft, of : Decision]
  /\ db.case \in [status : {"open", "completed"}, offer : Draft \cup {None},
                  handoff : Draft \cup {None}]
  /\ lock \in Worker \cup {None}
  /\ task \in [Worker -> Tasks]
  /\ torn \subseteq Draft

HasEvent(d, kind) == EventsOf(d, kind) # {}

HasAudit(d, kind) == \E a \in db.audits : a.kind = kind /\ a.draft = d

\* The whole evidence of a hand-over.
Evidenced(d) ==
  HasEvent(d, "result") /\ d \in db.handoffs /\ HasAudit(d, "approved") /\ HasAudit(d, "handoff")

\* What a request answered with success has done, whatever others left behind:
\* retries and repairs add up to the same complete publication.
OkMeansDone ==
  \A w \in Worker : At(w, "leave") /\ task[w].reply = "ok" =>
    CASE task[w].job.kind = "decide" ->
           /\ SameDecision(db.aggregates[D(w)], task[w].job.decision)
           /\ HasEvent(D(w), "review_decision")
           /\ Approved(task[w].job.decision) =>
                /\ HasEvent(D(w), "approval") /\ HasAudit(D(w), "approved")
                /\ db.case.offer = D(w)
      [] task[w].job.kind = "save" ->
           D(w) \in db.drafts /\ (IsCurrent(D(w)) => db.case.offer \in {None, D(w)})
      [] task[w].job.kind = "handoff" ->
           db.case = CompletedCase(D(w)) /\ Evidenced(D(w))
      [] task[w].job.kind = "get" -> D(w) \in db.handoffs

\* The evidence of a hand-over, in the order in which it is relied on, also while it
\* is undone, after any crash, conflict, failure or retry: a result event has its
\* handoff record, a record has both audits.  Only where the insert of the record or
\* the event threw after storing it, so that the compensation does not know of it,
\* may what lies beneath be gone, until a hand-over is answered with success.
\* A record has an approved aggregate always.
EvidenceOrder ==
  \A d \in Draft :
    /\ d \in db.handoffs => db.aggregates[d] # None /\ Approved(db.aggregates[d])
    /\ d \notin torn =>
         /\ HasEvent(d, "result") => d \in db.handoffs
         /\ d \in db.handoffs => HasAudit(d, "approved") /\ HasAudit(d, "handoff")

\* However a decision's request ended, a retry can publish what was decided: the
\* read projections never contradict the aggregate, and a rejection has no offer,
\* also while a previous release inserts the same rows without the lock.
DecisionPublishable ==
  \A d \in Draft : db.aggregates[d] # None =>
    /\ db.approvals[d] = db.aggregates[d]
    /\ db.offers[d] = IF Approved(db.aggregates[d]) THEN db.aggregates[d] ELSE None
    /\ IsCurrent(d) => Preflight(d, db.aggregates[d])

\* A case left linked to an older draft's offer is reopened by a retry of the
\* save that was interrupted: nothing downstream has come after its draft.
StaleLinkRepairable ==
  \A d \in Draft : IsCurrent(d) /\ db.case.offer \notin {None, d} => Superseding(d)

\* A continuation was made from the draft that was current when it joined the
\* history: two of them never continue the same head.
LinearHistory ==
  \A e \in db.events : e.kind = "draft_created" /\ Original[e.draft] # None =>
    \E source \in EventsOf(Original[e.draft], "draft_created") :
      /\ source.seq < e.seq
      /\ ~\E f \in db.events : f.kind = "draft_created" /\ source.seq < f.seq /\ f.seq < e.seq

\* A case completed by a handoff whose compensation was cut short, or ran after
\* the fact, can be handed over again.
HandoffRedoable ==
  db.case.handoff # None =>
    /\ db.case.offer = db.case.handoff
    /\ db.aggregates[db.case.handoff] # None /\ Approved(db.aggregates[db.case.handoff])
    /\ \A e \in EventsOf(db.case.handoff, "result") : e.of = db.aggregates[db.case.handoff]

\* The case is linked and completed only for the draft that is current, and
\* completed only when the whole evidence of the hand-over stands.
LinksCurrentOnly ==
  [][ /\ \A d \in Draft :
           d \in {db'.case.offer, db'.case.handoff} \ {db.case.offer, db.case.handoff}
             => IsCurrent(d)
      /\ db'.case.handoff \notin {None, db.case.handoff} => Evidenced(db'.case.handoff) ]_db

\* A reopened case shows its persisted internal approval (routes/case-routes.ts):
\* the route shows it only when the case's history has the approval event.
ShowsApproval == db.case.status = "completed" => HasEvent(db.case.offer, "approval")
===============================================================================
