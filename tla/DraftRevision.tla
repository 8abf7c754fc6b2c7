----------------------------- MODULE DraftRevision -----------------------------
(***************************************************************************)
(* The drafts of one production case that was opened by a hand-over, in    *)
(* file mode: an operator reviews the cards of a draft, has it prepared,   *)
(* changes it by commands, or has a model revise it.  Every such step      *)
(* supersedes the draft by a new one, with three writes: the new draft,    *)
(* the old one's status, and the event that links the new draft to the     *)
(* case.  Something on the menu is made in the kitchen, so that every draft *)
(* needs planning evidence before it can be prepared.                      *)
(*                                                                         *)
(* A request looks at the draft first and then works in the critical       *)
(* section of the case, one action per write; what it reads there nobody   *)
(* changes, so reading comes with the first write.  It is cut short when a *)
(* write fails, with or without effect, or its worker dies; nothing is     *)
(* undone, and sending the request again is meant to finish it.            *)
(***************************************************************************)
EXTENDS Naturals, FiniteSets, SequencesExt

CONSTANTS
  Worker,
  Card,           \* the review cards of every draft
  Command,        \* the changes an operator may make
  Verdict,        \* what the operator may find of a card, apart from "change"
  None,
  MaxRevision,    \* bound on the successors of a draft, one after the other
  MaxReviews      \* bound on the reviews

ASSUME DraftRevisionAssumption ==
  /\ IsFiniteSet(Card) /\ "change" \notin Verdict /\ None \notin Worker
  /\ MaxRevision \in Nat /\ MaxReviews \in Nat

VARIABLES
  drafts,     \* the content of each stored draft
  events,     \* the timeline of the case
  latest,     \* the draft that its last draft or revision event links
  evidence,   \* the drafts with planning evidence
  fitting,    \* those whose evidence fits the recipe as it is in the library
  decided,    \* the drafts with a decision aggregate
  lock,       \* the worker in the critical section of the case, or None
  task,       \* what each worker is doing
  now         \* the time of the last review

stored == <<drafts, events, latest, evidence, fitting, decided>>
vars == <<stored, lock, task, now>>

\* A step is named by its input: the new draft's identity is a hash of the old
\* one's and of the command, or of the cards to change with their comments.
Step == [kind : {"prepare"}, by : {{}}]
          \cup [kind : {"command"}, by : {{c} : c \in Command}]
          \cup [kind : {"model"}, by : (SUBSET Card) \ {{}}]

\* A draft is identified by the steps that lead to it from the first one.
Draft == UNION {[1 .. n -> Step] : n \in 0 .. MaxRevision}

First == << >>

Mark == [verdict : Verdict \cup {"change", "pending"}, at : 0 .. MaxReviews]

Unseen == [c \in Card |-> [verdict |-> "pending", at |-> 0]]

\* Also what independentDraftReviewCards leaves of the old draft's cards.
Fresh == [status |-> "pending", cards |-> Unseen]

Content == [status : {"pending", "superseded", "decided"}, cards : [Card -> Mark]]

ASSUME NoneAssumption == None \notin Content

Link(d) == [kind |-> "draft", draft |-> d, card |-> None, mark |-> None]
Proof(d, c, mark) == [kind |-> "review", draft |-> d, card |-> c, mark |-> mark]

Event == {Link(d) : d \in Draft}
           \cup {Proof(d, c, m) : d \in Draft, c \in Card, m \in Mark}

Job == [kind : {"review"}, draft : Draft, card : Card, verdict : Verdict \cup {"change"}]
         \cup [kind : {"prepare", "model"}, draft : Draft]
         \cup [kind : {"command"}, draft : Draft, command : Command]

Idle == [pc |-> "idle", job |-> None, seen |-> None, found |-> None, plan |-> << >>]

Init ==
  /\ drafts = [d \in {First} |-> Fresh]
  /\ events = {Link(First)}
  /\ latest = First
  /\ evidence = {} /\ fitting = {}
  /\ decided = {}
  /\ lock = None
  /\ task = [w \in Worker |-> Idle]
  /\ now = 0

-------------------------------------------------------------------------------
(* What the stored records say *)

History == DOMAIN drafts

Stored(d) == d \in History

Read(d) == IF Stored(d) THEN drafts[d] ELSE None

Open(d) == Stored(d) /\ drafts[d].status = "pending"

Linked(d) == Link(d) \in events

\* listDraftsInLineage: the draft and what succeeds it.
Lineage(d) == {e \in History : IsPrefix(d, e)}

\* productionDraftLineage: the draft and what it succeeds.
Origins(d) == Prefixes(d)

\* canonicalLineageProjectionIsValid.  The draft "but" is the one that this
\* request is about to link.
LineageLinked(d, but) == Stored(d) /\ \A e \in Lineage(d) \ but : Linked(e)

\* canonicalReviewProjectionIsValid, of the draft as given and its predecessors.
ReviewsProven(d, content, but) ==
  \A e \in Origins(d), c \in Card :
    LET mark == (IF e = d THEN content ELSE drafts[e]).cards[c]
    IN  mark.at # 0 /\ <<e, c>> # but => Proof(e, c, mark) \in events

\* The case has the spec it was opened with; what the model returns is a spec
\* of another name.
SpecKept(d) == \A i \in DOMAIN d : d[i].kind # "model"

NoOther(d, child) == \A e \in Lineage(d) : e \in {d, child}

Superseded(content) == [content EXCEPT !.status = "superseded"]

\* Variation: only the status is compared.
UnchangedStatus(d, seen) == Stored(d) /\ drafts[d].status = seen.status

Unchanged(d, seen) == Read(d) = seen

\* What commitPreparedDraft and supersedeDraft ask of the old draft.
Replaceable(d, seen) == Unchanged(d, seen) /\ seen.status = "pending" /\ d \notin decided

\* The cards to change, each with a comment, make the context of the model.
ToChange(content) == {c \in Card : content.cards[c].verdict = "change"}

StepOf(job, seen) ==
  CASE job.kind = "prepare" -> [kind |-> "prepare", by |-> {}]
    [] job.kind = "command" -> [kind |-> "command", by |-> {job.command}]
    [] job.kind = "model"   -> [kind |-> "model", by |-> ToChange(seen)]

Child(job, seen) == Append(job.draft, StepOf(job, seen))

-------------------------------------------------------------------------------
(* The writes that a request plans in the critical section, none if refused *)

Put(d, content) == [kind |-> "draft", draft |-> d, content |-> content]
Log(event) == [kind |-> "event", event |-> event]
Note(d) == [kind |-> "evidence", draft |-> d]
Aggregate(d) == [kind |-> "aggregate", draft |-> d]

If(condition, writes) == IF condition THEN writes ELSE << >>

Supersede(d, seen, child) == << Put(d, Superseded(seen)), Log(Link(child)) >>

\* PATCH review-cards: a repeated review appends the event that is missing.
ReviewWrites(job, seen) ==
  LET d == job.draft
      c == job.card
      mark == drafts[d].cards[c]
      repeated == mark.verdict = job.verdict /\ mark.at # 0
      new == [verdict |-> job.verdict, at |-> now + 1]
  IN  If(/\ Unchanged(d, seen) /\ d \notin decided
         /\ LineageLinked(d, {})
         /\ ReviewsProven(d, drafts[d], IF repeated THEN <<d, c>> ELSE << >>)
         /\ repeated \/ now < MaxReviews,
         IF repeated THEN << Log(Proof(d, c, mark)) >>
         ELSE << Put(d, [seen EXCEPT !.cards[c] = new]), Log(Proof(d, c, new)) >>)

\* Variation: that every successor is linked is not asked.
CommitWritesAnyway(job, seen) ==
  LET d == job.draft
      child == Child(job, seen)
  IN  If(SpecKept(d) /\ Replaceable(d, seen) /\ ~ Stored(child),
         << Put(child, Fresh) >> \o Supersede(d, seen, child))

\* The first preparation, and a revision by the model.
CommitWrites(job, seen) ==
  LET d == job.draft
      child == Child(job, seen)
  IN  If(/\ SpecKept(d) /\ LineageLinked(d, {})
         /\ Replaceable(d, seen) /\ ~ Stored(child),
         << Put(child, Fresh) >> \o Supersede(d, seen, child))

\* recoverPreparedDraft: the preparation was found when the request looked.
RecoverWrites(job, seen) ==
  LET d == job.draft
      child == Child(job, seen)
      linkable == /\ LineageLinked(d, {child})
                  /\ \A e \in Lineage(d) : Len(e) > Len(child) => e = child
  IN  If(SpecKept(d) /\ linkable,
         IF drafts[d].status = "superseded"
         THEN If(Open(child), << Log(Link(child)) >>)
         ELSE If(Replaceable(d, seen), Supersede(d, seen, child)))

\* appendCanonicalRevisionEventInScope, of the child as found.
RepairWrites(job, seen, found) ==
  LET d == job.draft
      child == Child(job, seen)
  IN  If(/\ drafts[d] = Superseded(seen) /\ drafts[child] = found
         /\ \A e \in Lineage(d) : e # child => Len(e) < Len(child)
         /\ LineageLinked(d, {child}),
         << Log(Link(child)) >>)

\* Variation: a command that is sent again must have been linked.
CommandWritesLinked(job, seen) ==
  LET d == job.draft
      child == Child(job, seen)
  IN  If(/\ SpecKept(d) /\ LineageLinked(d, {})
         /\ ReviewsProven(d, seen, << >>) /\ NoOther(d, child)
         /\ ~ Stored(child) /\ Replaceable(d, seen),
         << Put(child, Fresh) >> \o Supersede(d, seen, child))

\* POST revise with a command.
CommandWrites(job, seen) ==
  LET d == job.draft
      child == Child(job, seen)
  IN  If(/\ SpecKept(d) /\ LineageLinked(d, {child})
         /\ ReviewsProven(d, seen, << >>) /\ NoOther(d, child),
         IF ~ Stored(child)
         THEN If(Replaceable(d, seen), << Put(child, Fresh) >> \o Supersede(d, seen, child))
         ELSE If(drafts[child] = Fresh,
                 IF drafts[d].status = "pending"
                 THEN If(Replaceable(d, seen), Supersede(d, seen, child))
                 ELSE If(drafts[d] = Superseded(seen), << Log(Link(child)) >>)))

\* POST planning-evidence, once for a draft.
EvidenceWrites(d) ==
  If(/\ Open(d) /\ d \notin decided /\ d \notin evidence
     /\ \A e \in Draft : Linked(e) => Len(e) <= Len(d)
     /\ Linked(d) /\ SpecKept(d),
     << Note(d) >>)

\* productionCaseDraftTimelineError finds nothing wrong.
Current(d) ==
  /\ latest = d
  /\ \A e \in Origins(d) : \A f \in Lineage(e) : Linked(f)
  /\ Lineage(d) = {d}

\* POST decision, of which only the aggregate and the draft matter here (see
\* ProductionApply).  A decision that has its aggregate is projected again.
DecisionWrites(d) ==
  If(/\ Current(d) /\ ReviewsProven(d, drafts[d], << >>)
     /\ Open(d) \/ d \in decided,
     << Aggregate(d), Put(d, [drafts[d] EXCEPT !.status = "decided"]) >>)

Writes(job, seen, found) ==
  CASE job.kind = "review"  -> ReviewWrites(job, seen)
    [] job.kind = "command" -> CommandWrites(job, seen)
    [] job.kind = "prepare" -> IF found = None THEN CommitWrites(job, seen) ELSE RecoverWrites(job, seen)
    [] job.kind = "model"   -> IF found = None THEN CommitWrites(job, seen) ELSE RepairWrites(job, seen, found)

-------------------------------------------------------------------------------
(* A request *)

At(w, point) == task[w].pc = point

Go(w, point) == task' = [task EXCEPT ![w].pc = point]

\* A request has looked for the new draft.
Find(w, point, child) ==
  task' = [task EXCEPT ![w] = [pc |-> point, job |-> @.job, seen |-> @.seen,
                               found |-> Read(child), plan |-> << >>]]

Finish(w) == task' = [task EXCEPT ![w] = Idle]

Checked(job) == job.kind \in {"prepare", "model"}

\* What a request asks of the draft when it first looks.
Admitted(job) ==
  LET d == job.draft
  IN  /\ Stored(d)
      /\ CASE job.kind = "review"  -> Open(d)
           [] job.kind = "command" -> /\ drafts[d].status \in {"pending", "superseded"}
                                      /\ \A e \in Origins(d) : Linked(e)
           [] job.kind = "model"   -> ToChange(drafts[d]) # {}
           [] job.kind = "prepare" -> TRUE
      /\ Checked(job) => ReviewsProven(d, drafts[d], << >>)

\* A new draft is named within the bound.
Bounded(job) == job.kind \in {"prepare", "model", "command"} => Len(job.draft) < MaxRevision

\* A preparation and a revision by the model check in a section of their own
\* what they saw before, which must still be there: they begin with it.
Ask(w, job) ==
  /\ At(w, "idle") /\ Admitted(job) /\ Bounded(job)
  /\ Checked(job) => lock = None
  /\ task' = [task EXCEPT ![w] =
       [pc |-> IF Checked(job) THEN "checked" ELSE "ready",
        job |-> job, seen |-> drafts[job.draft], found |-> None, plan |-> << >>]]
  /\ UNCHANGED <<stored, lock, now>>

\* One write takes effect.
Perform(write) ==
  CASE write.kind = "draft" ->
         /\ drafts' = [d \in History \cup {write.draft} |->
                         IF d = write.draft THEN write.content ELSE drafts[d]]
         /\ UNCHANGED <<events, latest, evidence, fitting, decided>>
    [] write.kind = "event" ->
         /\ events' = events \cup {write.event}
         /\ latest' = IF write.event.kind = "draft" /\ write.event \notin events
                      THEN write.event.draft ELSE latest
         /\ UNCHANGED <<drafts, evidence, fitting, decided>>
    [] write.kind = "evidence" ->
         /\ evidence' = evidence \cup {write.draft}
         /\ fitting' = fitting \cup {write.draft}
         /\ UNCHANGED <<drafts, events, latest, decided>>
    [] write.kind = "aggregate" ->
         /\ decided' = decided \cup {write.draft}
         /\ UNCHANGED <<drafts, events, latest, evidence, fitting>>

\* A request performs the writes planned one after the other, and leaves the
\* section with the last one.
Continue(w, writes) ==
  /\ Perform(Head(writes))
  /\ IF Len(writes) = 1
     THEN Finish(w) /\ lock' = None
     ELSE /\ task' = [task EXCEPT ![w] = [Idle EXCEPT !.pc = "writing", !.plan = Tail(writes)]]
          /\ lock' = w

\* What a decision and the planning evidence rest on is all read in the section.
Take(w, writes) ==
  /\ At(w, "idle") /\ lock = None /\ writes # << >>
  /\ Continue(w, writes)
  /\ UNCHANGED now

\* What is read between the two sections: planning evidence that fits the recipe,
\* and the new draft, if it is there.
Ready(job, seen, child) ==
  /\ job.kind = "prepare" => /\ job.draft \in fitting
                             /\ Stored(child) => Open(child)
  /\ Stored(child) \/ seen.status = "pending"

Look(w) ==
  /\ At(w, "checked")
  /\ LET child == Child(task[w].job, task[w].seen)
     IN  IF Ready(task[w].job, task[w].seen, child)
         THEN Find(w, "ready", child)
         ELSE Finish(w)
  /\ UNCHANGED <<stored, lock, now>>

\* Refused in the section, the two look whether another request was faster.
Enter(w) ==
  /\ At(w, "ready") /\ lock = None
  /\ LET t == task[w]
         writes == Writes(t.job, t.seen, t.found)
     IN  IF writes # << >>
         THEN /\ Continue(w, writes)
              /\ now' = IF t.job.kind = "review" /\ Len(writes) = 2 THEN now + 1 ELSE now
         ELSE /\ IF Checked(t.job) /\ t.found = None
                 THEN Go(w, "refused") ELSE Finish(w)
              /\ UNCHANGED <<stored, lock, now>>

Reconsider(w) ==
  /\ At(w, "refused")
  /\ LET t == task[w]
         child == Child(t.job, t.seen)
     IN  IF Stored(child) /\ (t.job.kind = "prepare" => Open(child))
         THEN Find(w, "repair", child)
         ELSE Finish(w)
  /\ UNCHANGED <<stored, lock, now>>

Repair(w) ==
  /\ At(w, "repair") /\ lock = None
  /\ LET t == task[w]
         writes == RepairWrites(t.job, t.seen, t.found)
     IN  IF writes # << >>
         THEN Continue(w, writes)
         ELSE Finish(w) /\ UNCHANGED <<stored, lock>>
  /\ UNCHANGED now

Write(w) ==
  /\ At(w, "writing")
  /\ Continue(w, task[w].plan)
  /\ UNCHANGED now

\* The worker dies before its next write, or a write failed: with effect, it is
\* the next one that is missing.
Cut(w) ==
  /\ At(w, "writing")
  /\ Finish(w) /\ lock' = None
  /\ UNCHANGED <<stored, now>>

\* The recipe is changed in the library.
EditRecipe ==
  /\ fitting # {} /\ fitting' = {}
  /\ UNCHANGED <<drafts, events, latest, evidence, decided, lock, task, now>>

Next ==
  \/ \E w \in Worker :
       \/ \E job \in Job : Ask(w, job)
       \/ \E d \in History : Take(w, EvidenceWrites(d)) \/ Take(w, DecisionWrites(d))
       \/ Look(w) \/ Enter(w) \/ Reconsider(w) \/ Repair(w)
       \/ Write(w) \/ Cut(w)
  \/ EditRecipe

Spec == Init /\ [][Next]_vars

-------------------------------------------------------------------------------
(* Properties *)

\* The case has one history: of two stored drafts one succeeds the other, even
\* where a request was cut short, and a draft whose successor is linked is
\* superseded.  Two workers that revise, prepare or decide the same draft, or
\* continue where another was cut short, never fork it.
OneHistory ==
  \A d, e \in History :
    /\ IsPrefix(d, e) \/ IsPrefix(e, d)
    /\ IsStrictPrefix(d, e) /\ Linked(e) => drafts[d].status = "superseded"

\* No review is lost: what the timeline says of a card is on the card, unless the
\* card was reviewed again; and a draft that was superseded or decided shows
\* nothing that the timeline does not prove.
ReviewsKept ==
  /\ \A e \in events : e.kind = "review" => drafts[e.draft].cards[e.card].at >= e.mark.at
  /\ \A d \in History : ~ Open(d) => ReviewsProven(d, drafts[d], << >>)

\* The request for a step is accepted when nothing else is going on.
Accepted(job) ==
  LET d == job.draft
      child == Child(job, drafts[d])
  IN  /\ Admitted(job)
      /\ Checked(job) => Ready(job, drafts[d], child)
      /\ Writes(job, drafts[d], IF Checked(job) THEN Read(child) ELSE None) # << >>

\* The request that made a draft.
Origin(d) ==
  LET step == Last(d)
  IN  CASE step.kind = "command" ->
             [kind |-> "command", draft |-> Front(d), command |-> CHOOSE c \in Command : c \in step.by]
        [] OTHER -> [kind |-> step.kind, draft |-> Front(d)]

Unfinished == {d \in History : ~ Linked(d)}

\* A request that was cut short is finished by sending it again: a review whose
\* event is missing, a decision that was not projected, a command, a preparation.
\* Until then every other step of the case is refused, so it must be possible.
\* Two kinds are excepted, which nobody can finish: a revision by the model that
\* was cut short before the old draft was superseded, and a preparation whose
\* recipe is changed before it is sent again, until it is changed back.
Redoable ==
  lock = None =>
    /\ \A d \in Unfinished :
         \/ Last(d).kind = "model" /\ Open(Front(d))
         \/ Last(d).kind = "prepare" /\ Front(d) \notin fitting
         \/ Accepted(Origin(d))
    /\ \A d \in decided : Open(d) => DecisionWrites(d) # << >>
    /\ \A d \in History, c \in Card :
         LET mark == drafts[d].cards[c]
         IN  Open(d) /\ mark.at # 0 /\ Proof(d, c, mark) \notin events =>
               Accepted([kind |-> "review", draft |-> d, card |-> c, verdict |-> mark.verdict])
===============================================================================
