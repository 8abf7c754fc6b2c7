-------------------------- MODULE OfferDecisionProofs --------------------------
(***************************************************************************)
(* Proofs about OfferDecision, for any workers, drafts, continuations and  *)
(* stamps: what an answer promises was done, what is stored is in order    *)
(* and can be completed by a retry wherever a request was cut short.       *)
(***************************************************************************)
EXTENDS OfferDecision, SequenceTheorems, FiniteSetTheorems, WellFoundedInduction, TLAPS

-------------------------------------------------------------------------------
(* The shape of the state *)

EventSet == [seq : Nat, kind : EventKinds, draft : Draft, of : Decision \cup {None}]
AuditSet == [kind : {"approved", "handoff"}, draft : Draft, of : Decision]
Case == [status : {"open", "completed"}, offer : Draft \cup {None}, handoff : Draft \cup {None}]
Rows == [Draft -> Decision \cup {None}]
Thing == {"approved", "handoff", "record", "result"}

DbShape ==
  /\ db \in [drafts : SUBSET Draft, events : SUBSET EventSet, approvals : Rows, offers : Rows,
             aggregates : Rows, handoffs : SUBSET Draft, audits : SUBSET AuditSet, case : Case]
  /\ IsFiniteSet(db.events)
  /\ \A e \in db.events : e.seq > 0

Things == Seq(Thing)

Points ==
  {"idle", "wait", "admit", "saveDraft", "draftEvent", "reopen", "check", "approval", "orphan",
   "offer", "confirm", "fresh", "stageApproval", "stageOffer", "claim", "publish", "repair",
   "reviewEvent", "approvalEvent", "linkCase", "verify", "auditHandoff", "insertHandoff",
   "resultEvent", "complete", "reread", "undo", "leave"}

TaskSet ==
  [pc : Points, job : Job \cup {None}, cand : Decision \cup {None},
   route : {"fresh", "legacy", "late"}, seen : Decision \cup {None} \cup Case, made : Things,
   reply : {"none", "ok", "no"}]

TaskShape == task \in [Worker -> TaskSet]

\* The lock is with whoever is past waiting for it.
LockHeld ==
  /\ lock \in Worker \cup {None}
  /\ \A w \in Worker : task[w].pc \notin {"idle", "wait"} <=> lock = w

-------------------------------------------------------------------------------
(* What is stored *)

\* Events have numbers of their own; what follows from a decision carries the one
\* of the aggregate, and only an approved one is linked or handed over.
EventsNumbered == \A e, f \in db.events : e.seq = f.seq => e = f

EventsDecided ==
  \A e \in db.events : e.kind # "draft_created" =>
    /\ e.of # None /\ e.of = db.aggregates[e.draft]
    /\ e.kind \in {"approval", "result"} => Approved(e.of)

AuditsDecided ==
  \A a \in db.audits : a.of # None /\ a.of = db.aggregates[a.draft] /\ Approved(a.of)

\* An offer is its approval's; an aggregate has both, as its verdict wants.
OffersApproved ==
  \A d \in Draft : db.offers[d] # None => db.offers[d] = db.approvals[d] /\ Approved(db.offers[d])

Projected ==
  \A d \in Draft : db.aggregates[d] # None =>
    /\ Linked(d)
    /\ db.approvals[d] = db.aggregates[d]
    /\ db.offers[d] = IF Approved(db.aggregates[d]) THEN db.aggregates[d] ELSE None

\* The case is linked to an approved draft, and completed for the one it is linked to.
CaseDecided ==
  /\ db.case.offer # None =>
       db.aggregates[db.case.offer] # None /\ Approved(db.aggregates[db.case.offer])
  /\ db.case.handoff # None => db.case.offer = db.case.handoff

\* A decided draft that is current has no other draft's link beside it.
LinkFree ==
  \A d \in Draft : IsCurrent(d) /\ db.aggregates[d] # None => db.case.offer \in {None, d}

\* A hand-over is of an approved draft.
HandoffsDecided ==
  \A d \in db.handoffs : db.aggregates[d] # None /\ Approved(db.aggregates[d])

DbInv ==
  /\ EventsNumbered /\ EventsDecided /\ AuditsDecided /\ OffersApproved /\ Projected
  /\ CaseDecided /\ LinkFree /\ StaleLinkRepairable /\ LinearHistory /\ HandoffsDecided

-------------------------------------------------------------------------------
(* What a request knows at point p *)

Kind(w) == task[w].job.kind

SavePoints == {"admit", "saveDraft", "draftEvent", "reopen"}
ResolvePoints == {"check", "approval", "orphan", "offer", "confirm", "fresh"}
StagePoints == {"stageApproval", "stageOffer", "claim"}
ProjectPoints == {"reviewEvent", "approvalEvent", "linkCase"}
HandoffPoints == {"verify", "auditHandoff", "insertHandoff", "resultEvent", "complete"}
SharedPoints == {"publish", "repair"}

KindAt(w, p) ==
  /\ p \in SavePoints => Kind(w) = "save"
  /\ p \in ResolvePoints \cup StagePoints \cup ProjectPoints => Kind(w) = "decide"
  /\ p \in HandoffPoints => Kind(w) = "handoff"
  /\ p = "reread" => Kind(w) = "get"
  /\ p \in SharedPoints => Kind(w) # "save"

\* What it found when it began, and stays true.
JobAt(w, p) ==
  p # "idle" =>
    /\ task[w].job \in Job
    /\ Kind(w) = "decide" =>
         Linked(D(w)) /\ Cand(w) # None /\ SameDecision(Cand(w), task[w].job.decision)
    /\ Kind(w) \in {"handoff", "get"} =>
         Cand(w) # None /\ db.aggregates[D(w)] = Cand(w) /\ Approved(Cand(w))

\* A continuation is admitted while its source is current.
AdmittedAt(w, p) ==
  /\ p \in {"saveDraft", "draftEvent"} =>
       Original[D(w)] = None \/ Linked(D(w)) \/ IsCurrent(Original[D(w)])
  /\ p \in {"draftEvent", "reopen"} => D(w) \in db.drafts

\* The draft is current from the check to the end.
CurrentAt(w, p) ==
  p \in (ResolvePoints \ {"check"}) \cup StagePoints \cup ProjectPoints \cup SharedPoints
        \cup (HandoffPoints \ {"verify"})
    => IsCurrent(D(w))

\* The rows that are staged for the aggregate, and the room for it.
StagedAt(w, p) ==
  /\ p \in StagePoints => Preflight(D(w), Cand(w))
  /\ p \in {"stageOffer", "claim"} => db.approvals[D(w)] = Cand(w)
  /\ p = "claim" => db.offers[D(w)] = IF Approved(Cand(w)) THEN Cand(w) ELSE None

\* From the aggregate on, the candidate is what was decided; and what was written.
PublishedAt(w, p) ==
  /\ p \in SharedPoints \cup ProjectPoints => Cand(w) # None /\ db.aggregates[D(w)] = Cand(w)
  /\ p \in {"repair", "approvalEvent", "linkCase"} => Approved(Cand(w))
  /\ p \in {"repair", "approvalEvent", "linkCase", "insertHandoff", "resultEvent", "complete"} =>
       HasAudit(D(w), "approved")
  /\ p = "reviewEvent" /\ Approved(Cand(w)) => HasAudit(D(w), "approved")
  /\ p \in {"approvalEvent", "linkCase"} => HasEvent(D(w), "review_decision")
  /\ p = "linkCase" => HasEvent(D(w), "approval")

\* The same of a hand-over.
HandedAt(w, p) ==
  /\ Kind(w) = "handoff" /\ p \in SharedPoints \cup (HandoffPoints \ {"verify"}) =>
       task[w].seen = db.case
  /\ Kind(w) = "handoff" /\ p \in SharedPoints \cup (HandoffPoints \ {"verify", "auditHandoff"}) =>
       HasAudit(D(w), "handoff")
  /\ p \in {"resultEvent", "complete"} => D(w) \in db.handoffs
  /\ Kind(w) = "get" /\ p \in SharedPoints => D(w) \in db.handoffs
  /\ p = "complete" => HasEvent(D(w), "result")

\* Whoever has not begun has made nothing.
MadeAt(w, p) == p \in {"idle", "wait"} => task[w].made = <<>>

KnownAt(w, p) ==
  /\ KindAt(w, p) /\ JobAt(w, p) /\ AdmittedAt(w, p) /\ CurrentAt(w, p)
  /\ StagedAt(w, p) /\ PublishedAt(w, p) /\ HandedAt(w, p) /\ MadeAt(w, p)

\* What an answer "ok" promises, by the kind of the request (OkMeansDone).
Done(w) ==
  /\ Kind(w) = "decide" =>
       /\ db.aggregates[D(w)] # None
       /\ SameDecision(db.aggregates[D(w)], task[w].job.decision)
       /\ HasEvent(D(w), "review_decision")
       /\ Approved(task[w].job.decision) =>
            /\ HasEvent(D(w), "approval") /\ HasAudit(D(w), "approved")
            /\ db.case.offer = D(w)
  /\ Kind(w) = "save" =>
       D(w) \in db.drafts /\ (IsCurrent(D(w)) => db.case.offer \in {None, D(w)})
  /\ Kind(w) = "handoff" => db.case = CompletedCase(D(w)) /\ Evidenced(D(w))
  /\ Kind(w) = "get" => D(w) \in db.handoffs

Known == \A w \in Worker : KnownAt(w, task[w].pc)

Kept == \A w \in Worker : At(w, "leave") /\ task[w].reply = "ok" => Done(w)

IInv == DbShape /\ TaskShape /\ LockHeld /\ DbInv /\ Known /\ Kept

-------------------------------------------------------------------------------
(* The last number of a finite set of events *)

\* A nonempty finite set of naturals has a greatest element: a smallest finite
\* set without one would have one less that has one.
LEMMA FiniteMax ==
  ASSUME NEW S \in SUBSET Nat, IsFiniteSet(S), S # {}
  PROVE  \E m \in S : \A x \in S : m >= x
<1> DEFINE HasMax(A) == \E m \in A : \A x \in A : m >= x
           Bad == {A \in FiniteSubsetsOf(Nat) : A # {} /\ ~HasMax(A)}
           R == StrictSubsetOrdering(Nat)
<1>1. IsWellFoundedOn(R, FiniteSubsetsOf(Nat))
  BY FS_StrictSubsetOrderingWellFounded
<1>2. Bad = {}
  <2> SUFFICES ASSUME Bad # {} PROVE FALSE
    OBVIOUS
  <2>1. PICK A \in Bad : \A B \in Bad : ~(<<B, A>> \in R)
    <3> HIDE DEF R
    <3>1. Bad \subseteq FiniteSubsetsOf(Nat)
      OBVIOUS
    <3> HIDE DEF Bad
    <3> QED BY <1>1, <3>1, WFMin
  <2>2. A \in SUBSET Nat /\ IsFiniteSet(A) /\ A # {} /\ ~HasMax(A)
    BY DEF FiniteSubsetsOf
  <2>3. PICK x \in A : TRUE
    BY <2>2
  <2>4. IsFiniteSet(A \ {x})
    BY <2>2, FS_RemoveElement
  <2>5. <<A \ {x}, A>> \in R
    BY <2>2, <2>3 DEF StrictSubsetOrdering
  <2>6. A \ {x} \notin Bad
    <3> HIDE DEF Bad, R
    <3> QED BY <2>1, <2>5
  <2>7. A \ {x} = {} \/ HasMax(A \ {x})
    BY <2>2, <2>4, <2>6 DEF FiniteSubsetsOf
  <2>8. CASE A \ {x} = {}
    BY <2>2, <2>3, <2>8
  <2>9. CASE HasMax(A \ {x})
    <3>1. PICK m \in A \ {x} : \A y \in A \ {x} : m >= y
      BY <2>9
    <3>2. CASE m >= x
      BY <2>2, <3>1, <3>2
    <3>3. CASE ~(m >= x)
      BY <2>2, <3>1, <3>3
    <3> QED BY <3>2, <3>3
  <2> QED BY <2>7, <2>8, <2>9
<1>3. S \in FiniteSubsetsOf(Nat)
  BY DEF FiniteSubsetsOf
<1> QED BY <1>2, <1>3

\* Last is 0 or the number of an event, and none has a higher one.
LEMMA LastIs ==
  ASSUME NEW E \in SUBSET EventSet, IsFiniteSet(E)
  PROVE  /\ Last(E) \in Nat
         /\ \A e \in E : e.seq <= Last(E)
         /\ Last(E) = 0 \/ \E e \in E : e.seq = Last(E)
<1> DEFINE N == {e.seq : e \in E}
           M == {0} \cup N
<1>1. IsFiniteSet(N)
  <2> DEFINE f == [e \in E |-> e.seq]
  <2>1. f \in Surjection(E, N)
    BY DEF Surjection
  <2> HIDE DEF f, N
  <2> QED BY <2>1, FS_Surjection
<1>2. IsFiniteSet(M)
  <2> HIDE DEF N
  <2>1. IsFiniteSet({0})
    BY FS_Singleton
  <2> QED BY <1>1, <2>1, FS_Union
<1>3. M \in SUBSET Nat /\ M # {}
  BY DEF EventSet
<1>4. PICK m \in M : \A x \in M : m >= x
  <2> HIDE DEF M
  <2> QED BY <1>2, <1>3, FiniteMax
<1>5. Last(E) \in M /\ \A x \in M : Last(E) >= x
  <2>1. Last(E) = CHOOSE x \in M : \A y \in M : x >= y
    BY DEF Last, Max
  <2> HIDE DEF M
  <2> QED BY <1>4, <2>1
<1>6. \A e \in E : e.seq \in M /\ e.seq \in Nat
  BY DEF EventSet
<1> QED BY <1>3, <1>5, <1>6

\* More events have no lower last number.
LEMMA LastGrows ==
  ASSUME NEW E \in SUBSET EventSet, NEW F \in SUBSET E, IsFiniteSet(E)
  PROVE  Last(F) <= Last(E)
<1>1. IsFiniteSet(F) /\ F \in SUBSET EventSet
  BY FS_Subset
<1>2. Last(E) \in Nat /\ Last(F) \in Nat
  BY <1>1, LastIs
<1>3. \A e \in E : e.seq <= Last(E)
  BY LastIs
<1>4. Last(F) = 0 \/ \E e \in F : e.seq = Last(F)
  BY <1>1, LastIs
<1> QED BY <1>2, <1>3, <1>4

\* Two current drafts are one.
LEMMA CurrentUnique ==
  ASSUME DbShape, EventsNumbered, NEW d \in Draft, NEW e \in Draft, IsCurrent(d), IsCurrent(e)
  PROVE  d = e
<1>1. PICK a \in EventsOf(d, "draft_created") :
        \A f \in db.events : f.kind = "draft_created" => f.seq <= a.seq
  BY DEF IsCurrent
<1>2. PICK b \in EventsOf(e, "draft_created") :
        \A f \in db.events : f.kind = "draft_created" => f.seq <= b.seq
  BY DEF IsCurrent
<1>3. a \in db.events /\ a.draft = d /\ a.kind = "draft_created" /\ a.seq \in Nat
  BY DEF EventsOf, DbShape, EventSet
<1>4. b \in db.events /\ b.draft = e /\ b.kind = "draft_created" /\ b.seq \in Nat
  BY DEF EventsOf, DbShape, EventSet
<1>5. a.seq <= b.seq /\ b.seq <= a.seq
  BY <1>1, <1>2, <1>3, <1>4
<1>6. a = b
  BY <1>3, <1>4, <1>5 DEF EventsNumbered
<1> QED BY <1>3, <1>4, <1>6

-------------------------------------------------------------------------------
(* Changes of the stored records, one lemma per kind of change *)

Stored == DbShape /\ DbInv

DbFields ==
  /\ db.drafts \in SUBSET Draft /\ db.events \in SUBSET EventSet
  /\ db.approvals \in Rows /\ db.offers \in Rows /\ db.aggregates \in Rows
  /\ db.handoffs \in SUBSET Draft /\ db.audits \in SUBSET AuditSet /\ db.case \in Case

LEMMA FieldTypes == DbShape => DbFields
BY DEF DbShape, DbFields

\* Whoever only reads or writes other records than the history sees the same of it.
LEMMA SameHistory ==
  ASSUME \A e \in db.events \cup db'.events :
           e.kind = "draft_created" => (e \in db'.events <=> e \in db.events),
         NEW d
  PROVE  /\ EventsOf(d, "draft_created")' = EventsOf(d, "draft_created")
         /\ Linked(d)' <=> Linked(d)
         /\ IsCurrent(d)' <=> IsCurrent(d)
<1>1. EventsOf(d, "draft_created")' = EventsOf(d, "draft_created")
  BY DEF EventsOf
<1>2. IsCurrent(d)' <=> IsCurrent(d)
  BY <1>1 DEF IsCurrent
<1> QED BY <1>1, <1>2 DEF Linked

LEMMA SameLine ==
  ASSUME LinearHistory,
         \A e \in db.events \cup db'.events :
           e.kind = "draft_created" => (e \in db'.events <=> e \in db.events)
  PROVE  LinearHistory'
<1> SUFFICES ASSUME NEW e \in db'.events, e.kind = "draft_created", Original[e.draft] # None
             PROVE  \E source \in EventsOf(Original[e.draft], "draft_created")' :
                      /\ source.seq < e.seq
                      /\ ~\E f \in db'.events : f.kind = "draft_created" /\ source.seq < f.seq
                                                /\ f.seq < e.seq
  BY DEF LinearHistory
<1>1. e \in db.events
  OBVIOUS
<1>2. PICK source \in EventsOf(Original[e.draft], "draft_created") :
             /\ source.seq < e.seq
             /\ ~\E f \in db.events : f.kind = "draft_created" /\ source.seq < f.seq
                                      /\ f.seq < e.seq
  BY <1>1 DEF LinearHistory
<1>3. source \in EventsOf(Original[e.draft], "draft_created")'
  BY <1>2, SameHistory
<1> QED BY <1>2, <1>3

\* The next event has a number above all others.
LEMMA EventIsLast ==
  ASSUME DbShape, NEW kind \in EventKinds, NEW d \in Draft, NEW of \in Decision \cup {None}
  PROVE  /\ Event(kind, d, of) \in EventSet
         /\ Event(kind, d, of).seq > 0
         /\ Event(kind, d, of).seq = Last(db.events) + 1 /\ Event(kind, d, of).kind = kind
         /\ Event(kind, d, of).draft = d /\ Event(kind, d, of).of = of
         /\ \A e \in db.events : e.seq < Event(kind, d, of).seq
<1>1. db.events \in SUBSET EventSet /\ IsFiniteSet(db.events)
  BY DEF DbShape
<1>2. Last(db.events) \in Nat /\ \A e \in db.events : e.seq <= Last(db.events) /\ e.seq \in Nat
  BY <1>1, LastIs DEF EventSet
<1> QED BY <1>2 DEF Event, EventSet

\* An event of a decision is appended.
LEMMA DecisionLogged ==
  ASSUME Stored, NEW kind \in {"review_decision", "approval", "result"}, NEW d \in Draft, NEW of,
         db' = [db EXCEPT !.events = @ \cup {Event(kind, d, of)}],
         of \in Decision, of # None, db.aggregates[d] = of,
         kind \in {"approval", "result"} => Approved(of) /\ IsCurrent(d)
  PROVE  Stored' /\ HasEvent(d, kind)'
<1> DEFINE n == Event(kind, d, of)
<1>1. DbFields
  BY FieldTypes DEF Stored
<1>2. /\ db'.events = db.events \cup {n}
      /\ db'.drafts = db.drafts /\ db'.approvals = db.approvals /\ db'.offers = db.offers
      /\ db'.aggregates = db.aggregates /\ db'.handoffs = db.handoffs
      /\ db'.audits = db.audits /\ db'.case = db.case
  BY DEF Stored, DbShape
<1>3. /\ n \in EventSet /\ n.kind = kind /\ n.draft = d /\ n.of = of /\ n.seq > 0
      /\ \A e \in db.events : e.seq < n.seq /\ e.seq \in Nat
  BY <1>1, EventIsLast DEF Stored, EventKinds, DbFields, EventSet
<1> HIDE DEF n
<1>4. \A e \in db.events \cup db'.events :
        e.kind = "draft_created" => (e \in db'.events <=> e \in db.events)
  BY <1>2, <1>3
<1>5. DbShape'
  <2>1. IsFiniteSet(db'.events)
    BY <1>2, FS_AddElement DEF Stored, DbShape
  <2>2. db' \in [drafts : SUBSET Draft, events : SUBSET EventSet, approvals : Rows,
                 offers : Rows, aggregates : Rows, handoffs : SUBSET Draft,
                 audits : SUBSET AuditSet, case : Case]
    BY <1>3 DEF n, Stored, DbShape
  <2> QED BY <1>2, <1>3, <2>1, <2>2 DEF Stored, DbShape
<1>6. EventsNumbered'
  BY <1>2, <1>3 DEF Stored, DbInv, EventsNumbered, EventSet
<1>7. EventsDecided'
  BY <1>2, <1>3 DEF Stored, DbInv, EventsDecided
<1>8. AuditsDecided' /\ OffersApproved' /\ CaseDecided'
  BY <1>2 DEF Stored, DbInv, AuditsDecided, OffersApproved, CaseDecided
<1>9. Projected' /\ LinkFree'
  BY <1>2, <1>4, SameHistory DEF Stored, DbInv, Projected, LinkFree
<1>10. LinearHistory'
  BY <1>4, SameLine DEF Stored, DbInv
<1>11. HandoffsDecided'
  BY <1>2, <1>3 DEF Stored, DbInv, HandoffsDecided, HasEvent, HasAudit, EventsOf
<1>12. StaleLinkRepairable'
  <2> SUFFICES ASSUME NEW c \in Draft, IsCurrent(c)', db'.case.offer \notin {None, c}
               PROVE  Superseding(c)'
    BY DEF StaleLinkRepairable
  <2>1. IsCurrent(c) /\ db.case.offer \notin {None, c}
    BY <1>2, <1>4, SameHistory
  <2>2. Superseding(c)
    BY <2>1 DEF Stored, DbInv, StaleLinkRepairable
  <2>3. kind = "review_decision"
    <3> SUFFICES ASSUME kind \in {"approval", "result"} PROVE FALSE
      OBVIOUS
    <3>1. c = d
      BY <2>1, CurrentUnique DEF Stored, DbInv
    <3> QED BY <2>1, <3>1 DEF Stored, DbInv, LinkFree
  <2>4. {e \in db'.events : e.kind \in {"approval", "result"}}
          = {e \in db.events : e.kind \in {"approval", "result"}}
    BY <1>2, <1>3, <2>3
  <2> QED BY <1>4, <2>2, <2>4, SameHistory DEF Superseding
<1>13. HasEvent(d, kind)'
  BY <1>2, <1>3 DEF HasEvent, EventsOf
<1> QED BY <1>5, <1>6, <1>7, <1>8, <1>9, <1>10, <1>11, <1>12, <1>13 DEF Stored, DbInv

\* A draft joins the history: it is current, nothing came of it yet, and a
\* continuation follows its source.
LEMMA DraftLinked ==
  ASSUME Stored, NEW d \in Draft, ~Linked(d),
         db' = [db EXCEPT !.events = @ \cup {Event("draft_created", d, None)}],
         Original[d] # None => IsCurrent(Original[d])
  PROVE  Stored' /\ \A c \in Draft : Linked(c) => Linked(c)'
<1> DEFINE n == Event("draft_created", d, None)
<1>1. DbFields
  BY FieldTypes DEF Stored
<1>2. /\ db'.events = db.events \cup {n}
      /\ db'.drafts = db.drafts /\ db'.approvals = db.approvals /\ db'.offers = db.offers
      /\ db'.aggregates = db.aggregates /\ db'.handoffs = db.handoffs
      /\ db'.audits = db.audits /\ db'.case = db.case
  BY DEF Stored, DbShape
<1>3. /\ n \in EventSet /\ n.kind = "draft_created" /\ n.draft = d /\ n.of = None
      /\ n.seq > 0 /\ n.seq \in Nat /\ n.seq = Last(db.events) + 1
      /\ \A e \in db.events : e.seq < n.seq /\ e.seq \in Nat
  BY <1>1, EventIsLast DEF Stored, EventKinds, DbFields, EventSet
<1> HIDE DEF n
<1>4. DbShape'
  <2>1. IsFiniteSet(db'.events)
    BY <1>2, FS_AddElement DEF Stored, DbShape
  <2>2. db' \in [drafts : SUBSET Draft, events : SUBSET EventSet, approvals : Rows,
                 offers : Rows, aggregates : Rows, handoffs : SUBSET Draft,
                 audits : SUBSET AuditSet, case : Case]
    BY <1>3 DEF n, Stored, DbShape
  <2> QED BY <1>2, <1>3, <2>1, <2>2 DEF Stored, DbShape
<1>5. \A c \in Draft : IsCurrent(c)' => c = d
  <2> SUFFICES ASSUME NEW c \in Draft, IsCurrent(c)' PROVE c = d
    OBVIOUS
  <2>1. PICK e \in db'.events : e.draft = c /\ e.kind = "draft_created" /\ n.seq <= e.seq
    BY <1>2, <1>3 DEF IsCurrent, EventsOf
  <2>2. e = n
    BY <1>2, <1>3, <2>1
  <2> QED BY <1>3, <2>1, <2>2
<1>6. \A c \in Draft : Linked(c) => Linked(c)'
  BY <1>2 DEF Linked, EventsOf
<1>7. EventsNumbered' /\ EventsDecided'
  BY <1>2, <1>3 DEF Stored, DbInv, EventsNumbered, EventsDecided
<1>8. AuditsDecided' /\ OffersApproved' /\ CaseDecided'
  BY <1>2 DEF Stored, DbInv, AuditsDecided, OffersApproved, CaseDecided
<1>9. Projected'
  BY <1>2, <1>6 DEF Stored, DbInv, Projected
<1>10. LinkFree'
  <2>1. db.aggregates[d] = None
    BY DEF Stored, DbInv, Projected
  <2> QED BY <1>2, <1>5, <2>1 DEF LinkFree
<1>11. HandoffsDecided'
  BY <1>2, <1>3 DEF Stored, DbInv, HandoffsDecided, HasEvent, HasAudit, EventsOf
<1>12. LinearHistory'
  <2> SUFFICES ASSUME NEW e \in db'.events, e.kind = "draft_created", Original[e.draft] # None
               PROVE  \E source \in EventsOf(Original[e.draft], "draft_created")' :
                        /\ source.seq < e.seq
                        /\ ~\E f \in db'.events : f.kind = "draft_created" /\ source.seq < f.seq
                                                  /\ f.seq < e.seq
    BY DEF LinearHistory
  <2>1. CASE e = n
    <3>1. PICK source \in EventsOf(Original[d], "draft_created") :
            \A f \in db.events : f.kind = "draft_created" => f.seq <= source.seq
      BY <1>3, <2>1 DEF IsCurrent
    <3>2. source \in db.events /\ source.seq \in Nat /\ source.seq < n.seq
      BY <1>3, <3>1 DEF EventsOf
    <3>3. source \in EventsOf(Original[e.draft], "draft_created")'
      BY <1>2, <1>3, <2>1, <3>1 DEF EventsOf
    <3>4. \A f \in db'.events : f.kind = "draft_created" => ~(source.seq < f.seq /\ f.seq < n.seq)
      BY <1>2, <1>3, <3>1, <3>2
    <3> QED BY <2>1, <3>2, <3>3, <3>4
  <2>2. CASE e # n
    <3>1. e \in db.events
      BY <1>2, <2>2
    <3>2. PICK source \in EventsOf(Original[e.draft], "draft_created") :
            /\ source.seq < e.seq
            /\ ~\E f \in db.events : f.kind = "draft_created" /\ source.seq < f.seq
                                     /\ f.seq < e.seq
      BY <3>1 DEF Stored, DbInv, LinearHistory
    <3>3. source \in EventsOf(Original[e.draft], "draft_created")'
      BY <1>2, <3>2 DEF EventsOf
    <3>4. ~(n.seq < e.seq)
      BY <1>3, <3>1
    <3> QED BY <1>2, <3>2, <3>3, <3>4
  <2> QED BY <2>1, <2>2
<1>13. StaleLinkRepairable'
  <2>1. Superseding(d)'
    <3>1. EventsOf(d, "draft_created")' = {n}
      BY <1>2, <1>3 DEF EventsOf, Linked
    <3>2. Last({n}) = n.seq
      <4>1. {n} \in SUBSET EventSet /\ IsFiniteSet({n})
        BY <1>3, FS_Singleton
      <4>2. Last({n}) \in Nat /\ n.seq <= Last({n}) /\ (Last({n}) = 0 \/ n.seq = Last({n}))
        BY <4>1, LastIs
      <4> QED BY <1>3, <4>2
    <3> DEFINE F == {e \in db.events : e.kind \in {"approval", "result"}}
    <3>3. F = {e \in db'.events : e.kind \in {"approval", "result"}}
      BY <1>2, <1>3
    <3>4. Last(F) <= Last(db.events) /\ Last(F) \in Nat /\ Last(db.events) \in Nat
      <4>1. F \in SUBSET db.events /\ db.events \in SUBSET EventSet /\ IsFiniteSet(db.events)
        BY DEF Stored, DbShape
      <4> HIDE DEF F
      <4>2. IsFiniteSet(F)
        BY <4>1, FS_Subset
      <4> QED BY <4>1, <4>2, LastGrows, LastIs
    <3>5. Last(F) < Last({n})
      <4> HIDE DEF F
      <4> QED BY <1>3, <3>2, <3>4
    <3> QED BY <3>1, <3>3, <3>5 DEF Superseding
  <2> QED BY <1>5, <2>1 DEF StaleLinkRepairable
<1> QED BY <1>4, <1>6, <1>7, <1>8, <1>9, <1>10, <1>11, <1>12, <1>13 DEF Stored, DbInv

\* The results of a draft are taken back.
LEMMA ResultsRemoved ==
  ASSUME Stored, NEW d \in Draft, db' = [db EXCEPT !.events = @ \ EventsOf(d, "result")]
  PROVE  Stored' /\ ~HasEvent(d, "result")'
<1>1. /\ db'.events = db.events \ EventsOf(d, "result")
      /\ db'.drafts = db.drafts /\ db'.approvals = db.approvals /\ db'.offers = db.offers
      /\ db'.aggregates = db.aggregates /\ db'.handoffs = db.handoffs
      /\ db'.audits = db.audits /\ db'.case = db.case
  BY DEF Stored, DbShape
<1>2. DbShape'
  <2>1. IsFiniteSet(db'.events)
    BY <1>1, FS_Difference DEF Stored, DbShape
  <2>2. db' \in [drafts : SUBSET Draft, events : SUBSET EventSet, approvals : Rows,
                 offers : Rows, aggregates : Rows, handoffs : SUBSET Draft,
                 audits : SUBSET AuditSet, case : Case]
    BY DEF Stored, DbShape
  <2> QED BY <1>1, <2>1, <2>2 DEF Stored, DbShape
<1>3. \A e \in db.events \cup db'.events :
        e.kind = "draft_created" => (e \in db'.events <=> e \in db.events)
  BY <1>1 DEF EventsOf
<1>4. EventsNumbered' /\ EventsDecided' /\ AuditsDecided' /\ OffersApproved' /\ CaseDecided'
  BY <1>1 DEF Stored, DbInv, EventsNumbered, EventsDecided, AuditsDecided, OffersApproved, CaseDecided
<1>5. Projected' /\ LinkFree'
  BY <1>1, <1>3, SameHistory DEF Stored, DbInv, Projected, LinkFree
<1>6. LinearHistory'
  BY <1>3, SameLine DEF Stored, DbInv
<1>7. HandoffsDecided'
  BY <1>1 DEF Stored, DbInv, HandoffsDecided, HasEvent, HasAudit, EventsOf
<1>8. StaleLinkRepairable'
  <2> SUFFICES ASSUME NEW c \in Draft, IsCurrent(c)', db'.case.offer \notin {None, c}
               PROVE  Superseding(c)'
    BY DEF StaleLinkRepairable
  <2> DEFINE E == {e \in db.events : e.kind \in {"approval", "result"}}
             F == {e \in db'.events : e.kind \in {"approval", "result"}}
             G == EventsOf(c, "draft_created")
  <2>1. IsCurrent(c) /\ Superseding(c) /\ EventsOf(c, "draft_created")' = G
    BY <1>1, <1>3, SameHistory DEF Stored, DbInv, StaleLinkRepairable
  <2>2. /\ E \in SUBSET EventSet /\ F \in SUBSET E /\ IsFiniteSet(E)
        /\ G \in SUBSET EventSet /\ IsFiniteSet(G)
    <3>1. db.events \in SUBSET EventSet /\ IsFiniteSet(db.events)
      BY DEF Stored, DbShape
    <3> QED BY <1>1, <3>1, FS_Subset DEF EventsOf
  <2>3. Last(F) <= Last(E) /\ Last(E) \in Nat /\ Last(F) \in Nat /\ Last(G) \in Nat
    <3> HIDE DEF E, F, G
    <3>1. IsFiniteSet(F)
      BY <2>2, FS_Subset
    <3> QED BY <2>2, <3>1, LastGrows, LastIs
  <2>4. Last(E) < Last(G)
    BY <2>1 DEF Superseding
  <2>5. Last(F) < Last(G)
    <3> HIDE DEF E, F, G
    <3> QED BY <2>3, <2>4
  <2> QED BY <2>1, <2>5 DEF Superseding
<1>9. ~HasEvent(d, "result")'
  BY <1>1 DEF HasEvent, EventsOf
<1> QED BY <1>2, <1>4, <1>5, <1>6, <1>7, <1>8, <1>9 DEF Stored, DbInv

\* All records but one are as they were; the history, and what follows from it, too.
Unless(field) ==
  /\ field # "drafts" => db'.drafts = db.drafts
  /\ field # "rows" => db'.approvals = db.approvals /\ db'.offers = db.offers
  /\ field # "aggregates" => db'.aggregates = db.aggregates
  /\ field # "handoffs" => db'.handoffs = db.handoffs
  /\ field # "audits" => db'.audits = db.audits
  /\ field # "case" => db'.case = db.case
  /\ db'.events = db.events

LEMMA HistoryKept ==
  ASSUME Stored, db'.events = db.events
  PROVE  /\ EventsNumbered' /\ LinearHistory'
         /\ \A d : (Linked(d)' <=> Linked(d)) /\ (IsCurrent(d)' <=> IsCurrent(d))
         /\ \A d : Superseding(d)' <=> Superseding(d)
         /\ \A d, kind : EventsOf(d, kind)' = EventsOf(d, kind) /\ (HasEvent(d, kind)' <=> HasEvent(d, kind))
<1>1. EventsNumbered'
  BY DEF Stored, DbInv, EventsNumbered
<1>2. LinearHistory'
  BY SameLine DEF Stored, DbInv
<1>3. \A d : (Linked(d)' <=> Linked(d)) /\ (IsCurrent(d)' <=> IsCurrent(d))
  BY SameHistory
<1>4. \A d, kind : EventsOf(d, kind)' = EventsOf(d, kind)
  BY DEF EventsOf
<1>5. \A d : Superseding(d)' <=> Superseding(d)
  BY <1>4 DEF Superseding
<1> QED BY <1>1, <1>2, <1>3, <1>4, <1>5 DEF HasEvent

LEMMA DraftSaved ==
  ASSUME Stored, NEW d \in Draft, db' = [db EXCEPT !.drafts = @ \cup {d}]
  PROVE  Stored' /\ Unless("drafts") /\ db'.drafts = db.drafts \cup {d}
<1>1. Unless("drafts") /\ db'.drafts = db.drafts \cup {d}
  BY DEF Stored, DbShape, Unless
<1>2. DbShape'
  BY DEF Stored, DbShape
<1>3. /\ EventsDecided' /\ AuditsDecided' /\ OffersApproved' /\ Projected' /\ CaseDecided'
      /\ LinkFree' /\ StaleLinkRepairable' /\ HandoffsDecided'
  BY <1>1, HistoryKept
     DEF Unless, Stored, DbInv, EventsDecided, AuditsDecided, OffersApproved, Projected, CaseDecided,
         LinkFree, StaleLinkRepairable, HandoffsDecided, HasAudit
<1> QED BY <1>1, <1>2, <1>3, HistoryKept DEF Unless, Stored, DbInv

\* The case is linked to the current draft, which is approved, or its link goes.
LEMMA CaseWritten ==
  ASSUME Stored, NEW c \in Case, db' = [db EXCEPT !.case = c],
         c.handoff # None => c.offer = c.handoff,
         \/ c.offer \in {None, db.case.offer}
         \/ IsCurrent(c.offer) /\ db.aggregates[c.offer] # None /\ Approved(db.aggregates[c.offer])
  PROVE  Stored' /\ Unless("case") /\ db'.case = c
<1>1. Unless("case") /\ db'.case = c
  BY DEF Stored, DbShape, Unless
<1>2. DbShape'
  BY DEF Stored, DbShape
<1>3. EventsDecided' /\ AuditsDecided' /\ OffersApproved' /\ Projected' /\ HandoffsDecided'
  BY <1>1, HistoryKept
     DEF Unless, Stored, DbInv, EventsDecided, AuditsDecided, OffersApproved, Projected,
         HandoffsDecided, HasAudit
<1>4. CaseDecided'
  BY <1>1 DEF Unless, Stored, DbInv, CaseDecided
<1>5. \A d \in Draft : IsCurrent(d) /\ c.offer \notin {None, d} => c.offer = db.case.offer
  BY CurrentUnique DEF Stored, DbInv, Case
<1>6. LinkFree' /\ StaleLinkRepairable'
  BY <1>1, <1>5, HistoryKept DEF Unless, Stored, DbInv, LinkFree, StaleLinkRepairable
<1> QED BY <1>1, <1>2, <1>3, <1>4, <1>6, HistoryKept DEF Unless, Stored, DbInv

\* Rows are inserted where there were none, an offer for its approval, and nothing
\* changes for a draft that is decided.
LEMMA RowsWritten ==
  ASSUME Stored, Unless("rows"), DbShape',
         \A d \in Draft : /\ db.approvals[d] # None => db'.approvals[d] = db.approvals[d]
                          /\ \/ db'.offers[d] = db.offers[d]
                             \/ /\ db.offers[d] = None /\ db.aggregates[d] = None
                                /\ db'.offers[d] = db'.approvals[d] /\ Approved(db'.offers[d])
  PROVE  Stored'
<1>1. EventsDecided' /\ AuditsDecided' /\ CaseDecided' /\ HandoffsDecided' /\ LinkFree'
      /\ StaleLinkRepairable'
  BY HistoryKept
     DEF Unless, Stored, DbInv, EventsDecided, AuditsDecided, CaseDecided, LinkFree,
         StaleLinkRepairable, HandoffsDecided, HasAudit
<1>2. OffersApproved'
  BY DEF Unless, Stored, DbInv, OffersApproved
<1>3. Projected'
  BY HistoryKept DEF Unless, Stored, DbInv, Projected
<1> QED BY <1>1, <1>2, <1>3, HistoryKept DEF Unless, Stored, DbInv

\* The decision itself: there is room for it, and its rows are there.
LEMMA AggregateClaimed ==
  ASSUME Stored, NEW d \in Draft, NEW of \in Decision, of # None,
         db' = [db EXCEPT !.aggregates[d] = of], db.aggregates[d] = None,
         Linked(d), Preflight(d, of), db.approvals[d] = of,
         db.offers[d] = IF Approved(of) THEN of ELSE None
  PROVE  Stored' /\ Unless("aggregates") /\ db'.aggregates = [db.aggregates EXCEPT ![d] = of]
<1>1. Unless("aggregates") /\ db'.aggregates = [db.aggregates EXCEPT ![d] = of]
  BY DEF Stored, DbShape, Unless
<1>2. DbShape'
  BY DEF Stored, DbShape, Rows
<1>3. \A c \in Draft : db'.aggregates[c] = IF c = d THEN of ELSE db.aggregates[c]
  BY <1>1 DEF Stored, DbShape, Rows
<1>4. /\ \A e \in db.events : e.draft \in Draft
      /\ \A a \in db.audits : a.draft \in Draft /\ a.of \in Decision \cup {None}
      /\ db.case.offer \in Draft \cup {None}
  BY DEF Stored, DbShape, EventSet, AuditSet, Case
<1>5. EventsDecided'
  BY <1>1, <1>3, <1>4 DEF Unless, Stored, DbInv, EventsDecided
<1>6. AuditsDecided'
  <2>1. \A a \in db.audits : a.draft # d
    BY DEF Stored, DbInv, AuditsDecided
  <2> QED BY <1>1, <1>3, <1>4, <2>1 DEF Unless, Stored, DbInv, AuditsDecided
<1>7. OffersApproved' /\ CaseDecided'
  BY <1>1, <1>3, <1>4 DEF Unless, Stored, DbInv, OffersApproved, CaseDecided
<1>8. Projected'
  BY <1>1, <1>3, HistoryKept DEF Unless, Stored, DbInv, Projected
<1>9. LinkFree'
  BY <1>1, <1>3, HistoryKept DEF Unless, Stored, DbInv, LinkFree, Preflight
<1>10. StaleLinkRepairable'
  BY <1>1, HistoryKept DEF Unless, Stored, DbInv, StaleLinkRepairable
<1>11. HandoffsDecided'
  BY <1>1, <1>3, HistoryKept DEF Unless, Stored, DbInv, HandoffsDecided, HasAudit
<1> QED BY <1>1, <1>2, <1>5, <1>6, <1>7, <1>8, <1>9, <1>10, <1>11, HistoryKept DEF Unless, Stored, DbInv

\* The evidence of a hand-over is added in order, and removed in the opposite order.
LEMMA AuditAdded ==
  ASSUME Stored, NEW kind \in {"approved", "handoff"}, NEW d \in Draft, NEW of \in Decision,
         db' = [db EXCEPT !.audits = @ \cup {Audit(kind, d, of)}],
         of # None, db.aggregates[d] = of, Approved(of)
  PROVE  /\ Stored' /\ Unless("audits") /\ HasAudit(d, kind)'
         /\ \A k \in {"approved", "handoff"} : HasAudit(d, k) => HasAudit(d, k)'
<1> DEFINE n == Audit(kind, d, of)
<1>1. Unless("audits") /\ db'.audits = db.audits \cup {n}
  BY DEF Stored, DbShape, Unless
<1>2. n \in AuditSet /\ n.kind = kind /\ n.draft = d /\ n.of = of
  BY DEF Audit, AuditSet
<1>3. DbShape'
  BY <1>2 DEF Stored, DbShape
<1> HIDE DEF n
<1>4. EventsDecided' /\ OffersApproved' /\ Projected' /\ CaseDecided' /\ LinkFree' /\ StaleLinkRepairable'
  BY <1>1, HistoryKept
     DEF Unless, Stored, DbInv, EventsDecided, OffersApproved, Projected, CaseDecided,
         LinkFree, StaleLinkRepairable
<1>5. AuditsDecided'
  BY <1>1, <1>2 DEF Unless, Stored, DbInv, AuditsDecided
<1>6. /\ HasAudit(d, kind)'
      /\ \A c \in Draft, k \in {"approved", "handoff"} : HasAudit(c, k) => HasAudit(c, k)'
  BY <1>1, <1>2 DEF HasAudit
<1>7. HandoffsDecided'
  BY <1>1, <1>6, HistoryKept DEF Unless, Stored, DbInv, HandoffsDecided
<1> QED BY <1>1, <1>3, <1>4, <1>5, <1>6, <1>7, HistoryKept DEF Unless, Stored, DbInv

LEMMA AuditRemoved ==
  ASSUME Stored, NEW kind \in {"approved", "handoff"}, NEW d \in Draft, NEW of,
         db' = [db EXCEPT !.audits = @ \ {Audit(kind, d, of)}]
  PROVE  Stored' /\ Unless("audits")
<1>1. Unless("audits") /\ db'.audits = db.audits \ {Audit(kind, d, of)}
  BY DEF Stored, DbShape, Unless
<1>2. Audit(kind, d, of).draft = d
  BY DEF Audit
<1>3. DbShape'
  BY DEF Stored, DbShape
<1>4. EventsDecided' /\ OffersApproved' /\ Projected' /\ CaseDecided' /\ LinkFree' /\ StaleLinkRepairable'
  BY <1>1, HistoryKept
     DEF Unless, Stored, DbInv, EventsDecided, OffersApproved, Projected, CaseDecided,
         LinkFree, StaleLinkRepairable
<1>5. AuditsDecided'
  BY <1>1 DEF Unless, Stored, DbInv, AuditsDecided
<1>6. \A c \in Draft, k \in {"approved", "handoff"} : c # d /\ HasAudit(c, k) => HasAudit(c, k)'
  BY <1>1, <1>2 DEF HasAudit
<1>7. HandoffsDecided'
  BY <1>1, <1>6, HistoryKept DEF Unless, Stored, DbInv, HandoffsDecided
<1> QED BY <1>1, <1>3, <1>4, <1>5, <1>7, HistoryKept DEF Unless, Stored, DbInv

LEMMA HandoffAdded ==
  ASSUME Stored, NEW d \in Draft, db' = [db EXCEPT !.handoffs = @ \cup {d}],
         db.aggregates[d] # None, Approved(db.aggregates[d])
  PROVE  Stored' /\ Unless("handoffs") /\ db'.handoffs = db.handoffs \cup {d}
<1>1. Unless("handoffs") /\ db'.handoffs = db.handoffs \cup {d}
  BY DEF Stored, DbShape, Unless
<1>2. DbShape'
  BY DEF Stored, DbShape
<1>3. /\ EventsDecided' /\ AuditsDecided' /\ OffersApproved' /\ Projected' /\ CaseDecided'
      /\ LinkFree' /\ StaleLinkRepairable'
  BY <1>1, HistoryKept
     DEF Unless, Stored, DbInv, EventsDecided, AuditsDecided, OffersApproved, Projected, CaseDecided,
         LinkFree, StaleLinkRepairable
<1>4. HandoffsDecided'
  BY <1>1, HistoryKept DEF Unless, Stored, DbInv, HandoffsDecided, HasAudit
<1> QED BY <1>1, <1>2, <1>3, <1>4, HistoryKept DEF Unless, Stored, DbInv

LEMMA HandoffRemoved ==
  ASSUME Stored, NEW d \in Draft, db' = [db EXCEPT !.handoffs = @ \ {d}]
  PROVE  Stored' /\ Unless("handoffs") /\ db'.handoffs = db.handoffs \ {d}
<1>1. Unless("handoffs") /\ db'.handoffs = db.handoffs \ {d}
  BY DEF Stored, DbShape, Unless
<1>2. DbShape'
  BY DEF Stored, DbShape
<1>3. /\ EventsDecided' /\ AuditsDecided' /\ OffersApproved' /\ Projected' /\ CaseDecided'
      /\ LinkFree' /\ StaleLinkRepairable'
  BY <1>1, HistoryKept
     DEF Unless, Stored, DbInv, EventsDecided, AuditsDecided, OffersApproved, Projected, CaseDecided,
         LinkFree, StaleLinkRepairable
<1>4. HandoffsDecided'
  BY <1>1, HistoryKept DEF Unless, Stored, DbInv, HandoffsDecided, HasAudit
<1> QED BY <1>1, <1>2, <1>3, <1>4, HistoryKept DEF Unless, Stored, DbInv

-------------------------------------------------------------------------------
(* Steps of a request, and what they leave to the others *)

\* Draft events and aggregates are never removed.
DbGrows ==
  \A d \in Draft : /\ Linked(d) => Linked(d)'
                   /\ db.aggregates[d] # None => db'.aggregates[d] = db.aggregates[d]

LEMMA WaitKept ==
  ASSUME NEW v \in Worker, NEW p \in {"idle", "wait"}, KnownAt(v, p), DbGrows, task'[v] = task[v]
  PROVE  KnownAt(v, p)'
<1>1. KindAt(v, p)' /\ AdmittedAt(v, p)' /\ CurrentAt(v, p)' /\ StagedAt(v, p)'
      /\ PublishedAt(v, p)' /\ HandedAt(v, p)'
  BY DEF KindAt, AdmittedAt, CurrentAt, StagedAt, PublishedAt, HandedAt, SavePoints,
         ResolvePoints, StagePoints, ProjectPoints, HandoffPoints, SharedPoints
<1>2. JobAt(v, p)'
  <2>1. task[v].job \in Job => D(v) \in Draft
    BY DEF D, Job
  <2> QED BY <2>1 DEF KnownAt, JobAt, DbGrows, Kind, D, Cand
<1>3. MadeAt(v, p)'
  <2>1. task[v].made = <<>>
    BY DEF KnownAt, MadeAt
  <2> QED BY <2>1 DEF MadeAt
<1> QED BY <1>1, <1>2, <1>3 DEF KnownAt

SameTask(v) ==
  /\ task'[v].job = task[v].job /\ task'[v].cand = task[v].cand
  /\ task'[v].seen = task[v].seen /\ task'[v].made = task[v].made

LEMMA SameViews ==
  ASSUME db' = db
  PROVE  /\ \A d, k : (HasEvent(d, k)' <=> HasEvent(d, k)) /\ (HasAudit(d, k)' <=> HasAudit(d, k))
         /\ \A d : (Linked(d)' <=> Linked(d)) /\ (IsCurrent(d)' <=> IsCurrent(d))
         /\ \A d, c : Preflight(d, c)' <=> Preflight(d, c)
<1>1. \A d, k : (HasEvent(d, k)' <=> HasEvent(d, k)) /\ (HasAudit(d, k)' <=> HasAudit(d, k))
  BY DEF HasEvent, HasAudit, EventsOf
<1>2. \A d : (Linked(d)' <=> Linked(d)) /\ (IsCurrent(d)' <=> IsCurrent(d))
  BY DEF Linked, IsCurrent, EventsOf
<1>3. \A d, c : Preflight(d, c)' <=> Preflight(d, c)
  BY DEF Preflight, EventsOf
<1> QED BY <1>1, <1>2, <1>3

LEMMA SameKnown ==
  ASSUME NEW v \in Worker, NEW p, KnownAt(v, p), db' = db, SameTask(v)
  PROVE  KnownAt(v, p)'
<1>1. D(v)' = D(v) /\ Cand(v)' = Cand(v) /\ Kind(v)' = Kind(v)
  BY DEF SameTask, D, Cand, Kind
<1>2. \A d, k : (HasEvent(d, k)' <=> HasEvent(d, k)) /\ (HasAudit(d, k)' <=> HasAudit(d, k))
  BY SameViews
<1>3. \A d : (Linked(d)' <=> Linked(d)) /\ (IsCurrent(d)' <=> IsCurrent(d))
  BY SameViews
<1>4. \A d, c : Preflight(d, c)' <=> Preflight(d, c)
  BY SameViews
<1>5. KindAt(v, p)' /\ JobAt(v, p)' /\ AdmittedAt(v, p)' /\ CurrentAt(v, p)'
  BY <1>1, <1>3 DEF KnownAt, SameTask, KindAt, JobAt, AdmittedAt, CurrentAt
<1>6. StagedAt(v, p)' /\ PublishedAt(v, p)' /\ HandedAt(v, p)'
  BY <1>1, <1>2, <1>3, <1>4 DEF KnownAt, SameTask, StagedAt, PublishedAt, HandedAt
<1>7. MadeAt(v, p)'
  BY <1>1, <1>2 DEF KnownAt, SameTask, MadeAt
<1> QED BY <1>5, <1>6, <1>7 DEF KnownAt

LEMMA SameDone ==
  ASSUME NEW v \in Worker, Done(v), db' = db, SameTask(v) PROVE Done(v)'
<1>1. D(v)' = D(v) /\ Cand(v)' = Cand(v) /\ Kind(v)' = Kind(v)
  BY DEF SameTask, D, Cand, Kind
<1> QED BY <1>1, SameViews DEF Done, SameTask, CompletedCase, Evidenced

\* One request goes to point p; the others stay.
Moves(w, p) ==
  /\ TaskShape' /\ task'[w].pc = p
  /\ \A v \in Worker \ {w} : task'[v] = task[v]

\* A step of one request keeps the invariant if it keeps the stored records in
\* order, knows what it needs at its next point, and writes under the lock only.
LEMMA Advance ==
  ASSUME IInv, NEW w \in Worker, NEW p, Moves(w, p), Stored', LockHeld',
         db' = db \/ (lock = w /\ DbGrows),
         KnownAt(w, p)',
         p = "leave" /\ task'[w].reply = "ok" => Done(w)'
  PROVE  IInv'
<1>1. ASSUME NEW v \in Worker, v # w PROVE KnownAt(v, task[v].pc)'
  <2>1. task'[v] = task[v] /\ KnownAt(v, task[v].pc)
    BY <1>1 DEF Moves, IInv, Known
  <2>2. CASE db' = db
    <3>1. SameTask(v)
      BY <2>1 DEF SameTask
    <3>2. \A q : KnownAt(v, q) => KnownAt(v, q)'
      BY <2>2, <3>1, SameKnown
    <3>3. task[v].pc = task'[v].pc
      BY <2>1
    <3> QED BY <2>1, <3>2, <3>3
  <2>3. CASE lock = w /\ DbGrows
    <3>1. task[v].pc \in {"idle", "wait"}
      BY <1>1, <2>3 DEF IInv, LockHeld
    <3>2. \A q \in {"idle", "wait"} : KnownAt(v, q) => KnownAt(v, q)'
      BY <2>1, <2>3, WaitKept
    <3>3. task[v].pc = task'[v].pc
      BY <2>1
    <3> QED BY <2>1, <3>1, <3>2, <3>3
  <2> QED BY <2>2, <2>3
<1>2. KnownAt(w, task[w].pc)'
  BY DEF Moves
<1>3. Known'
  BY <1>1, <1>2 DEF Known
<1>4. ASSUME NEW v \in Worker, v # w, At(v, "leave")', task'[v].reply = "ok" PROVE Done(v)'
  <2>1. task'[v] = task[v] /\ At(v, "leave") /\ Done(v)
    BY <1>4 DEF Moves, IInv, Kept, At
  <2>2. lock # w
    BY <1>4, <2>1 DEF IInv, LockHeld, At
  <2> QED BY <2>1, <2>2, SameDone DEF SameTask
<1>5. Kept'
  BY <1>4 DEF Kept, At, Moves
<1> QED BY <1>3, <1>5 DEF IInv, Stored, Moves

\* One request's task is replaced; a task whose point and one more field change.
LEMMA TaskReplaced ==
  ASSUME TaskShape, NEW w \in Worker, NEW t, t \in TaskSet, task' = [task EXCEPT ![w] = t]
  PROVE  Moves(w, t.pc) /\ task'[w] = t
BY DEF TaskShape, Moves

LEMMA NotesWhat ==
  ASSUME TaskShape, NEW w \in Worker, NEW p \in Points, NEW s \in Decision \cup {None} \cup Case,
         task' = [task EXCEPT ![w].pc = p, ![w].seen = s]
  PROVE  /\ Moves(w, p) /\ task'[w].seen = s /\ task'[w].job = task[w].job
         /\ task'[w].cand = task[w].cand /\ task'[w].made = task[w].made
<1> DEFINE u == [task[w] EXCEPT !.pc = p]
<1> PICK t : t = [u EXCEPT !.seen = s]
  OBVIOUS
<1>1. task[w] \in TaskSet /\ task' = [task EXCEPT ![w] = t]
  BY DEF TaskShape
<1>2. u \in TaskSet /\ u.pc = p /\ u.job = task[w].job /\ u.cand = task[w].cand
      /\ u.made = task[w].made
  BY <1>1 DEF TaskSet
<1> HIDE DEF u
<1>3. t \in TaskSet /\ t.pc = p /\ t.seen = s /\ t.job = u.job /\ t.cand = u.cand /\ t.made = u.made
  BY <1>2 DEF TaskSet
<1>4. Moves(w, t.pc) /\ task'[w] = t
  BY <1>1, <1>3, TaskReplaced
<1> QED BY <1>2, <1>3, <1>4

LEMMA Reroutes ==
  ASSUME TaskShape, NEW w \in Worker, NEW p \in Points, NEW r \in {"fresh", "legacy", "late"},
         task' = [task EXCEPT ![w].pc = p, ![w].route = r]
  PROVE  Moves(w, p) /\ SameTask(w)
<1> DEFINE u == [task[w] EXCEPT !.pc = p]
<1> PICK t : t = [u EXCEPT !.route = r]
  OBVIOUS
<1>1. task[w] \in TaskSet /\ task' = [task EXCEPT ![w] = t]
  BY DEF TaskShape
<1>2. u \in TaskSet /\ u.pc = p /\ u.job = task[w].job /\ u.cand = task[w].cand
      /\ u.seen = task[w].seen /\ u.made = task[w].made
  BY <1>1 DEF TaskSet
<1> HIDE DEF u
<1>3. t \in TaskSet /\ t.pc = p /\ t.seen = u.seen /\ t.job = u.job /\ t.cand = u.cand
      /\ t.made = u.made
  BY <1>2 DEF TaskSet
<1>4. Moves(w, t.pc) /\ task'[w] = t
  BY <1>1, <1>3, TaskReplaced
<1> QED BY <1>2, <1>3, <1>4 DEF SameTask

LEMMA Makes ==
  ASSUME TaskShape, NEW w \in Worker, NEW p \in Points, NEW m \in Things,
         task' = [task EXCEPT ![w].pc = p, ![w].made = m]
  PROVE  /\ Moves(w, p) /\ task'[w].made = m /\ task'[w].job = task[w].job
         /\ task'[w].cand = task[w].cand /\ task'[w].seen = task[w].seen
<1> DEFINE u == [task[w] EXCEPT !.pc = p]
<1> PICK t : t = [u EXCEPT !.made = m]
  OBVIOUS
<1>1. task[w] \in TaskSet /\ task' = [task EXCEPT ![w] = t]
  BY DEF TaskShape
<1>2. u \in TaskSet /\ u.pc = p /\ u.job = task[w].job /\ u.cand = task[w].cand
      /\ u.seen = task[w].seen
  BY <1>1 DEF TaskSet
<1> HIDE DEF u
<1>3. t \in TaskSet /\ t.pc = p /\ t.made = m /\ t.job = u.job /\ t.cand = u.cand
      /\ t.seen = u.seen
  BY <1>2 DEF TaskSet
<1>4. Moves(w, t.pc) /\ task'[w] = t
  BY <1>1, <1>3, TaskReplaced
<1> QED BY <1>2, <1>3, <1>4

\* What is known of a request that has begun, and under the lock.
LEMMA Inside ==
  ASSUME IInv, NEW w \in Worker, NEW x, At(w, x), x # "idle"
  PROVE  /\ KnownAt(w, x) /\ task[w].job \in Job /\ D(w) \in Draft
         /\ Cand(w) \in Decision \cup {None} /\ Kind(w) \in {"decide", "save", "handoff", "get"}
         /\ x # "wait" => lock = w
         /\ Kind(w) = "decide" => task[w].job.decision \in Decision
         /\ Stored
<1>1. KnownAt(w, x)
  BY DEF IInv, Known, At
<1>2. task[w].job \in Job
  BY <1>1 DEF KnownAt, JobAt
<1>3. D(w) \in Draft /\ Kind(w) \in {"decide", "save", "handoff", "get"}
      /\ (Kind(w) = "decide" => task[w].job.decision \in Decision)
  BY <1>2 DEF D, Kind, Job
<1>4. Cand(w) \in Decision \cup {None}
  BY DEF IInv, TaskShape, TaskSet, Cand
<1>5. x # "wait" => lock = w
  BY DEF IInv, LockHeld, At
<1> QED BY <1>1, <1>2, <1>3, <1>4, <1>5 DEF IInv, Stored

\* What a step of a request changes of its task.
LEMMA Goes ==
  ASSUME TaskShape, NEW w \in Worker, NEW p \in Points, Go(w, p)
  PROVE  Moves(w, p) /\ SameTask(w)
BY DEF Go, Moves, SameTask, TaskShape, TaskSet

LEMMA Answers ==
  ASSUME TaskShape, NEW w \in Worker, NEW r \in {"ok", "no"}, Answer(w, r)
  PROVE  Moves(w, "leave") /\ SameTask(w) /\ task'[w].reply = r
<1>1. task' = [task EXCEPT ![w] = [[task[w] EXCEPT !.pc = "leave"] EXCEPT !.reply = r]]
  BY DEF Answer, TaskShape
<1> DEFINE t == [[task[w] EXCEPT !.pc = "leave"] EXCEPT !.reply = r]
<1>2. /\ t \in TaskSet
      /\ t.pc = "leave" /\ t.reply = r /\ t.job = task[w].job /\ t.cand = task[w].cand
      /\ t.seen = task[w].seen /\ t.made = task[w].made
  <2> DEFINE u == [task[w] EXCEPT !.pc = "leave"]
  <2>1. task[w] \in TaskSet
    BY DEF TaskShape
  <2>2. u \in TaskSet /\ u.pc = "leave" /\ u.job = task[w].job /\ u.cand = task[w].cand
        /\ u.seen = task[w].seen /\ u.made = task[w].made
    BY <2>1 DEF TaskSet, Points
  <2>3. t = [u EXCEPT !.reply = r]
    OBVIOUS
  <2> HIDE DEF t, u
  <2> QED BY <2>2, <2>3 DEF TaskSet
<1>4. task' = [task EXCEPT ![w] = t]
  BY <1>1
<1> HIDE DEF t
<1>3. TaskShape' /\ task'[w] = t /\ (\A v \in Worker \ {w} : task'[v] = task[v])
  BY <1>2, <1>4 DEF TaskShape
<1> QED BY <1>2, <1>3 DEF Moves, SameTask

LEMMA Idles ==
  ASSUME TaskShape, NEW w \in Worker, task' = [task EXCEPT ![w] = Idle]
  PROVE  Moves(w, "idle") /\ task'[w] = Idle
<1>1. Idle \in TaskSet
  <2>1. <<>> \in Things
    BY DEF Things
  <2> QED BY <2>1 DEF Idle, TaskSet, Points
<1>2. task'[w] = Idle /\ Idle.pc = "idle"
  BY DEF TaskShape, Idle
<1> HIDE DEF Idle
<1> QED BY <1>1, <1>2 DEF Moves, TaskShape

LEMMA SameRequest ==
  ASSUME NEW w \in Worker, SameTask(w)
  PROVE  /\ D(w)' = D(w) /\ Cand(w)' = Cand(w) /\ Kind(w)' = Kind(w)
         /\ task'[w].job = task[w].job /\ task'[w].seen = task[w].seen
         /\ task'[w].made = task[w].made
BY DEF SameTask, D, Cand, Kind

\* The one in the critical section stays there.
LEMMA LockKept ==
  ASSUME IInv, NEW w \in Worker, lock = w, NEW p, Moves(w, p), p \notin {"idle", "wait"}, lock' = lock
  PROVE  LockHeld'
BY DEF IInv, LockHeld, Moves

\* One that waits or has nothing to do goes on doing so.
LEMMA LockOther ==
  ASSUME IInv, NEW w \in Worker, lock # w, NEW p \in {"idle", "wait"}, Moves(w, p), lock' = lock
  PROVE  LockHeld'
BY DEF IInv, LockHeld, Moves

LEMMA LockFreed ==
  ASSUME IInv, NEW w \in Worker, lock = w, Moves(w, "idle"), lock' = None
  PROVE  LockHeld'
BY OfferAssumption DEF IInv, LockHeld, Moves

\* Whoever gives up, or has answered, relies on no more than what it has made.
LEMMA LeaveKnown ==
  ASSUME NEW w \in Worker, NEW x, KnownAt(w, x), x # "idle", NEW p \in {"leave", "undo"}
  PROVE  KnownAt(w, p)
<1>1. KindAt(w, p) /\ AdmittedAt(w, p) /\ CurrentAt(w, p) /\ StagedAt(w, p)
      /\ PublishedAt(w, p) /\ HandedAt(w, p)
  BY DEF KindAt, AdmittedAt, CurrentAt, StagedAt, PublishedAt, HandedAt, SavePoints,
         ResolvePoints, StagePoints, ProjectPoints, HandoffPoints, SharedPoints
<1>2. JobAt(w, p)
  BY DEF KnownAt, JobAt
<1>3. MadeAt(w, p)
  BY DEF KnownAt, MadeAt
<1> QED BY <1>1, <1>2, <1>3 DEF KnownAt

LEMMA IdleKnown ==
  ASSUME NEW w \in Worker, task[w].made = <<>>
  PROVE  KnownAt(w, "idle")
BY DEF KnownAt, JobAt, MadeAt, KindAt, AdmittedAt, CurrentAt, StagedAt, PublishedAt, HandedAt,
       SavePoints, ResolvePoints, StagePoints, ProjectPoints, HandoffPoints, SharedPoints

\* A step under the lock that reads, and one that writes.
LEMMA Reads ==
  ASSUME IInv, NEW w \in Worker, lock = w, lock' = lock, db' = db,
         NEW p, Moves(w, p), p \notin {"idle", "wait"}, SameTask(w), KnownAt(w, p),
         p = "leave" /\ task'[w].reply = "ok" => Done(w)
  PROVE  IInv'
<1>1. LockHeld'
  BY LockKept
<1>2. KnownAt(w, p)'
  BY SameKnown
<1>3. p = "leave" /\ task'[w].reply = "ok" => Done(w)'
  BY SameDone
<1>4. Stored'
  <2>1. db'.events = db.events /\ Unless("rows")
    BY DEF Unless
  <2>2. DbShape'
    BY DEF IInv, DbShape
  <2> QED BY <2>1, <2>2, RowsWritten DEF IInv, Stored
<1> QED BY <1>1, <1>2, <1>3, <1>4, Advance

LEMMA GoesOn ==
  ASSUME IInv, NEW w \in Worker, lock = w, lock' = lock, db' = db,
         NEW p \in Points, p \notin {"idle", "wait", "leave"}, Go(w, p), KnownAt(w, p)
  PROVE  IInv'
<1>1. Moves(w, p) /\ SameTask(w)
  BY Goes DEF IInv
<1> QED BY <1>1, Reads

LEMMA Denied ==
  ASSUME IInv, NEW w \in Worker, NEW x, At(w, x), x \notin {"idle", "wait"},
         lock' = lock, db' = db, Answer(w, "no") \/ Back(w)
  PROVE  IInv'
<1>1. KnownAt(w, x) /\ lock = w
  BY Inside
<1>2. CASE Answer(w, "no")
  <2>1. Moves(w, "leave") /\ SameTask(w) /\ task'[w].reply = "no"
    <3>1. TaskShape
      BY DEF IInv
    <3> QED BY <1>2, <3>1, Answers
  <2>2. KnownAt(w, "leave")
    BY <1>1, LeaveKnown
  <2> QED BY <1>1, <2>1, <2>2, Reads
<1>3. CASE Back(w)
  <2>1. KnownAt(w, "undo")
    BY <1>1, LeaveKnown
  <2>2. Go(w, "undo")
    BY <1>3 DEF Back
  <2>3. "undo" \in Points
    BY DEF Points
  <2> QED BY <1>1, <2>1, <2>2, <2>3, GoesOn
<1> QED BY <1>2, <1>3

LEMMA Granted ==
  ASSUME IInv, NEW w \in Worker, NEW x, At(w, x), x \notin {"idle", "wait"},
         lock' = lock, db' = db, Answer(w, "ok"), Done(w)
  PROVE  IInv'
<1>1. KnownAt(w, x) /\ lock = w
  BY Inside
<1>2. Moves(w, "leave") /\ SameTask(w)
  <2>1. TaskShape
    BY DEF IInv
  <2> QED BY <2>1, Answers
<1>3. KnownAt(w, "leave")
  BY <1>1, LeaveKnown
<1> QED BY <1>1, <1>2, <1>3, Reads

LEMMA Writes ==
  ASSUME IInv, NEW w \in Worker, lock = w, lock' = lock,
         NEW p, Moves(w, p), p \notin {"idle", "wait"}, Stored', DbGrows, KnownAt(w, p)',
         p = "leave" /\ task'[w].reply = "ok" => Done(w)'
  PROVE  IInv'
BY LockKept, Advance

\* What a request must know to go to a point of its own kind, besides what it knows anyway.
LEMMA SaveKnown ==
  ASSUME NEW w \in Worker, KnownAt(w, "leave"), NEW p \in SavePoints, Kind(w) = "save",
         AdmittedAt(w, p)
  PROVE  KnownAt(w, p)
<1>1. KindAt(w, p) /\ CurrentAt(w, p) /\ StagedAt(w, p) /\ PublishedAt(w, p) /\ HandedAt(w, p)
  BY DEF KindAt, CurrentAt, StagedAt, PublishedAt, HandedAt, SavePoints, ResolvePoints,
         StagePoints, ProjectPoints, HandoffPoints, SharedPoints
<1>2. JobAt(w, p) /\ MadeAt(w, p)
  BY DEF KnownAt, JobAt, MadeAt, SavePoints
<1> QED BY <1>1, <1>2 DEF KnownAt

LEMMA DecideKnown ==
  ASSUME NEW w \in Worker, KnownAt(w, "leave"), NEW p \in ResolvePoints \cup StagePoints,
         Kind(w) = "decide", p # "check" => IsCurrent(D(w)), StagedAt(w, p)
  PROVE  KnownAt(w, p)
<1>1. KindAt(w, p) /\ AdmittedAt(w, p) /\ PublishedAt(w, p) /\ HandedAt(w, p)
  BY DEF KindAt, AdmittedAt, PublishedAt, HandedAt, SavePoints, ResolvePoints,
         StagePoints, ProjectPoints, HandoffPoints, SharedPoints
<1>2. CurrentAt(w, p)
  BY DEF CurrentAt, ResolvePoints, StagePoints, ProjectPoints, HandoffPoints, SharedPoints
<1>3. JobAt(w, p) /\ MadeAt(w, p)
  BY DEF KnownAt, JobAt, MadeAt, ResolvePoints, StagePoints
<1> QED BY <1>1, <1>2, <1>3 DEF KnownAt

LEMMA PublishKnown ==
  ASSUME NEW w \in Worker, KnownAt(w, "leave"), NEW p \in SharedPoints \cup ProjectPoints,
         KindAt(w, p), IsCurrent(D(w)), PublishedAt(w, p), HandedAt(w, p)
  PROVE  KnownAt(w, p)
<1>1. AdmittedAt(w, p) /\ StagedAt(w, p)
  BY DEF AdmittedAt, StagedAt, StagePoints, ProjectPoints, SharedPoints
<1>2. CurrentAt(w, p)
  BY DEF CurrentAt
<1>3. JobAt(w, p) /\ MadeAt(w, p)
  BY DEF KnownAt, JobAt, MadeAt, ProjectPoints, SharedPoints
<1> QED BY <1>1, <1>2, <1>3 DEF KnownAt

LEMMA HandoffKnown ==
  ASSUME NEW w \in Worker, KnownAt(w, "leave"), NEW p \in HandoffPoints, Kind(w) = "handoff",
         p # "verify" => IsCurrent(D(w)), PublishedAt(w, p), HandedAt(w, p)
  PROVE  KnownAt(w, p)
<1>1. KindAt(w, p) /\ AdmittedAt(w, p) /\ StagedAt(w, p)
  BY DEF KindAt, AdmittedAt, StagedAt, SavePoints, ResolvePoints, StagePoints, ProjectPoints,
         HandoffPoints, SharedPoints
<1>2. CurrentAt(w, p)
  BY DEF CurrentAt, ResolvePoints, StagePoints, ProjectPoints, HandoffPoints, SharedPoints
<1>3. JobAt(w, p) /\ MadeAt(w, p)
  BY DEF KnownAt, JobAt, MadeAt, HandoffPoints
<1> QED BY <1>1, <1>2, <1>3 DEF KnownAt

LEMMA GetKnown ==
  ASSUME NEW w \in Worker, KnownAt(w, "leave"), Kind(w) = "get"
  PROVE  KnownAt(w, "reread")
<1>1. KindAt(w, "reread") /\ AdmittedAt(w, "reread") /\ CurrentAt(w, "reread")
      /\ StagedAt(w, "reread") /\ PublishedAt(w, "reread") /\ HandedAt(w, "reread")
  BY DEF KindAt, AdmittedAt, CurrentAt, StagedAt, PublishedAt, HandedAt, SavePoints, ResolvePoints,
         StagePoints, ProjectPoints, HandoffPoints, SharedPoints
<1>2. JobAt(w, "reread") /\ MadeAt(w, "reread")
  BY DEF KnownAt, JobAt, MadeAt
<1> QED BY <1>1, <1>2 DEF KnownAt

-------------------------------------------------------------------------------
(* Each action keeps the invariant: requests *)

LEMMA SameStored == ASSUME Stored, db' = db PROVE Stored'
<1>1. db'.events = db.events /\ Unless("rows")
  BY DEF Unless
<1>2. DbShape'
  BY DEF Stored, DbShape
<1> QED BY <1>1, <1>2, RowsWritten

LEMMA BeginKept ==
  ASSUME IInv, NEW w \in Worker, NEW job \in Job, Begin(w, job)
  PROVE  IInv'
<1>1. At(w, "idle") /\ lock' = lock /\ db' = db
  BY DEF Begin
<1>2. /\ job.kind = "decide" => Linked(job.draft) /\ job.decision \in Decision
      /\ job.kind \in {"handoff", "get"} =>
           /\ db.aggregates[job.draft] # None /\ Approved(db.aggregates[job.draft])
      /\ job.draft \in Draft /\ job.kind \in {"decide", "save", "handoff", "get"}
  BY DEF Begin, Job
<1> DEFINE c == IF job.kind = "decide" THEN job.decision ELSE db.aggregates[job.draft]
           t == [[[task[w] EXCEPT !.pc = "wait"] EXCEPT !.job = job] EXCEPT !.cand = c]
<1>3. c \in Decision \cup {None}
  BY <1>2 DEF IInv, DbShape, Rows
<1>4. task' = [task EXCEPT ![w] = t]
  BY DEF Begin, IInv, TaskShape
<1>5. /\ t \in TaskSet /\ t.pc = "wait" /\ t.job = job /\ t.cand = c /\ t.made = task[w].made
  <2> DEFINE u == [[task[w] EXCEPT !.pc = "wait"] EXCEPT !.job = job]
  <2>1. task[w] \in TaskSet
    BY DEF IInv, TaskShape
  <2>2. u \in TaskSet /\ u.pc = "wait" /\ u.job = job /\ u.made = task[w].made
    BY <2>1 DEF TaskSet, Points
  <2>3. t = [u EXCEPT !.cand = c]
    OBVIOUS
  <2> HIDE DEF t, u, c
  <2> QED BY <1>3, <2>2, <2>3 DEF TaskSet
<1>6. /\ task'[w].job = job /\ task'[w].cand = c /\ task'[w].made = task[w].made
      /\ Moves(w, "wait")
  <2> HIDE DEF t, c
  <2> QED BY <1>4, <1>5 DEF IInv, TaskShape, Moves
<1>7. task[w].made = <<>> /\ lock # w
  BY <1>1 DEF IInv, Known, At, KnownAt, MadeAt, LockHeld
<1>8. KnownAt(w, "wait")'
  <2>1. JobAt(w, "wait")'
    <3>1. \A d : Linked(d)' <=> Linked(d)
      BY <1>1 DEF Linked, EventsOf
    <3>2. D(w)' = job.draft /\ Kind(w)' = job.kind /\ Cand(w)' = c
      BY <1>6 DEF D, Kind, Cand
    <3>3. job.kind = "decide" => c # None /\ SameDecision(c, job.decision)
      BY <1>2, OfferAssumption DEF SameDecision
    <3> QED BY <1>1, <1>2, <1>6, <3>1, <3>2, <3>3 DEF JobAt
  <2>2. MadeAt(w, "wait")'
    BY <1>6, <1>7 DEF MadeAt
  <2> QED BY <2>1, <2>2 DEF KnownAt, KindAt, AdmittedAt, CurrentAt, StagedAt, PublishedAt, HandedAt,
             SavePoints, ResolvePoints, StagePoints, ProjectPoints, HandoffPoints, SharedPoints
<1>9. LockHeld' /\ Stored'
  BY <1>1, <1>6, <1>7, LockOther, SameStored DEF IInv, Stored
<1> QED BY <1>1, <1>6, <1>8, <1>9, Advance

LEMMA EnterKept ==
  ASSUME IInv, NEW w \in Worker, Enter(w)
  PROVE  IInv'
<1>1. At(w, "wait") /\ lock = None /\ lock' = w /\ db' = db
  BY DEF Enter
<1>2. /\ Kind(w) \in {"decide", "save", "handoff", "get"} /\ KnownAt(w, "wait") /\ Stored
  BY <1>1, Inside
<1>3. KnownAt(w, "leave")
  BY <1>2, LeaveKnown
<1>4. \E p \in {"check", "admit", "verify", "reread"} : Go(w, p) /\ KnownAt(w, p)
  <2>1. CASE Kind(w) = "decide"
    BY <1>3, <2>1, DecideKnown DEF ResolvePoints, StagedAt, StagePoints, Enter, Kind
  <2>2. CASE Kind(w) = "save"
    BY <1>3, <2>2, SaveKnown DEF SavePoints, AdmittedAt, Enter, Kind
  <2>3. CASE Kind(w) = "handoff"
    BY <1>3, <2>3, HandoffKnown
       DEF HandoffPoints, PublishedAt, HandedAt, SharedPoints, ProjectPoints, Enter, Kind
  <2>4. CASE Kind(w) = "get"
    BY <1>3, <2>4, GetKnown DEF Enter, Kind
  <2> QED BY <1>2, <2>1, <2>2, <2>3, <2>4
<1>5. PICK p \in {"check", "admit", "verify", "reread"} : Go(w, p) /\ KnownAt(w, p)
  BY <1>4
<1>6. Moves(w, p) /\ SameTask(w)
  BY <1>5, Goes DEF IInv, Points
<1>7. LockHeld'
  BY <1>1, <1>6, OfferAssumption DEF IInv, LockHeld, Moves
<1>8. KnownAt(w, p)' /\ Stored'
  BY <1>1, <1>2, <1>5, <1>6, SameKnown, SameStored
<1> QED BY <1>1, <1>6, <1>7, <1>8, Advance

LEMMA IdleKept ==
  ASSUME IInv, NEW w \in Worker, task' = [task EXCEPT ![w] = Idle], db' = db,
         \/ lock = w /\ lock' = None
         \/ lock # w /\ lock' = lock
  PROVE  IInv'
<1>1. Moves(w, "idle") /\ task'[w] = Idle
  BY Idles DEF IInv
<1>2. KnownAt(w, "idle")'
  <2>1. task'[w].made = <<>>
    BY <1>1 DEF Idle
  <2> QED BY <2>1 DEF KnownAt, JobAt, MadeAt, KindAt, AdmittedAt, CurrentAt, StagedAt,
             PublishedAt, HandedAt, SavePoints, ResolvePoints, StagePoints, ProjectPoints,
             HandoffPoints, SharedPoints
<1>3. LockHeld'
  BY <1>1, LockFreed, LockOther
<1>4. Stored'
  BY SameStored DEF IInv, Stored
<1> QED BY <1>1, <1>2, <1>3, <1>4, Advance

LEMMA TimeOutKept ==
  ASSUME IInv, NEW w \in Worker, TimeOut(w)
  PROVE  IInv'
<1>1. lock # w
  BY DEF TimeOut, At, IInv, LockHeld
<1> QED BY <1>1, IdleKept DEF TimeOut

LEMMA LeaveKept ==
  ASSUME IInv, NEW w \in Worker, Leave(w)
  PROVE  IInv'
<1>1. lock = w
  BY DEF Leave, At, IInv, LockHeld
<1> QED BY <1>1, IdleKept DEF Leave

LEMMA CrashKept ==
  ASSUME IInv, NEW w \in Worker, Crash(w)
  PROVE  IInv'
BY IdleKept DEF Crash

\* Whatever but an aggregate is written, draft events and aggregates stay.
LEMMA GrowsUnless ==
  ASSUME Stored, NEW f, f # "aggregates", Unless(f)
  PROVE  DbGrows
BY HistoryKept DEF DbGrows, Unless

\* What a request that writes still knows afterwards, if it makes nothing to undo.
LEMMA LeaveNext ==
  ASSUME NEW w \in Worker, NEW x, KnownAt(w, x), x \notin {"idle", "wait"}, SameTask(w), DbGrows
  PROVE  KnownAt(w, "leave")'
<1>1. /\ D(w)' = D(w) /\ Cand(w)' = Cand(w) /\ Kind(w)' = Kind(w)
      /\ task'[w].job = task[w].job /\ task'[w].made = task[w].made
  BY SameRequest
<1>2. JobAt(w, "leave")'
  <2>1. JobAt(w, "leave") /\ task[w].job \in Job
    BY DEF KnownAt, JobAt
  <2>2. D(w) \in Draft
    BY <2>1 DEF D, Job
  <2> QED BY <1>1, <2>1, <2>2 DEF JobAt, DbGrows
<1>3. MadeAt(w, "leave")'
  BY DEF MadeAt
<1>4. KindAt(w, "leave")' /\ AdmittedAt(w, "leave")' /\ CurrentAt(w, "leave")'
      /\ StagedAt(w, "leave")' /\ PublishedAt(w, "leave")' /\ HandedAt(w, "leave")'
  BY DEF KindAt, AdmittedAt, CurrentAt, StagedAt, PublishedAt, HandedAt, SavePoints,
         ResolvePoints, StagePoints, ProjectPoints, HandoffPoints, SharedPoints
<1> QED BY <1>2, <1>3, <1>4 DEF KnownAt

LEMMA LeaveUnless ==
  ASSUME Stored, NEW w \in Worker, NEW x, KnownAt(w, x), x \notin {"idle", "wait"}, SameTask(w),
         NEW f, f # "aggregates", Unless(f)
  PROVE  KnownAt(w, "leave")'
BY GrowsUnless, LeaveNext

LEMMA PointNext ==
  ASSUME NEW w \in Worker, KnownAt(w, "leave")', NEW p, p \notin {"idle", "wait"},
         KindAt(w, p)', AdmittedAt(w, p)', CurrentAt(w, p)', StagedAt(w, p)', PublishedAt(w, p)',
         HandedAt(w, p)'
  PROVE  KnownAt(w, p)'
<1>1. JobAt(w, p)' /\ MadeAt(w, p)'
  BY DEF KnownAt, JobAt, MadeAt
<1> QED BY <1>1 DEF KnownAt

-------------------------------------------------------------------------------
(* Saving a draft *)

LEMMA AdmitKept ==
  ASSUME IInv, NEW w \in Worker, Admit(w)
  PROVE  IInv'
<1>1. At(w, "admit") /\ lock' = lock /\ db' = db
  BY DEF Admit
<1>2. KnownAt(w, "admit") /\ lock = w
  BY <1>1, Inside
<1>3. CASE Answer(w, "no")
  BY <1>1, <1>3, Denied
<1>4. CASE /\ Original[D(w)] = None \/ Linked(D(w)) \/ IsCurrent(Original[D(w)])
           /\ Go(w, "saveDraft")
  <2>1. KnownAt(w, "leave")
    BY <1>2, LeaveKnown
  <2>2. Kind(w) = "save"
    BY <1>2 DEF KnownAt, KindAt, SavePoints
  <2>3. KnownAt(w, "saveDraft")
    BY <1>4, <2>1, <2>2, SaveKnown DEF SavePoints, AdmittedAt
  <2>4. "saveDraft" \in Points
    BY DEF Points
  <2> QED BY <1>1, <1>2, <1>4, <2>3, <2>4, GoesOn
<1> QED BY <1>3, <1>4 DEF Admit

LEMMA SaveDraftKept ==
  ASSUME IInv, NEW w \in Worker, SaveDraft(w)
  PROVE  IInv'
<1>1. At(w, "saveDraft") /\ lock' = lock /\ Go(w, "draftEvent")
      /\ db' = [db EXCEPT !.drafts = @ \cup {D(w)}]
  BY DEF SaveDraft
<1>2. KnownAt(w, "saveDraft") /\ lock = w /\ D(w) \in Draft /\ Stored
  BY <1>1, Inside
<1>3. Moves(w, "draftEvent") /\ SameTask(w)
  BY <1>1, Goes DEF IInv, Points
<1>4. Stored' /\ Unless("drafts") /\ db'.drafts = db.drafts \cup {D(w)}
  BY <1>1, <1>2, DraftSaved
<1>5. DbGrows
  BY <1>2, <1>4, GrowsUnless
<1>6. KnownAt(w, "leave")'
  BY <1>2, <1>3, <1>4, LeaveUnless
<1>7. KnownAt(w, "draftEvent")'
  <2>1. D(w)' = D(w) /\ Kind(w)' = Kind(w)
    BY <1>3, SameRequest
  <2>2. Kind(w) = "save" /\ (Original[D(w)] = None \/ Linked(D(w)) \/ IsCurrent(Original[D(w)]))
    BY <1>2 DEF KnownAt, KindAt, AdmittedAt, SavePoints
  <2>3. AdmittedAt(w, "draftEvent")'
    BY <1>2, <1>4, <2>1, <2>2, HistoryKept DEF Unless, AdmittedAt
  <2> QED BY <1>6, <2>1, <2>2, <2>3, PointNext
       DEF KindAt, CurrentAt, StagedAt, PublishedAt, HandedAt, SavePoints, ResolvePoints,
           StagePoints, ProjectPoints, HandoffPoints, SharedPoints
<1> QED BY <1>1, <1>2, <1>3, <1>4, <1>5, <1>7, Writes

LEMMA DraftEventKept ==
  ASSUME IInv, NEW w \in Worker, DraftEvent(w)
  PROVE  IInv'
<1>1. At(w, "draftEvent") /\ lock' = lock /\ Go(w, "reopen")
  BY DEF DraftEvent
<1>2. KnownAt(w, "draftEvent") /\ lock = w /\ D(w) \in Draft /\ Stored
  BY <1>1, Inside
<1> PICK d \in Draft : d = D(w)
  BY <1>2
<1>3. Moves(w, "reopen") /\ SameTask(w)
  BY <1>1, Goes DEF IInv, Points
<1>4. /\ Kind(w) = "save" /\ d \in db.drafts
      /\ Original[d] = None \/ Linked(d) \/ IsCurrent(Original[d])
  BY <1>2 DEF KnownAt, KindAt, AdmittedAt, SavePoints
<1>5. /\ Stored' /\ DbGrows /\ db'.drafts = db.drafts /\ db'.handoffs = db.handoffs
      /\ HasEvent(d, "result")' => HasEvent(d, "result")
  <2>1. CASE Linked(d)
    <3>1. db' = db
      BY <2>1 DEF DraftEvent
    <3> QED BY <1>2, <3>1, SameStored DEF DbGrows, HasEvent, EventsOf, Linked
  <2>2. CASE ~Linked(d)
    <3>1. db' = [db EXCEPT !.events = @ \cup {Event("draft_created", d, None)}]
      BY <2>2 DEF DraftEvent
    <3>2. Original[d] # None => IsCurrent(Original[d])
      BY <1>4, <2>2
    <3>3. Stored' /\ \A c \in Draft : Linked(c) => Linked(c)'
      BY <1>2, <2>2, <3>1, <3>2, DraftLinked
    <3>4. /\ db'.events = db.events \cup {Event("draft_created", d, None)}
          /\ db'.drafts = db.drafts /\ db'.aggregates = db.aggregates
          /\ db'.handoffs = db.handoffs
      BY <1>2, <3>1 DEF Stored, DbShape
    <3>5. Event("draft_created", d, None).kind = "draft_created"
      BY DEF Event
    <3>6. HasEvent(d, "result")' => HasEvent(d, "result")
      BY <3>4, <3>5 DEF HasEvent, EventsOf
    <3> QED BY <3>3, <3>4, <3>6 DEF DbGrows
  <2> QED BY <2>1, <2>2
<1>6. KnownAt(w, "leave")'
  BY <1>2, <1>3, <1>5, LeaveNext
<1>7. KnownAt(w, "reopen")'
  <2>1. D(w)' = d /\ Kind(w)' = Kind(w)
    BY <1>3, SameRequest
  <2> QED BY <1>4, <1>5, <1>6, <2>1, PointNext
       DEF KindAt, AdmittedAt, CurrentAt, StagedAt, PublishedAt, HandedAt, SavePoints,
           ResolvePoints, StagePoints, ProjectPoints, HandoffPoints, SharedPoints
<1> QED BY <1>1, <1>2, <1>3, <1>5, <1>7, Writes

\* The case after a reopening, whether or not the caller hears of it.
LEMMA CaseReopened ==
  ASSUME Stored, NEW d \in Draft, db' = [db EXCEPT !.case = ReopenedCase(d)]
  PROVE  Stored' /\ Unless("case") /\ DbGrows /\ (IsCurrent(d)' => db'.case.offer \in {None, d})
<1>1. PICK c : c = ReopenedCase(d)
  OBVIOUS
<1>2. DbFields
  BY FieldTypes DEF Stored
<1>3. /\ c \in Case /\ (c.handoff # None => c.offer = c.handoff)
      /\ c.offer \in {None, db.case.offer}
  BY <1>1, <1>2 DEF DbFields, ReopenedCase, Case, Stored, DbInv, CaseDecided
<1>4. Stored' /\ Unless("case") /\ db'.case = c
  BY <1>1, <1>3, CaseWritten
<1>5. DbGrows
  BY <1>4, GrowsUnless
<1>6. IsCurrent(d)' => IsCurrent(d)
  BY <1>4, HistoryKept DEF Unless
<1>7. IsCurrent(d) => c.offer \in {None, d}
  BY <1>1 DEF ReopenedCase, Stored, DbInv, StaleLinkRepairable
<1> QED BY <1>4, <1>5, <1>6, <1>7

LEMMA ReopenKept ==
  ASSUME IInv, NEW w \in Worker, Reopen(w)
  PROVE  IInv'
<1>1. At(w, "reopen") /\ lock' = lock /\ Answer(w, "ok")
      /\ db' = [db EXCEPT !.case = ReopenedCase(D(w))]
  BY DEF Reopen
<1>2. KnownAt(w, "reopen") /\ lock = w /\ D(w) \in Draft /\ Stored
  BY <1>1, Inside
<1>3. Moves(w, "leave") /\ SameTask(w)
  BY <1>1, Answers DEF IInv
<1>4. Stored' /\ Unless("case") /\ DbGrows /\ (IsCurrent(D(w))' => db'.case.offer \in {None, D(w)})
  <2> PICK d \in Draft : d = D(w)
    BY <1>2
  <2>1. db' = [db EXCEPT !.case = ReopenedCase(d)]
    BY <1>1
  <2>2. Stored' /\ Unless("case") /\ DbGrows /\ (IsCurrent(d)' => db'.case.offer \in {None, d})
    BY <1>2, <2>1, CaseReopened
  <2>3. D(w)' = d
    BY <1>3, SameRequest
  <2>4. IsCurrent(D(w))' => IsCurrent(d)'
    BY <2>3 DEF IsCurrent, EventsOf
  <2> QED BY <2>2, <2>4
<1>5. KnownAt(w, "leave")'
  BY <1>2, <1>3, <1>4, LeaveUnless
<1>6. Done(w)'
  <2>1. D(w)' = D(w) /\ Kind(w)' = Kind(w)
    BY <1>3, SameRequest
  <2>2. Kind(w) = "save" /\ D(w) \in db.drafts
    BY <1>2 DEF KnownAt, KindAt, AdmittedAt, SavePoints
  <2>3. D(w) \in db'.drafts
    BY <1>4, <2>2 DEF Unless
  <2> QED BY <1>4, <2>1, <2>2, <2>3 DEF Done
<1> QED BY <1>1, <1>2, <1>3, <1>4, <1>5, <1>6, Writes

-------------------------------------------------------------------------------
(* The decision route, up to the aggregate *)

\* The request takes another record of the same decision for its candidate.
Takes(w, p, c) ==
  /\ Moves(w, p)
  /\ task'[w].job = task[w].job /\ task'[w].cand = c /\ task'[w].made = task[w].made

LEMMA Retakes ==
  ASSUME TaskShape, NEW w \in Worker, NEW p \in Points, NEW c \in Decision,
         \/ task' = [task EXCEPT ![w].pc = p, ![w].cand = c]
         \/ \E r \in {"fresh", "legacy", "late"} :
              task' = [task EXCEPT ![w].pc = p, ![w].route = r, ![w].cand = c]
  PROVE  Takes(w, p, c)
<1> DEFINE u(r) == [[task[w] EXCEPT !.pc = p] EXCEPT !.route = r]
           t(r) == [u(r) EXCEPT !.cand = c]
<1>1. PICK r \in {"fresh", "legacy", "late"} : task' = [task EXCEPT ![w] = t(r)]
  <2>1. CASE task' = [task EXCEPT ![w].pc = p, ![w].cand = c]
    <3>1. task[w].route \in {"fresh", "legacy", "late"}
      BY DEF TaskShape, TaskSet
    <3>2. [[task[w] EXCEPT !.pc = p] EXCEPT !.cand = c] = t(task[w].route)
      BY DEF TaskShape, TaskSet
    <3>3. task' = [task EXCEPT ![w] = t(task[w].route)]
      <4>1. task' = [task EXCEPT ![w] = [[task[w] EXCEPT !.pc = p] EXCEPT !.cand = c]]
        BY <2>1 DEF TaskShape
      <4> HIDE DEF t
      <4> QED BY <3>2, <4>1
    <3> HIDE DEF t
    <3> QED BY <3>1, <3>3
  <2>2. ASSUME NEW r \in {"fresh", "legacy", "late"},
               task' = [task EXCEPT ![w].pc = p, ![w].route = r, ![w].cand = c]
        PROVE  task' = [task EXCEPT ![w] = t(r)]
    BY <2>2 DEF TaskShape
  <2> HIDE DEF t
  <2> QED BY <2>1, <2>2
<1>2. /\ t(r) \in TaskSet
      /\ t(r).pc = p /\ t(r).job = task[w].job /\ t(r).cand = c /\ t(r).made = task[w].made
  <2>1. task[w] \in TaskSet
    BY DEF TaskShape
  <2>2. u(r) \in TaskSet /\ u(r).pc = p /\ u(r).job = task[w].job /\ u(r).made = task[w].made
    BY <2>1 DEF TaskSet
  <2> HIDE DEF u
  <2> QED BY <2>2 DEF TaskSet
<1> HIDE DEF t
<1> QED BY <1>1, <1>2 DEF Takes, Moves, TaskShape

\* What it knows of the new candidate.
LEMMA LeaveTakes ==
  ASSUME IInv, NEW w \in Worker, NEW x, KnownAt(w, x), x \notin {"idle", "wait"},
         NEW p, NEW c \in Decision, Takes(w, p, c), Kind(w) = "decide",
         SameDecision(c, task[w].job.decision), DbGrows
  PROVE  /\ KnownAt(w, "leave")'
         /\ D(w)' = D(w) /\ Cand(w)' = c /\ Kind(w)' = "decide"
<1>1. D(w)' = D(w) /\ Cand(w)' = c /\ Kind(w)' = "decide" /\ task'[w].job = task[w].job
      /\ task'[w].made = task[w].made
  BY DEF Takes, D, Cand, Kind
<1>2. JobAt(w, "leave")'
  <2>1. JobAt(w, "leave") /\ task[w].job \in Job
    BY DEF KnownAt, JobAt
  <2>2. D(w) \in Draft
    BY <2>1 DEF D, Job
  <2> QED BY <1>1, <2>1, <2>2, OfferAssumption DEF JobAt, DbGrows
<1>3. MadeAt(w, "leave")'
  BY DEF MadeAt
<1>4. KindAt(w, "leave")' /\ AdmittedAt(w, "leave")' /\ CurrentAt(w, "leave")'
      /\ StagedAt(w, "leave")' /\ PublishedAt(w, "leave")' /\ HandedAt(w, "leave")'
  BY DEF KindAt, AdmittedAt, CurrentAt, StagedAt, PublishedAt, HandedAt, SavePoints,
         ResolvePoints, StagePoints, ProjectPoints, HandoffPoints, SharedPoints
<1> QED BY <1>1, <1>2, <1>3, <1>4 DEF KnownAt

\* A step that reads the stored records under the lock and takes note of something.
LEMMA Notes ==
  ASSUME IInv, NEW w \in Worker, lock = w, lock' = lock, db' = db,
         NEW p, Moves(w, p), p \notin {"idle", "wait", "leave"}, KnownAt(w, p)'
  PROVE  IInv'
<1>1. Stored'
  BY SameStored DEF IInv, Stored
<1>2. DbGrows
  BY SameViews DEF DbGrows
<1> QED BY <1>1, <1>2, Writes

LEMMA CheckKept ==
  ASSUME IInv, NEW w \in Worker, Check(w)
  PROVE  IInv'
<1>1. At(w, "check") /\ lock' = lock /\ db' = db
  BY DEF Check
<1>2. KnownAt(w, "check") /\ lock = w /\ D(w) \in Draft /\ Stored
  BY <1>1, Inside
<1> PICK d \in Draft : d = D(w)
  BY <1>2
<1>3. Kind(w) = "decide" /\ KnownAt(w, "leave")
      /\ Cand(w) # None /\ SameDecision(Cand(w), task[w].job.decision)
  BY <1>2, LeaveKnown DEF KnownAt, KindAt, JobAt, ResolvePoints
<1>4. CASE Answer(w, "no")
  BY <1>1, <1>4, Denied
<1>5. CASE IsCurrent(d) /\ Go(w, "approval")
  <2>1. KnownAt(w, "approval")
    BY <1>3, <1>5, DecideKnown DEF ResolvePoints, StagedAt, StagePoints
  <2>2. "approval" \in Points
    BY DEF Points
  <2> QED BY <1>1, <1>2, <1>5, <2>1, <2>2, GoesOn
<1>6. CASE /\ IsCurrent(d) /\ db.aggregates[d] # None /\ SameDecision(db.aggregates[d], Cand(w))
           /\ task' = [task EXCEPT ![w].pc = "publish", ![w].cand = db.aggregates[d]]
  <2> PICK c \in Decision : c = db.aggregates[d]
    BY <1>6 DEF IInv, DbShape, Rows
  <2>1. Takes(w, "publish", c)
    <3>1. "publish" \in Points
      BY DEF Points
    <3>2. TaskShape
      BY DEF IInv
    <3> QED BY <1>6, <3>1, <3>2, Retakes
  <2>2. DbGrows
    BY <1>1, SameViews DEF DbGrows
  <2>3. SameDecision(c, task[w].job.decision)
    BY <1>3, <1>6 DEF SameDecision
  <2>4. KnownAt(w, "leave")' /\ D(w)' = d /\ Cand(w)' = c /\ Kind(w)' = "decide"
    BY <1>1, <1>2, <1>3, <2>1, <2>2, <2>3, LeaveTakes
  <2>5. IsCurrent(d)'
    BY <1>1, <1>6, SameViews
  <2>6. CurrentAt(w, "publish")'
    BY <2>4, <2>5 DEF CurrentAt, IsCurrent, EventsOf
  <2>7. KnownAt(w, "publish")'
    BY <1>1, <1>6, <2>4, <2>6, PointNext, OfferAssumption
       DEF KindAt, AdmittedAt, StagedAt, PublishedAt, HandedAt, SavePoints,
           ResolvePoints, StagePoints, ProjectPoints, HandoffPoints, SharedPoints
  <2> QED BY <1>1, <1>2, <2>1, <2>7, Notes DEF Takes
<1> QED BY <1>4, <1>5, <1>6 DEF Check

\* What holds of a request that resolves or stages a decision.
LEMMA Deciding ==
  ASSUME NEW w \in Worker, NEW x \in (ResolvePoints \ {"check"}) \cup StagePoints, KnownAt(w, x)
  PROVE  /\ Kind(w) = "decide" /\ IsCurrent(D(w)) /\ KnownAt(w, "leave") /\ Linked(D(w))
         /\ Cand(w) # None /\ SameDecision(Cand(w), task[w].job.decision)
         /\ task[w].job.decision \in Decision
<1>1. x # "idle"
  BY DEF ResolvePoints, StagePoints
<1>2. Kind(w) = "decide" /\ IsCurrent(D(w))
  BY DEF KnownAt, KindAt, CurrentAt
<1>3. KnownAt(w, "leave")
  BY <1>1, LeaveKnown
<1>4. /\ Cand(w) # None /\ SameDecision(Cand(w), task[w].job.decision) /\ Linked(D(w))
      /\ task[w].job \in Job
  BY <1>1, <1>2 DEF KnownAt, JobAt
<1> QED BY <1>2, <1>3, <1>4 DEF Kind, Job

\* Taking another candidate and going on resolving.
LEMMA RetakenKept ==
  ASSUME IInv, NEW w \in Worker, NEW x \in (ResolvePoints \ {"check"}) \cup StagePoints,
         KnownAt(w, x), lock = w, lock' = lock, db' = db,
         NEW p \in ResolvePoints, NEW c \in Decision, Takes(w, p, c),
         SameDecision(c, task[w].job.decision)
  PROVE  IInv'
<1>1. Kind(w) = "decide" /\ IsCurrent(D(w))
  BY Deciding
<1>2. x \notin {"idle", "wait"} /\ p \notin {"idle", "wait", "leave"}
  BY DEF ResolvePoints, StagePoints
<1>3. DbGrows
  BY SameViews DEF DbGrows
<1>4. KnownAt(w, "leave")' /\ D(w)' = D(w) /\ Kind(w)' = "decide"
  BY <1>1, <1>2, <1>3, LeaveTakes
<1>5. CurrentAt(w, p)'
  BY <1>1, <1>4 DEF CurrentAt, IsCurrent, EventsOf
<1>6. /\ KindAt(w, p)' /\ AdmittedAt(w, p)' /\ StagedAt(w, p)' /\ PublishedAt(w, p)'
      /\ HandedAt(w, p)'
  BY <1>4
     DEF KindAt, AdmittedAt, StagedAt, PublishedAt, HandedAt, SavePoints,
         ResolvePoints, StagePoints, ProjectPoints, HandoffPoints, SharedPoints
<1>7. KnownAt(w, p)'
  BY <1>2, <1>4, <1>5, <1>6, PointNext
<1> QED BY <1>2, <1>7, Notes DEF Takes

LEMMA LateResolved ==
  ASSUME IInv, NEW w \in Worker, NEW x \in (ResolvePoints \ {"check"}) \cup StagePoints,
         KnownAt(w, x), lock = w, lock' = lock, db' = db, ResolveLate(w)
  PROVE  IInv'
<1> PICK c \in Decision : c = task[w].job.decision
  BY Deciding
<1>1. Takes(w, "approval", c)
  <2>1. "approval" \in Points
    BY DEF Points
  <2>2. TaskShape
    BY DEF IInv
  <2>3. task' = [task EXCEPT ![w].pc = "approval", ![w].route = "late", ![w].cand = c]
    BY DEF ResolveLate
  <2> QED BY <2>1, <2>2, <2>3, Retakes
<1>2. "approval" \in ResolvePoints
  BY DEF ResolvePoints
<1>3. SameDecision(c, task[w].job.decision)
  BY DEF SameDecision
<1> QED BY <1>1, <1>2, <1>3, RetakenKept

LEMMA FindApprovalKept ==
  ASSUME IInv, NEW w \in Worker, FindApproval(w)
  PROVE  IInv'
<1>1. At(w, "approval") /\ lock' = lock /\ db' = db
  BY DEF FindApproval
<1>2. KnownAt(w, "approval") /\ lock = w /\ D(w) \in Draft
  BY <1>1, Inside
<1> PICK d \in Draft : d = D(w)
  BY <1>2
<1>3. "approval" \in (ResolvePoints \ {"check"}) \cup StagePoints
  BY DEF ResolvePoints
<1>4. Kind(w) = "decide" /\ IsCurrent(d) /\ KnownAt(w, "leave")
  BY <1>2, <1>3, Deciding
<1>5. CASE Answer(w, "no")
  BY <1>1, <1>5, Denied
<1>6. CASE Go(w, "orphan")
  <2>1. KnownAt(w, "orphan")
    BY <1>4, DecideKnown DEF ResolvePoints, StagedAt, StagePoints
  <2>2. "orphan" \in Points
    BY DEF Points
  <2> QED BY <1>1, <1>2, <1>6, <2>1, <2>2, GoesOn
<1>7. CASE /\ db.approvals[d] # None /\ SameDecision(db.approvals[d], task[w].job.decision)
           /\ task' = [task EXCEPT ![w].pc = "offer", ![w].cand = db.approvals[d]]
  <2> PICK c \in Decision : c = db.approvals[d]
    BY <1>7 DEF IInv, DbShape, Rows
  <2>1. Takes(w, "offer", c)
    <3>1. "offer" \in Points
      BY DEF Points
    <3>2. TaskShape
      BY DEF IInv
    <3> QED BY <1>7, <3>1, <3>2, Retakes
  <2>2. "offer" \in ResolvePoints
    BY DEF ResolvePoints
  <2> QED BY <1>1, <1>2, <1>3, <1>7, <2>1, <2>2, RetakenKept
<1> QED BY <1>5, <1>6, <1>7 DEF FindApproval

LEMMA NoOrphanKept ==
  ASSUME IInv, NEW w \in Worker, NoOrphan(w)
  PROVE  IInv'
<1>1. At(w, "orphan") /\ lock' = lock /\ db' = db
  BY DEF NoOrphan
<1>2. KnownAt(w, "orphan") /\ lock = w
  BY <1>1, Inside
<1>3. CASE Answer(w, "no")
  BY <1>1, <1>3, Denied
<1>4. CASE Go(w, "fresh")
  <2>1. Kind(w) = "decide" /\ IsCurrent(D(w)) /\ KnownAt(w, "leave")
    BY <1>2, Deciding DEF ResolvePoints
  <2>2. KnownAt(w, "fresh")
    BY <2>1, DecideKnown DEF ResolvePoints, StagedAt, StagePoints
  <2>3. "fresh" \in Points
    BY DEF Points
  <2> QED BY <1>1, <1>2, <1>4, <2>2, <2>3, GoesOn
<1> QED BY <1>3, <1>4 DEF NoOrphan

LEMMA FindOfferKept ==
  ASSUME IInv, NEW w \in Worker, FindOffer(w)
  PROVE  IInv'
<1>1. At(w, "offer") /\ lock' = lock /\ db' = db
  BY DEF FindOffer
<1>2. KnownAt(w, "offer") /\ lock = w /\ D(w) \in Draft
  BY <1>1, Inside
<1> PICK d \in Draft : d = D(w)
  BY <1>2
<1>3. CASE Answer(w, "no")
  BY <1>1, <1>3, Denied
<1>4. CASE task' = [task EXCEPT ![w].pc = "confirm", ![w].seen = db.offers[d]]
  <2>1. Kind(w) = "decide" /\ IsCurrent(d) /\ Cand(w) \in Decision /\ KnownAt(w, "leave")
        /\ SameDecision(Cand(w), task[w].job.decision)
    BY <1>1, <1>2, Deciding, Inside DEF ResolvePoints
  <2> PICK c \in Decision : c = Cand(w)
    BY <2>1
  <2>2. db.offers[d] \in Decision \cup {None}
    BY DEF IInv, DbShape, Rows
  <2>3. Takes(w, "confirm", c)
    <3>1. TaskShape /\ "confirm" \in Points
      BY DEF IInv, Points
    <3> QED BY <1>4, <2>2, <3>1, NotesWhat DEF Takes, Cand
  <2>4. "confirm" \in ResolvePoints /\ "offer" \in (ResolvePoints \ {"check"}) \cup StagePoints
    BY DEF ResolvePoints
  <2> QED BY <1>1, <1>2, <2>1, <2>3, <2>4, RetakenKept
<1> QED BY <1>3, <1>4 DEF FindOffer

\* There is room for the decision: its rows may be staged.
LEMMA StagingBegun ==
  ASSUME IInv, NEW w \in Worker, NEW x \in ResolvePoints \ {"check"}, KnownAt(w, x), lock = w,
         lock' = lock, db' = db, Preflight(D(w), Cand(w)), Moves(w, "stageApproval"), SameTask(w)
  PROVE  IInv'
<1>1. Kind(w) = "decide" /\ IsCurrent(D(w)) /\ KnownAt(w, "leave")
  BY Deciding
<1>2. KnownAt(w, "stageApproval")
  BY <1>1, DecideKnown DEF ResolvePoints, StagedAt, StagePoints
<1> QED BY <1>2, Reads

LEMMA ConfirmKept ==
  ASSUME IInv, NEW w \in Worker, Confirm(w)
  PROVE  IInv'
<1>1. At(w, "confirm") /\ lock' = lock /\ db' = db
  BY DEF Confirm
<1>2. KnownAt(w, "confirm") /\ lock = w
  BY <1>1, Inside
<1>3. CASE Answer(w, "no")
  BY <1>1, <1>3, Denied
<1>4. CASE /\ Preflight(D(w), Cand(w))
           /\ task' = [task EXCEPT ![w].pc = "stageApproval", ![w].route = "legacy"]
  <2>1. Moves(w, "stageApproval") /\ SameTask(w)
    <3>1. TaskShape /\ "stageApproval" \in Points
      BY DEF IInv, Points
    <3> QED BY <1>4, <3>1, Reroutes
  <2>2. "confirm" \in ResolvePoints \ {"check"}
    BY DEF ResolvePoints
  <2> QED BY <1>1, <1>2, <1>4, <2>1, <2>2, StagingBegun
<1> QED BY <1>3, <1>4 DEF Confirm

LEMMA FreshKept ==
  ASSUME IInv, NEW w \in Worker, Fresh(w)
  PROVE  IInv'
<1>1. At(w, "fresh") /\ lock' = lock /\ db' = db
  BY DEF Fresh
<1>2. KnownAt(w, "fresh") /\ lock = w
  BY <1>1, Inside
<1>3. "fresh" \in ResolvePoints \ {"check"}
  BY DEF ResolvePoints
<1>4. CASE Answer(w, "no")
  BY <1>1, <1>4, Denied
<1>5. CASE ResolveLate(w)
  BY <1>1, <1>2, <1>3, <1>5, LateResolved
<1>6. CASE Preflight(D(w), Cand(w)) /\ Go(w, "stageApproval")
  <2>1. Moves(w, "stageApproval") /\ SameTask(w)
    BY <1>6, Goes DEF IInv, Points
  <2> QED BY <1>1, <1>2, <1>3, <1>6, <2>1, StagingBegun
<1> QED BY <1>4, <1>5, <1>6 DEF Fresh

-------------------------------------------------------------------------------
(* The rows and the aggregate *)

LEMMA ApprovalInserted ==
  ASSUME Stored, NEW d \in Draft, NEW of \in Decision, db.approvals[d] = None,
         db' = [db EXCEPT !.approvals[d] = of]
  PROVE  /\ Stored' /\ Unless("rows") /\ db'.approvals[d] = of /\ db'.offers = db.offers
         /\ \A c \in Draft : db.approvals[c] # None => db'.approvals[c] = db.approvals[c]
<1>1. Unless("rows") /\ db'.approvals = [db.approvals EXCEPT ![d] = of] /\ db'.offers = db.offers
  BY DEF Stored, DbShape, Unless
<1>2. DbShape'
  BY DEF Stored, DbShape, Rows
<1>3. \A c \in Draft : db'.approvals[c] = IF c = d THEN of ELSE db.approvals[c]
  BY <1>1 DEF Stored, DbShape, Rows
<1> QED BY <1>1, <1>2, <1>3, RowsWritten

LEMMA OfferInserted ==
  ASSUME Stored, NEW d \in Draft, NEW of \in Decision, db.offers[d] = None,
         db.approvals[d] = of, Approved(of), db' = [db EXCEPT !.offers[d] = of]
  PROVE  /\ Stored' /\ Unless("rows") /\ db'.offers[d] = of /\ db'.approvals = db.approvals
         /\ \A c \in Draft \ {d} : db'.offers[c] = db.offers[c]
<1>1. Unless("rows") /\ db'.offers = [db.offers EXCEPT ![d] = of] /\ db'.approvals = db.approvals
  BY DEF Stored, DbShape, Unless
<1>2. DbShape'
  BY DEF Stored, DbShape, Rows
<1>3. \A c \in Draft : db'.offers[c] = IF c = d THEN of ELSE db.offers[c]
  BY <1>1 DEF Stored, DbShape, Rows
<1>4. db.aggregates[d] = None
  BY OfferAssumption DEF Stored, DbInv, Projected
<1> QED BY <1>1, <1>2, <1>3, <1>4, RowsWritten

\* An insert that finds a row changes nothing.
LEMMA NothingInserted ==
  ASSUME DbShape, NEW d \in Draft, NEW of
  PROVE  /\ db.approvals[d] # None => [db EXCEPT !.approvals[d] = Inserted(@, of)] = db
         /\ db.offers[d] # None => [db EXCEPT !.offers[d] = Inserted(@, of)] = db
         /\ db.aggregates[d] # None => [db EXCEPT !.aggregates[d] = Inserted(db.aggregates[d], of)] = db
<1>1. ASSUME db.approvals[d] # None PROVE [db EXCEPT !.approvals[d] = Inserted(@, of)] = db
  <2>1. Inserted(db.approvals[d], of) = db.approvals[d]
    BY <1>1 DEF Inserted
  <2> QED BY <2>1 DEF DbShape, Rows
<1>2. ASSUME db.offers[d] # None PROVE [db EXCEPT !.offers[d] = Inserted(@, of)] = db
  <2>1. Inserted(db.offers[d], of) = db.offers[d]
    BY <1>2 DEF Inserted
  <2> QED BY <2>1 DEF DbShape, Rows
<1>3. ASSUME db.aggregates[d] # None
      PROVE  [db EXCEPT !.aggregates[d] = Inserted(db.aggregates[d], of)] = db
  <2>1. Inserted(db.aggregates[d], of) = db.aggregates[d]
    BY <1>3 DEF Inserted
  <2> QED BY <2>1 DEF DbShape, Rows
<1> QED BY <1>1, <1>2, <1>3

\* Nothing that a preflight looks at is a row.
LEMMA RoomKept ==
  ASSUME Stored, Unless("rows"), NEW d, NEW c, Preflight(d, c)
  PROVE  Preflight(d, c)'
BY HistoryKept DEF Preflight, Unless

LEMMA StageApprovalKept ==
  ASSUME IInv, NEW w \in Worker, StageApproval(w)
  PROVE  IInv'
<1>1. At(w, "stageApproval") /\ lock' = lock
  BY DEF StageApproval
<1>2. KnownAt(w, "stageApproval") /\ lock = w /\ D(w) \in Draft /\ Stored /\ Cand(w) \in Decision \cup {None}
  BY <1>1, Inside
<1>3. "stageApproval" \in (ResolvePoints \ {"check"}) \cup StagePoints /\ "stageOffer" \in Points
  BY DEF StagePoints, Points
<1>4. Kind(w) = "decide" /\ IsCurrent(D(w)) /\ Cand(w) # None
  BY <1>2, <1>3, Deciding
<1> PICK d \in Draft : d = D(w)
  BY <1>2
<1> PICK c \in Decision : c = Cand(w)
  BY <1>2, <1>4
<1>5. db' = [db EXCEPT !.approvals[d] = Inserted(@, c)]
  BY DEF StageApproval
<1>6. db.approvals[d] # None => db' = db
  BY <1>2, <1>5, NothingInserted DEF Stored
<1>7. CASE db.approvals[d] \in {None, c} /\ Go(w, "stageOffer")
  <2>1. Moves(w, "stageOffer") /\ SameTask(w)
    BY <1>3, <1>7, Goes DEF IInv
  <2>2. Stored' /\ Unless("rows") /\ db'.approvals[d] = c
    <3>1. CASE db.approvals[d] = None
      <4>1. db' = [db EXCEPT !.approvals[d] = c]
        BY <1>5, <3>1 DEF Inserted, Stored, DbShape
      <4> QED BY <1>2, <3>1, <4>1, ApprovalInserted
    <3>2. CASE db.approvals[d] = c
      BY <1>2, <1>6, <3>2, SameStored, OfferAssumption DEF Unless
    <3> QED BY <1>7, <3>1, <3>2
  <2>3. KnownAt(w, "leave")' /\ D(w)' = d /\ Cand(w)' = c /\ Kind(w)' = "decide"
    BY <1>2, <1>4, <2>1, <2>2, LeaveUnless, SameRequest
  <2>4. IsCurrent(d)' /\ Preflight(d, c)'
    BY <1>2, <1>4, <2>2, RoomKept, HistoryKept DEF Unless, KnownAt, StagedAt, StagePoints
  <2>5. CurrentAt(w, "stageOffer")'
    BY <2>3, <2>4 DEF CurrentAt, IsCurrent, EventsOf
  <2>6. StagedAt(w, "stageOffer")'
    BY <2>2, <2>3, <2>4 DEF StagedAt, Preflight, EventsOf
  <2>7. KnownAt(w, "stageOffer")'
    BY <2>3, <2>5, <2>6, PointNext
       DEF KindAt, AdmittedAt, PublishedAt, HandedAt, SavePoints,
           ResolvePoints, StagePoints, ProjectPoints, HandoffPoints, SharedPoints
  <2> QED BY <1>1, <1>2, <2>1, <2>2, <2>7, Writes, GrowsUnless
<1>8. CASE db.approvals[d] \notin {None, c} /\ ResolveLate(w)
  BY <1>1, <1>2, <1>3, <1>6, <1>8, LateResolved
<1>9. CASE db.approvals[d] \notin {None, c} /\ Answer(w, "no")
  BY <1>1, <1>6, <1>9, Denied
<1> QED BY <1>7, <1>8, <1>9 DEF StageApproval, Staged

LEMMA StageOfferKept ==
  ASSUME IInv, NEW w \in Worker, StageOffer(w)
  PROVE  IInv'
<1>1. At(w, "stageOffer") /\ lock' = lock
  BY DEF StageOffer
<1>2. KnownAt(w, "stageOffer") /\ lock = w /\ D(w) \in Draft /\ Stored /\ Cand(w) \in Decision \cup {None}
  BY <1>1, Inside
<1>3. "stageOffer" \in (ResolvePoints \ {"check"}) \cup StagePoints /\ "claim" \in Points
  BY DEF StagePoints, Points
<1>4. Kind(w) = "decide" /\ IsCurrent(D(w)) /\ Cand(w) # None
  BY <1>2, <1>3, Deciding
<1> PICK d \in Draft : d = D(w)
  BY <1>2
<1> PICK c \in Decision : c = Cand(w)
  BY <1>2, <1>4
<1>5. Preflight(d, c) /\ db.approvals[d] = c
  BY <1>2 DEF KnownAt, StagedAt, StagePoints
<1>6. db.offers[d] # None => db' = db /\ Approved(c) /\ db.offers[d] = c
  <2>1. db.offers[d] # None => Approved(c) /\ db.offers[d] = c
    BY <1>2, <1>5 DEF Stored, DbInv, OffersApproved
  <2>2. Approved(c) => db' = [db EXCEPT !.offers[d] = Inserted(@, c)]
    BY DEF StageOffer
  <2> QED BY <1>2, <2>1, <2>2, NothingInserted DEF Stored
<1>7. db.offers[d] = None /\ ~Approved(c) => db' = db
  BY DEF StageOffer
<1>8. Go(w, "claim")
  BY <1>6 DEF StageOffer, Staged
<1>9. Moves(w, "claim") /\ SameTask(w)
  BY <1>3, <1>8, Goes DEF IInv
<1>10. /\ Stored' /\ Unless("rows") /\ db'.approvals[d] = c
       /\ db'.offers[d] = IF Approved(c) THEN c ELSE None
  <2>1. CASE db.offers[d] = None /\ Approved(c)
    <3>1. db' = [db EXCEPT !.offers[d] = c]
      BY <2>1 DEF StageOffer, Inserted, Stored, DbShape
    <3> QED BY <1>2, <1>5, <2>1, <3>1, OfferInserted
  <2>2. CASE db.offers[d] # None \/ ~Approved(c)
    <3>1. db' = db /\ db.offers[d] = IF Approved(c) THEN c ELSE None
      BY <1>6, <1>7, <2>2
    <3> QED BY <1>2, <1>5, <3>1, SameStored DEF Unless
  <2> QED BY <2>1, <2>2
<1>11. KnownAt(w, "leave")' /\ D(w)' = d /\ Cand(w)' = c /\ Kind(w)' = "decide"
  BY <1>2, <1>4, <1>9, <1>10, LeaveUnless, SameRequest
<1>12. IsCurrent(d)' /\ Preflight(d, c)'
  BY <1>2, <1>4, <1>5, <1>10, RoomKept, HistoryKept DEF Unless
<1>13. CurrentAt(w, "claim")'
  BY <1>11, <1>12 DEF CurrentAt, IsCurrent, EventsOf
<1>14. StagedAt(w, "claim")'
  BY <1>10, <1>11, <1>12 DEF StagedAt, Preflight, EventsOf
<1>15. KnownAt(w, "claim")'
  BY <1>11, <1>13, <1>14, PointNext
     DEF KindAt, AdmittedAt, PublishedAt, HandedAt, SavePoints,
         ResolvePoints, StagePoints, ProjectPoints, HandoffPoints, SharedPoints
<1> QED BY <1>1, <1>2, <1>9, <1>10, <1>15, Writes, GrowsUnless

LEMMA ClaimKept ==
  ASSUME IInv, NEW w \in Worker, Claim(w)
  PROVE  IInv'
<1>1. At(w, "claim") /\ lock' = lock
  BY DEF Claim
<1>2. KnownAt(w, "claim") /\ lock = w /\ D(w) \in Draft /\ Stored /\ Cand(w) \in Decision \cup {None}
  BY <1>1, Inside
<1>3. "claim" \in (ResolvePoints \ {"check"}) \cup StagePoints /\ "publish" \in Points
  BY DEF StagePoints, Points
<1>4. /\ Kind(w) = "decide" /\ IsCurrent(D(w)) /\ Cand(w) # None /\ Linked(D(w))
      /\ SameDecision(Cand(w), task[w].job.decision)
  BY <1>2, <1>3, Deciding
<1> PICK d \in Draft : d = D(w)
  BY <1>2
<1> PICK c \in Decision : c = Cand(w)
  BY <1>2, <1>4
<1>5. Preflight(d, c) /\ db.approvals[d] = c /\ db.offers[d] = IF Approved(c) THEN c ELSE None
  BY <1>2 DEF KnownAt, StagedAt, StagePoints
<1> PICK winner \in Decision : winner = Inserted(db.aggregates[d], c)
  BY <1>2 DEF Inserted, Stored, DbShape, Rows
<1>6. db' = [db EXCEPT !.aggregates[d] = winner]
  BY DEF Claim
<1>7. db.aggregates[d] # None => db' = db /\ winner = db.aggregates[d]
  BY <1>2, <1>6, NothingInserted DEF Stored, Inserted
<1>8. db.aggregates[d] = None => winner = c
  BY DEF Inserted
<1>9. /\ Stored' /\ DbGrows /\ db'.aggregates[d] = winner
      /\ db'.events = db.events /\ db'.handoffs = db.handoffs
  <2>1. CASE db.aggregates[d] = None
    <3>1. Stored' /\ Unless("aggregates") /\ db'.aggregates = [db.aggregates EXCEPT ![d] = winner]
      BY <1>2, <1>4, <1>5, <1>6, <1>8, <2>1, OfferAssumption, AggregateClaimed
    <3>2. \A e \in Draft : db'.aggregates[e] = IF e = d THEN winner ELSE db.aggregates[e]
      BY <1>2, <3>1 DEF Stored, DbShape, Rows
    <3>3. \A e : Linked(e)' <=> Linked(e)
      BY <1>2, <3>1, HistoryKept DEF Unless
    <3> QED BY <2>1, <3>1, <3>2, <3>3 DEF DbGrows, Unless
  <2>2. CASE db.aggregates[d] # None
    BY <1>2, <1>7, <2>2, SameStored, SameViews DEF DbGrows
  <2> QED BY <2>1, <2>2
<1>10. CASE /\ SameDecision(winner, task[w].job.decision)
            /\ task' = [task EXCEPT ![w].pc = "publish", ![w].cand = winner]
  <2>1. Takes(w, "publish", winner)
    <3>1. TaskShape
      BY DEF IInv
    <3> QED BY <1>3, <1>10, <3>1, Retakes
  <2>2. KnownAt(w, "leave")' /\ D(w)' = d /\ Cand(w)' = winner /\ Kind(w)' = "decide"
    BY <1>2, <1>4, <1>9, <1>10, <2>1, LeaveTakes
  <2>3. IsCurrent(d)'
    BY <1>2, <1>4, <1>9, HistoryKept
  <2>4. CurrentAt(w, "publish")'
    BY <2>2, <2>3 DEF CurrentAt, IsCurrent, EventsOf
  <2>5. KnownAt(w, "publish")'
    BY <1>9, <2>2, <2>4, PointNext, OfferAssumption
       DEF KindAt, AdmittedAt, StagedAt, PublishedAt, HandedAt, SavePoints,
           ResolvePoints, StagePoints, ProjectPoints, HandoffPoints, SharedPoints
  <2>6. Moves(w, "publish")
    BY <2>1 DEF Takes
  <2> QED BY <1>1, <1>2, <1>9, <2>5, <2>6, Writes
<1>11. CASE Answer(w, "no") /\ db.aggregates[d] # None
  BY <1>1, <1>7, <1>11, Denied
<1>12. \/ /\ SameDecision(winner, task[w].job.decision)
          /\ task' = [task EXCEPT ![w].pc = "publish", ![w].cand = winner]
       \/ Answer(w, "no") /\ db.aggregates[d] # None
  <2>1. winner = c => SameDecision(winner, task[w].job.decision)
    BY <1>4
  <2> QED BY <1>8, <2>1 DEF Claim
<1> QED BY <1>10, <1>11, <1>12

-------------------------------------------------------------------------------
(* The previous release beside *)

\* Its rows take nothing from whoever is at work here.
LEMMA RowsBeside ==
  ASSUME IInv, Unless("rows"), Stored', UNCHANGED <<lock, task>>,
         \A d \in Draft : db.approvals[d] # None => db'.approvals[d] = db.approvals[d],
         \A d \in Draft : \/ db'.offers[d] = db.offers[d]
                          \/ db.offers[d] = None /\ Approved(db.approvals[d]) /\ db.approvals[d] # None
  PROVE  IInv'
<1>1. Stored /\ TaskShape' /\ LockHeld'
  BY DEF IInv, Stored, TaskShape, LockHeld
<1>2. /\ \A d : (Linked(d)' <=> Linked(d)) /\ (IsCurrent(d)' <=> IsCurrent(d))
      /\ \A d, k : HasEvent(d, k)' <=> HasEvent(d, k)
      /\ \A d, k : HasAudit(d, k)' <=> HasAudit(d, k)
      /\ \A d, c : Preflight(d, c)' <=> Preflight(d, c)
  <2>1. \A d, k : EventsOf(d, k)' = EventsOf(d, k)
    BY <1>1, HistoryKept DEF Unless
  <2> QED BY <1>1, <2>1, HistoryKept DEF Unless, HasAudit, Preflight
<1>3. \A v \in Worker : D(v)' = D(v) /\ Cand(v)' = Cand(v) /\ Kind(v)' = Kind(v) /\ task'[v] = task[v]
  BY DEF D, Cand, Kind
<1>4. ASSUME NEW v \in Worker, NEW p, KnownAt(v, p) PROVE KnownAt(v, p)'
  <2>1. KindAt(v, p)' /\ JobAt(v, p)' /\ AdmittedAt(v, p)' /\ CurrentAt(v, p)'
    BY <1>2, <1>3, <1>4 DEF Unless, KnownAt, KindAt, JobAt, AdmittedAt, CurrentAt
  <2>2. PublishedAt(v, p)' /\ HandedAt(v, p)' /\ MadeAt(v, p)'
    BY <1>2, <1>3, <1>4 DEF Unless, KnownAt, PublishedAt, HandedAt, MadeAt
  <2>3. StagedAt(v, p)'
    <3>1. p \in StagePoints => D(v) \in Draft /\ Cand(v) # None
      <4>1. p \in StagePoints => Kind(v) = "decide" /\ p # "idle"
        BY <1>4 DEF KnownAt, KindAt, StagePoints
      <4>2. p \in StagePoints => task[v].job \in Job /\ Cand(v) # None
        BY <1>4, <4>1 DEF KnownAt, JobAt
      <4> QED BY <4>2 DEF Job, D
    <3>2. {"stageOffer", "claim"} \subseteq StagePoints
      BY DEF StagePoints
    <3>3. StagedAt(v, p)
      BY <1>4 DEF KnownAt
    <3> QED BY <1>2, <1>3, <3>1, <3>2, <3>3 DEF StagedAt
  <2> QED BY <2>1, <2>2, <2>3 DEF KnownAt
<1>5. Known'
  <2> SUFFICES ASSUME NEW v \in Worker PROVE KnownAt(v, task[v].pc)'
    BY DEF Known
  <2> PICK p : p = task[v].pc
    OBVIOUS
  <2>1. KnownAt(v, p)'
    BY <1>4 DEF IInv, Known
  <2> QED BY <1>3, <2>1
<1>6. Kept'
  <2> SUFFICES ASSUME NEW v \in Worker, At(v, "leave"), task[v].reply = "ok" PROVE Done(v)'
    BY <1>3 DEF Kept, At
  <2>1. Done(v)
    BY DEF IInv, Kept
  <2> QED BY <1>2, <1>3, <2>1 DEF Done, Unless, CompletedCase, Evidenced
<1> QED BY <1>1, <1>5, <1>6 DEF IInv, Stored

LEMMA OlderApprovalKept ==
  ASSUME IInv, NEW d \in Draft, NEW decision \in Decision, OlderApproval(d, decision)
  PROVE  IInv'
<1>1. Stored /\ db.approvals[d] = None /\ db' = [db EXCEPT !.approvals[d] = decision]
  BY DEF IInv, Stored, OlderApproval
<1>2. /\ Stored' /\ Unless("rows") /\ db'.offers = db.offers
      /\ \A c \in Draft : db.approvals[c] # None => db'.approvals[c] = db.approvals[c]
  BY <1>1, ApprovalInserted
<1> QED BY <1>2, RowsBeside DEF OlderApproval

LEMMA OlderOfferKept ==
  ASSUME IInv, NEW d \in Draft, OlderOffer(d)
  PROVE  IInv'
<1>1. /\ Stored /\ db.offers[d] = None /\ db.approvals[d] # None /\ Approved(db.approvals[d])
      /\ db' = [db EXCEPT !.offers[d] = db.approvals[d]]
  BY DEF IInv, Stored, OlderOffer
<1> PICK of \in Decision : of = db.approvals[d]
  BY <1>1 DEF Stored, DbShape, Rows
<1>2. /\ Stored' /\ Unless("rows") /\ db'.approvals = db.approvals
      /\ \A c \in Draft \ {d} : db'.offers[c] = db.offers[c]
  BY <1>1, OfferInserted
<1> QED BY <1>1, <1>2, RowsBeside DEF OlderOffer

-------------------------------------------------------------------------------
(* What follows from the aggregate *)

LEMMA LeaveMakes ==
  ASSUME NEW w \in Worker, NEW x, KnownAt(w, x), x \notin {"idle", "wait"}, DbGrows,
         task'[w].job = task[w].job, task'[w].cand = task[w].cand
  PROVE  KnownAt(w, "leave")'
<1>1. D(w)' = D(w) /\ Cand(w)' = Cand(w) /\ Kind(w)' = Kind(w)
  BY DEF D, Cand, Kind
<1>2. JobAt(w, "leave")'
  <2>1. JobAt(w, "leave") /\ task[w].job \in Job
    BY DEF KnownAt, JobAt
  <2>2. D(w) \in Draft
    BY <2>1 DEF D, Job
  <2> QED BY <1>1, <2>1, <2>2 DEF JobAt, DbGrows
<1>3. KindAt(w, "leave")' /\ AdmittedAt(w, "leave")' /\ CurrentAt(w, "leave")'
      /\ StagedAt(w, "leave")' /\ PublishedAt(w, "leave")' /\ HandedAt(w, "leave")'
  BY DEF KindAt, AdmittedAt, CurrentAt, StagedAt, PublishedAt, HandedAt, SavePoints,
         ResolvePoints, StagePoints, ProjectPoints, HandoffPoints, SharedPoints
<1> QED BY <1>2, <1>3 DEF KnownAt, MadeAt

LEMMA ProjectNext ==
  ASSUME NEW w \in Worker, KnownAt(w, "leave")',
         NEW p \in SharedPoints \cup ProjectPoints \cup (HandoffPoints \ {"verify"}),
         NEW d, D(w)' = d, IsCurrent(d)', KindAt(w, p)', PublishedAt(w, p)', HandedAt(w, p)'
  PROVE  KnownAt(w, p)'
<1>1. AdmittedAt(w, p)' /\ StagedAt(w, p)' /\ p \notin {"idle", "wait"}
  BY DEF AdmittedAt, StagedAt, StagePoints, ProjectPoints, SharedPoints, HandoffPoints
<1>2. CurrentAt(w, p)'
  BY DEF CurrentAt, IsCurrent, EventsOf
<1> QED BY <1>1, <1>2, PointNext

\* An audit is written, or found.
LEMMA AuditWritten ==
  ASSUME IInv, NEW w \in Worker, NEW x, At(w, x), x \notin {"idle", "wait"}, lock' = lock,
         NEW kind \in {"approved", "handoff"}, NEW next \in Points, WriteAudit(w, kind, next),
         NEW d \in Draft, d = D(w), NEW c \in Decision, c = Cand(w), db.aggregates[d] = c, Approved(c)
  PROVE  \/ IInv'
         \/ /\ Stored' /\ Unless("audits") /\ Moves(w, next) /\ KnownAt(w, "leave")'
            /\ HasAudit(d, kind)'
            /\ \A k \in {"approved", "handoff"} : HasAudit(d, k) => HasAudit(d, k)'
            /\ D(w)' = d /\ Cand(w)' = c /\ Kind(w)' = Kind(w) /\ task'[w].seen = task[w].seen
<1> DEFINE others == {a \in db.audits : a.kind = kind /\ a.draft = d}
           mine == Audit(kind, d, c)
<1>1. KnownAt(w, x) /\ lock = w /\ Stored /\ TaskShape /\ c # None
  BY Inside, OfferAssumption DEF IInv
<1>2. CASE others = {}
  <2>1. /\ db' = [db EXCEPT !.audits = @ \cup {mine}]
        /\ task' = [task EXCEPT ![w].pc = next, ![w].made = <<kind>> \o @]
    BY <1>2 DEF WriteAudit, AddAudit, Audits
  <2>2. /\ Stored' /\ Unless("audits") /\ HasAudit(d, kind)'
        /\ \A k \in {"approved", "handoff"} : HasAudit(d, k) => HasAudit(d, k)'
    BY <1>1, <2>1, AuditAdded
  <2> PICK m : m = <<kind>> \o task[w].made
    OBVIOUS
  <2>3. m \in Things
    BY <1>1 DEF TaskShape, TaskSet, Things, Thing
  <2>4. task' = [task EXCEPT ![w].pc = next, ![w].made = m]
    BY <1>1, <2>1 DEF TaskShape
  <2>5. /\ Moves(w, next) /\ task'[w].made = m /\ task'[w].job = task[w].job
        /\ task'[w].cand = task[w].cand /\ task'[w].seen = task[w].seen
    BY <1>1, <2>3, <2>4, Makes
  <2>6. D(w)' = d /\ Cand(w)' = c /\ Kind(w)' = Kind(w)
    BY <2>5 DEF D, Cand, Kind
  <2>7. KnownAt(w, "leave")'
    BY <1>1, <2>2, <2>5, GrowsUnless, LeaveMakes
  <2> QED BY <2>2, <2>5, <2>6, <2>7
<1>3. CASE others # {} /\ mine \in others
  <2>1. db' = db /\ Go(w, next)
    BY <1>3 DEF WriteAudit, AddAudit, Audits
  <2>2. Moves(w, next) /\ SameTask(w)
    BY <1>1, <2>1, Goes
  <2>3. Stored' /\ Unless("audits")
    BY <1>1, <2>1, SameStored DEF Unless
  <2>4. KnownAt(w, "leave")'
    BY <1>1, <2>2, <2>3, LeaveUnless
  <2>5. HasAudit(d, kind)
    BY <1>3 DEF HasAudit
  <2> QED BY <2>1, <2>2, <2>3, <2>4, <2>5, SameViews, SameRequest
<1>4. CASE others # {} /\ mine \notin others
  <2>1. db' = db /\ Back(w)
    BY <1>4 DEF WriteAudit, AddAudit, Audits
  <2> QED BY <2>1, Denied
<1> QED BY <1>2, <1>3, <1>4

LEMMA PublishKept ==
  ASSUME IInv, NEW w \in Worker, Publish(w)
  PROVE  IInv'
<1>1. At(w, "publish") /\ lock' = lock
  BY DEF Publish
<1>2. KnownAt(w, "publish") /\ lock = w /\ D(w) \in Draft /\ Stored /\ Cand(w) \in Decision \cup {None}
  BY <1>1, Inside
<1> PICK d \in Draft : d = D(w)
  BY <1>2
<1>3. Cand(w) # None /\ db.aggregates[d] = Cand(w) /\ IsCurrent(d) /\ Kind(w) # "save"
  BY <1>2 DEF KnownAt, PublishedAt, CurrentAt, KindAt, SharedPoints
<1> PICK c \in Decision : c = Cand(w)
  BY <1>2, <1>3
<1>4. /\ Kind(w) = "handoff" => task[w].seen = db.case /\ HasAudit(d, "handoff")
      /\ Kind(w) = "get" => d \in db.handoffs
      /\ Kind(w) \in {"decide", "handoff", "get"}
      /\ ~Approved(c) => Kind(w) = "decide"
  <2>1. Kind(w) \in {"decide", "handoff", "get"}
    BY <1>1, <1>3, Inside
  <2>2. ~Approved(c) => Kind(w) = "decide"
    BY <1>2, <2>1 DEF KnownAt, JobAt
  <2> QED BY <1>2, <2>1, <2>2 DEF KnownAt, HandedAt, SharedPoints
<1>5. CASE db' = db /\ Back(w)
  BY <1>1, <1>5, Denied
<1>6. CASE db' = db /\ Go(w, "reviewEvent") /\ ~Approved(c)
  <2>1. KnownAt(w, "leave")
    BY <1>2, LeaveKnown
  <2>2. KnownAt(w, "reviewEvent")
    BY <1>3, <1>4, <1>6, <2>1, PublishKnown
       DEF KindAt, PublishedAt, HandedAt, SavePoints, ResolvePoints, StagePoints, ProjectPoints,
           HandoffPoints, SharedPoints
  <2>3. "reviewEvent" \in Points
    BY DEF Points
  <2> QED BY <1>1, <1>2, <1>6, <2>2, <2>3, GoesOn
<1>7. CASE Approved(c) /\ WriteAudit(w, "approved", "repair")
  <2>1. "repair" \in Points
    BY DEF Points
  <2>2. CASE /\ Stored' /\ Unless("audits") /\ Moves(w, "repair") /\ KnownAt(w, "leave")'
             /\ HasAudit(d, "approved")'
             /\ \A k \in {"approved", "handoff"} : HasAudit(d, k) => HasAudit(d, k)'
             /\ D(w)' = d /\ Cand(w)' = c /\ Kind(w)' = Kind(w) /\ task'[w].seen = task[w].seen
    <3>1. IsCurrent(d)'
      BY <1>2, <1>3, <2>2, HistoryKept DEF Unless
    <3>2. PublishedAt(w, "repair")'
      BY <1>3, <1>7, <2>2 DEF PublishedAt, Unless, HasAudit, ProjectPoints
    <3>3. HandedAt(w, "repair")'
      BY <1>4, <2>2 DEF HandedAt, Unless, HasAudit
    <3>4. KindAt(w, "repair")'
      BY <1>3, <2>2 DEF KindAt, SavePoints, ResolvePoints, StagePoints, ProjectPoints,
         HandoffPoints, SharedPoints
    <3>5. KnownAt(w, "repair")'
      BY <2>2, <3>1, <3>2, <3>3, <3>4, ProjectNext DEF SharedPoints
    <3> QED BY <1>1, <1>2, <2>2, <3>5, GrowsUnless, Writes
  <2> QED BY <1>1, <1>3, <1>7, <2>1, <2>2, AuditWritten
<1> QED BY <1>5, <1>6, <1>7 DEF Publish

LEMMA RepairKept ==
  ASSUME IInv, NEW w \in Worker, Repair(w)
  PROVE  IInv'
<1>1. At(w, "repair") /\ lock' = lock
  BY DEF Repair
<1>2. KnownAt(w, "repair") /\ lock = w /\ D(w) \in Draft /\ Stored /\ Cand(w) \in Decision \cup {None}
  BY <1>1, Inside
<1> PICK d \in Draft : d = D(w)
  BY <1>2
<1>3. /\ Cand(w) # None /\ db.aggregates[d] = Cand(w) /\ IsCurrent(d) /\ Approved(Cand(w))
      /\ HasAudit(d, "approved") /\ Kind(w) # "save"
  BY <1>2 DEF KnownAt, PublishedAt, CurrentAt, KindAt, SharedPoints
<1> PICK c \in Decision : c = Cand(w)
  BY <1>2, <1>3
<1>4. /\ Kind(w) = "handoff" => task[w].seen = db.case /\ HasAudit(d, "handoff")
      /\ Kind(w) = "get" => d \in db.handoffs
      /\ Kind(w) \in {"decide", "handoff", "get"}
  BY <1>1, <1>2, <1>3, Inside DEF KnownAt, HandedAt, SharedPoints
<1>5. db.approvals[d] = c /\ db.offers[d] = c
  BY <1>2, <1>3 DEF Stored, DbInv, Projected
<1>6. Inserted(db.approvals[d], c) = c /\ Inserted(db.offers[d], c) = c
  BY <1>5 DEF Inserted
<1>7. db' = db
  <2>1. db' = [db EXCEPT !.approvals[d] = c, !.offers[d] = c]
    BY <1>6 DEF Repair
  <2> QED BY <1>2, <1>5, <2>1 DEF Stored, DbShape, Rows
<1>8. KnownAt(w, "leave")
  BY <1>2, LeaveKnown
<1>9. CASE Kind(w) = "decide" /\ Go(w, "reviewEvent")
  <2>1. KnownAt(w, "reviewEvent")
    BY <1>3, <1>8, <1>9, PublishKnown
       DEF KindAt, PublishedAt, HandedAt, SavePoints, ResolvePoints, StagePoints, ProjectPoints,
           HandoffPoints, SharedPoints
  <2>2. "reviewEvent" \in Points
    BY DEF Points
  <2> QED BY <1>1, <1>2, <1>7, <1>9, <2>1, <2>2, GoesOn
<1>10. CASE Kind(w) = "handoff" /\ Go(w, "insertHandoff")
  <2>1. KnownAt(w, "insertHandoff")
    BY <1>3, <1>4, <1>8, <1>10, HandoffKnown
       DEF PublishedAt, HandedAt, ProjectPoints, HandoffPoints, SharedPoints
  <2>2. "insertHandoff" \in Points
    BY DEF Points
  <2> QED BY <1>1, <1>2, <1>7, <1>10, <2>1, <2>2, GoesOn
<1>11. CASE Kind(w) = "get" /\ Answer(w, "ok")
  <2>1. Done(w)
    BY <1>4, <1>11 DEF Done
  <2> QED BY <1>1, <1>7, <1>11, <2>1, Granted
<1> QED BY <1>4, <1>6, <1>9, <1>10, <1>11 DEF Repair, Kind

\* What a request that publishes knows.
LEMMA Projecting ==
  ASSUME NEW w \in Worker, NEW x \in ProjectPoints, KnownAt(w, x)
  PROVE  /\ Kind(w) = "decide" /\ IsCurrent(D(w)) /\ Cand(w) # None
         /\ db.aggregates[D(w)] = Cand(w) /\ SameDecision(Cand(w), task[w].job.decision)
<1>1. x # "idle"
  BY DEF ProjectPoints
<1> QED BY <1>1 DEF KnownAt, KindAt, CurrentAt, PublishedAt, JobAt

\* The event of a decision is there once it is appended, and agrees with the decision.
LEMMA Appended ==
  ASSUME Stored, NEW w \in Worker, NEW kind \in {"review_decision", "approval", "result"},
         AppendEvent(w, kind), NEW d \in Draft, d = D(w), NEW c \in Decision, c = Cand(w),
         db.aggregates[d] = c, kind \in {"approval", "result"} => Approved(c) /\ IsCurrent(d)
  PROVE  /\ Stored' /\ HasEvent(d, kind)' /\ ~Contradicted(w, kind)
         /\ db'.drafts = db.drafts /\ db'.approvals = db.approvals /\ db'.offers = db.offers
         /\ db'.aggregates = db.aggregates /\ db'.handoffs = db.handoffs
         /\ db'.audits = db.audits /\ db'.case = db.case
         /\ \A e, k : HasEvent(e, k) => HasEvent(e, k)'
         /\ \A e, k : k # kind => (HasEvent(e, k)' => HasEvent(e, k))
         /\ \A e : (Linked(e) => Linked(e)') /\ (IsCurrent(e) => IsCurrent(e)')
<1>1. ~Contradicted(w, kind)
  BY DEF Contradicted, EventsOf, Stored, DbInv, EventsDecided
<1>2. CASE EventsOf(d, kind) = {}
  <2> DEFINE n == Event(kind, d, c)
  <2>1. db' = [db EXCEPT !.events = @ \cup {n}]
    BY <1>2 DEF AppendEvent
  <2>2. Stored' /\ HasEvent(d, kind)'
    BY <2>1, DecisionLogged, OfferAssumption
  <2>3. /\ db'.events = db.events \cup {n}
        /\ db'.drafts = db.drafts /\ db'.approvals = db.approvals /\ db'.offers = db.offers
        /\ db'.aggregates = db.aggregates /\ db'.handoffs = db.handoffs
        /\ db'.audits = db.audits /\ db'.case = db.case
    BY <2>1 DEF Stored, DbShape
  <2>4. n.kind = kind
    BY DEF Event
  <2> HIDE DEF n
  <2>5. \A e \in db.events \cup db'.events :
          e.kind = "draft_created" => (e \in db'.events <=> e \in db.events)
    BY <2>3, <2>4
  <2>6. \A e : (Linked(e) => Linked(e)') /\ (IsCurrent(e) => IsCurrent(e)')
    BY <2>5, SameHistory
  <2>7. /\ \A e, k : HasEvent(e, k) => HasEvent(e, k)'
        /\ \A e, k : k # kind => (HasEvent(e, k)' => HasEvent(e, k))
    BY <2>3, <2>4 DEF HasEvent, EventsOf
  <2> QED BY <1>1, <2>2, <2>3, <2>6, <2>7
<1>3. CASE EventsOf(d, kind) # {}
  <2>1. db' = db
    BY <1>3 DEF AppendEvent
  <2> QED BY <1>1, <1>3, <2>1, SameStored, SameViews DEF HasEvent
<1> QED BY <1>2, <1>3

LEMMA ReviewEventKept ==
  ASSUME IInv, NEW w \in Worker, ReviewEvent(w)
  PROVE  IInv'
<1>1. At(w, "reviewEvent") /\ lock' = lock /\ AppendEvent(w, "review_decision")
  BY DEF ReviewEvent
<1>2. KnownAt(w, "reviewEvent") /\ lock = w /\ D(w) \in Draft /\ Stored /\ Cand(w) \in Decision \cup {None}
  BY <1>1, Inside
<1> PICK d \in Draft : d = D(w)
  BY <1>2
<1>3. /\ Kind(w) = "decide" /\ IsCurrent(d) /\ Cand(w) # None /\ db.aggregates[d] = Cand(w)
      /\ SameDecision(Cand(w), task[w].job.decision)
  BY <1>2, Projecting DEF ProjectPoints
<1> PICK c \in Decision : c = Cand(w)
  BY <1>2, <1>3
<1>4. Approved(c) => HasAudit(d, "approved")
  BY <1>2 DEF KnownAt, PublishedAt
<1>5. /\ Stored' /\ HasEvent(d, "review_decision")' /\ ~Contradicted(w, "review_decision")
      /\ db'.aggregates = db.aggregates /\ db'.handoffs = db.handoffs /\ db'.audits = db.audits
      /\ HasEvent(d, "result")' => HasEvent(d, "result")
      /\ IsCurrent(d)'
      /\ \A e \in Draft : Linked(e) => Linked(e)'
  BY <1>1, <1>2, <1>3, Appended
<1>6. DbGrows
  BY <1>5 DEF DbGrows
<1>7. CASE Approved(c) /\ Go(w, "approvalEvent")
  <2>1. Moves(w, "approvalEvent") /\ SameTask(w)
    BY <1>7, Goes DEF IInv, Points
  <2>2. KnownAt(w, "leave")' /\ D(w)' = d /\ Cand(w)' = c /\ Kind(w)' = "decide"
    BY <1>2, <1>3, <1>5, <1>6, <2>1, LeaveNext, SameRequest
  <2>3. PublishedAt(w, "approvalEvent")'
    BY <1>3, <1>4, <1>5, <1>7, <2>2 DEF PublishedAt, HasAudit, HasEvent, EventsOf
  <2>4. KindAt(w, "approvalEvent")' /\ HandedAt(w, "approvalEvent")'
    BY <2>2 DEF KindAt, HandedAt, SavePoints, ResolvePoints, StagePoints, ProjectPoints,
                HandoffPoints, SharedPoints
  <2>5. KnownAt(w, "approvalEvent")'
    BY <1>5, <2>2, <2>3, <2>4, ProjectNext DEF ProjectPoints
  <2> QED BY <1>1, <1>2, <1>5, <1>6, <2>1, <2>5, Writes
<1>8. CASE ~Approved(c) /\ Answer(w, "ok")
  <2>1. Moves(w, "leave") /\ SameTask(w)
    BY <1>8, Answers DEF IInv
  <2>2. KnownAt(w, "leave")' /\ D(w)' = d /\ Kind(w)' = "decide" /\ task'[w].job = task[w].job
    BY <1>2, <1>3, <1>5, <1>6, <2>1, LeaveNext, SameRequest
  <2>3. ~Approved(task[w].job.decision) /\ SameDecision(db'.aggregates[d], task[w].job.decision)
    BY <1>3, <1>5, <1>8 DEF SameDecision, Approved
  <2>4. Done(w)'
    BY <1>3, <1>5, <2>2, <2>3 DEF Done, HasEvent, EventsOf
  <2> QED BY <1>1, <1>2, <1>5, <1>6, <2>1, <2>2, <2>4, Writes
<1> QED BY <1>5, <1>7, <1>8 DEF ReviewEvent

LEMMA ApprovalEventKept ==
  ASSUME IInv, NEW w \in Worker, ApprovalEvent(w)
  PROVE  IInv'
<1>1. At(w, "approvalEvent") /\ lock' = lock /\ AppendEvent(w, "approval")
  BY DEF ApprovalEvent
<1>2. KnownAt(w, "approvalEvent") /\ lock = w /\ D(w) \in Draft /\ Stored /\ Cand(w) \in Decision \cup {None}
  BY <1>1, Inside
<1> PICK d \in Draft : d = D(w)
  BY <1>2
<1>3. /\ Kind(w) = "decide" /\ IsCurrent(d) /\ Cand(w) # None /\ db.aggregates[d] = Cand(w)
  BY <1>2, Projecting DEF ProjectPoints
<1> PICK c \in Decision : c = Cand(w)
  BY <1>2, <1>3
<1>4. Approved(c) /\ HasAudit(d, "approved") /\ HasEvent(d, "review_decision")
  BY <1>2 DEF KnownAt, PublishedAt
<1>5. /\ Stored' /\ HasEvent(d, "approval")' /\ ~Contradicted(w, "approval")
      /\ db'.aggregates = db.aggregates /\ db'.handoffs = db.handoffs /\ db'.audits = db.audits
      /\ HasEvent(d, "result")' => HasEvent(d, "result")
      /\ HasEvent(d, "review_decision") => HasEvent(d, "review_decision")'
      /\ IsCurrent(d)'
      /\ \A e \in Draft : Linked(e) => Linked(e)'
  BY <1>1, <1>2, <1>3, <1>4, Appended
<1>6. DbGrows
  BY <1>5 DEF DbGrows
<1>7. Go(w, "linkCase")
  BY <1>5 DEF ApprovalEvent
<1>8. Moves(w, "linkCase") /\ SameTask(w)
  BY <1>7, Goes DEF IInv, Points
<1>9. KnownAt(w, "leave")' /\ D(w)' = d /\ Cand(w)' = c /\ Kind(w)' = "decide"
  BY <1>2, <1>3, <1>5, <1>6, <1>8, LeaveNext, SameRequest
<1>10. PublishedAt(w, "linkCase")'
  BY <1>3, <1>4, <1>5, <1>9 DEF PublishedAt, HasAudit, HasEvent, EventsOf
<1>11. KindAt(w, "linkCase")' /\ HandedAt(w, "linkCase")'
  BY <1>9 DEF KindAt, HandedAt, SavePoints, ResolvePoints, StagePoints, ProjectPoints,
              HandoffPoints, SharedPoints
<1>12. KnownAt(w, "linkCase")'
  BY <1>5, <1>9, <1>10, <1>11, ProjectNext DEF ProjectPoints
<1> QED BY <1>1, <1>2, <1>5, <1>6, <1>8, <1>12, Writes

\* The case after a link, whether or not the caller hears of it.
LEMMA CaseLinked ==
  ASSUME Stored, NEW d \in Draft, db.case.offer \in {None, d}, IsCurrent(d),
         db.aggregates[d] # None, Approved(db.aggregates[d]),
         db' = [db EXCEPT !.case.offer = d]
  PROVE  Stored' /\ Unless("case") /\ db'.case.offer = d
<1> PICK c : c = [db.case EXCEPT !.offer = d]
  OBVIOUS
<1>1. db.case \in Case
  BY FieldTypes DEF Stored, DbFields
<1>2. c \in Case /\ c.offer = d /\ c.handoff = db.case.handoff
  BY <1>1 DEF Case
<1>3. c.handoff # None => c.offer = c.handoff
  BY <1>2 DEF Stored, DbInv, CaseDecided
<1>4. db' = [db EXCEPT !.case = c]
  BY DEF Stored, DbShape
<1>5. Stored' /\ Unless("case") /\ db'.case = c
  BY <1>2, <1>3, <1>4, CaseWritten
<1> QED BY <1>2, <1>5

LEMMA LinkCaseKept ==
  ASSUME IInv, NEW w \in Worker, LinkCase(w)
  PROVE  IInv'
<1>1. At(w, "linkCase") /\ lock' = lock
  BY DEF LinkCase
<1>2. KnownAt(w, "linkCase") /\ lock = w /\ D(w) \in Draft /\ Stored
  BY <1>1, Inside
<1> PICK d \in Draft : d = D(w)
  BY <1>2
<1>3. /\ Kind(w) = "decide" /\ IsCurrent(d) /\ Cand(w) # None /\ db.aggregates[d] = Cand(w)
      /\ SameDecision(Cand(w), task[w].job.decision)
  BY <1>2, Projecting DEF ProjectPoints
<1>4. /\ Approved(Cand(w)) /\ HasAudit(d, "approved") /\ HasEvent(d, "review_decision")
      /\ HasEvent(d, "approval")
  BY <1>2 DEF KnownAt, PublishedAt
<1>5. CASE db' = db /\ Back(w)
  BY <1>1, <1>5, Denied
<1>6. CASE /\ db.case.offer \in {None, d} /\ db' = [db EXCEPT !.case.offer = d]
           /\ Answer(w, "ok")
  <2>1. Moves(w, "leave") /\ SameTask(w)
    BY <1>6, Answers DEF IInv
  <2>2. Stored' /\ Unless("case") /\ db'.case.offer = d
    BY <1>2, <1>3, <1>4, <1>6, CaseLinked
  <2>3. KnownAt(w, "leave")' /\ D(w)' = d /\ Kind(w)' = "decide" /\ task'[w].job = task[w].job
    BY <1>2, <1>3, <2>1, <2>2, LeaveUnless, SameRequest
  <2>4. HasAudit(d, "approved")' /\ HasEvent(d, "review_decision")' /\ HasEvent(d, "approval")'
        /\ db'.aggregates = db.aggregates
    BY <1>2, <1>4, <2>2, HistoryKept DEF Unless, HasAudit
  <2>5. Done(w)'
    BY <1>3, <2>2, <2>3, <2>4 DEF Done, HasEvent, HasAudit, EventsOf
  <2> QED BY <1>1, <1>2, <2>1, <2>2, <2>3, <2>5, GrowsUnless, Writes
<1> QED BY <1>5, <1>6 DEF LinkCase

-------------------------------------------------------------------------------
(* The hand-over *)

\* What a request that hands over knows, and one that reads a hand-over.
LEMMA Handing ==
  ASSUME NEW w \in Worker, NEW x \in HandoffPoints, KnownAt(w, x)
  PROVE  /\ Kind(w) = "handoff" /\ Cand(w) # None /\ db.aggregates[D(w)] = Cand(w)
         /\ Approved(Cand(w)) /\ KnownAt(w, "leave")
         /\ x # "verify" => IsCurrent(D(w)) /\ task[w].seen = db.case
         /\ x \notin {"verify", "auditHandoff"} =>
              HasAudit(D(w), "approved") /\ HasAudit(D(w), "handoff")
<1>1. x # "idle"
  BY DEF HandoffPoints
<1>2. KnownAt(w, "leave")
  BY <1>1, LeaveKnown
<1>3. /\ Kind(w) = "handoff" /\ Cand(w) # None /\ db.aggregates[D(w)] = Cand(w)
      /\ Approved(Cand(w))
  BY <1>1 DEF KnownAt, KindAt, JobAt
<1>4. x # "verify" => IsCurrent(D(w)) /\ task[w].seen = db.case
  BY <1>3 DEF KnownAt, CurrentAt, HandedAt
<1>5. x \notin {"verify", "auditHandoff"} => HasAudit(D(w), "approved") /\ HasAudit(D(w), "handoff")
  BY <1>3 DEF KnownAt, PublishedAt, HandedAt, HandoffPoints
<1> QED BY <1>2, <1>3, <1>4, <1>5

LEMMA VerifyKept ==
  ASSUME IInv, NEW w \in Worker, Verify(w)
  PROVE  IInv'
<1>1. At(w, "verify") /\ lock' = lock /\ db' = db
  BY DEF Verify
<1>2. KnownAt(w, "verify") /\ lock = w /\ D(w) \in Draft /\ Stored
  BY <1>1, Inside
<1> PICK d \in Draft : d = D(w)
  BY <1>2
<1>3. CASE Answer(w, "no")
  BY <1>1, <1>3, Denied
<1>4. CASE /\ IsCurrent(d) /\ task' = [task EXCEPT ![w].pc = "auditHandoff", ![w].seen = db.case]
  <2>1. TaskShape /\ "auditHandoff" \in Points /\ db.case \in Case
    BY <1>2, FieldTypes DEF IInv, Points, Stored, DbFields
  <2> PICK s \in Decision \cup {None} \cup Case : s = db.case
    BY <2>1
  <2>2. /\ Moves(w, "auditHandoff") /\ task'[w].seen = s /\ task'[w].job = task[w].job
        /\ task'[w].cand = task[w].cand /\ task'[w].made = task[w].made
    BY <1>4, <2>1, NotesWhat
  <2>3. D(w)' = d /\ Kind(w)' = Kind(w)
    BY <2>2 DEF D, Kind
  <2>4. Kind(w) = "handoff" /\ KnownAt(w, "leave")
    BY <1>2, Handing DEF HandoffPoints
  <2>5. DbGrows /\ IsCurrent(d)'
    BY <1>1, <1>4, SameViews DEF DbGrows
  <2>7. KnownAt(w, "leave")'
    BY <1>2, <2>2, <2>5, LeaveMakes
  <2>8. /\ KindAt(w, "auditHandoff")' /\ PublishedAt(w, "auditHandoff")'
        /\ HandedAt(w, "auditHandoff")'
    BY <1>1, <2>2, <2>3, <2>4
       DEF KindAt, PublishedAt, HandedAt, SavePoints, ResolvePoints, StagePoints, ProjectPoints,
           HandoffPoints, SharedPoints
  <2>9. KnownAt(w, "auditHandoff")'
    BY <2>3, <2>5, <2>7, <2>8, ProjectNext DEF HandoffPoints
  <2> QED BY <1>1, <1>2, <2>2, <2>9, Notes
<1> QED BY <1>3, <1>4 DEF Verify

LEMMA AuditHandoffKept ==
  ASSUME IInv, NEW w \in Worker, AuditHandoff(w)
  PROVE  IInv'
<1>1. At(w, "auditHandoff") /\ lock' = lock /\ WriteAudit(w, "handoff", "publish")
  BY DEF AuditHandoff
<1>2. KnownAt(w, "auditHandoff") /\ lock = w /\ D(w) \in Draft /\ Stored /\ Cand(w) \in Decision \cup {None}
  BY <1>1, Inside
<1> PICK d \in Draft : d = D(w)
  BY <1>2
<1>3. /\ Kind(w) = "handoff" /\ Cand(w) # None /\ db.aggregates[d] = Cand(w) /\ Approved(Cand(w))
      /\ IsCurrent(d) /\ task[w].seen = db.case
  BY <1>2, Handing DEF HandoffPoints
<1> PICK c \in Decision : c = Cand(w)
  BY <1>2, <1>3
<1>4. "publish" \in Points
  BY DEF Points
<1>5. CASE /\ Stored' /\ Unless("audits") /\ Moves(w, "publish") /\ KnownAt(w, "leave")'
           /\ HasAudit(d, "handoff")'
           /\ D(w)' = d /\ Cand(w)' = c /\ Kind(w)' = Kind(w) /\ task'[w].seen = task[w].seen
  <2>1. IsCurrent(d)'
    BY <1>2, <1>3, <1>5, HistoryKept DEF Unless
  <2>2. PublishedAt(w, "publish")'
    BY <1>3, <1>5 DEF PublishedAt, Unless, ProjectPoints
  <2>3. HandedAt(w, "publish")'
    BY <1>3, <1>5 DEF HandedAt, Unless, HasAudit
  <2>4. KindAt(w, "publish")'
    BY <1>3, <1>5 DEF KindAt, SavePoints, ResolvePoints, StagePoints, ProjectPoints,
                      HandoffPoints, SharedPoints
  <2>5. KnownAt(w, "publish")'
    BY <1>5, <2>1, <2>2, <2>3, <2>4, ProjectNext DEF SharedPoints
  <2> QED BY <1>1, <1>2, <1>5, <2>5, GrowsUnless, Writes
<1> QED BY <1>1, <1>3, <1>4, <1>5, AuditWritten

\* What is made last stands before what was made earlier.
LEMMA MadeLast ==
  ASSUME NEW m \in Things, NEW thing \in Thing
  PROVE  LET n == <<thing>> \o m IN
         /\ n \in Things /\ Len(n) = Len(m) + 1 /\ n[1] = thing
         /\ \A i \in 2 .. Len(n) : i - 1 \in 1 .. Len(m) /\ n[i] = m[i - 1]
         /\ \A j \in 1 .. Len(m) : n[j + 1] = m[j]
BY DEF Things

LEMMA InsertHandoffKept ==
  ASSUME IInv, NEW w \in Worker, InsertHandoff(w)
  PROVE  IInv'
<1>1. At(w, "insertHandoff") /\ lock' = lock
  BY DEF InsertHandoff
<1>2. KnownAt(w, "insertHandoff") /\ lock = w /\ D(w) \in Draft /\ Stored
  BY <1>1, Inside
<1> PICK d \in Draft : d = D(w)
  BY <1>2
<1>3. /\ Kind(w) = "handoff" /\ Cand(w) # None /\ db.aggregates[d] = Cand(w) /\ Approved(Cand(w))
      /\ IsCurrent(d) /\ task[w].seen = db.case /\ HasAudit(d, "approved") /\ HasAudit(d, "handoff")
  BY <1>2, Handing DEF HandoffPoints
<1> PICK m : m = IF d \in db.handoffs THEN task[w].made ELSE <<"record">> \o task[w].made
  OBVIOUS
<1>4. m \in Things /\ task[w].made \in Things /\ TaskShape
  <2>1. task[w].made \in Things /\ TaskShape
    BY DEF IInv, TaskShape, TaskSet
  <2> QED BY <2>1, MadeLast DEF Thing
<1>5. task' = [task EXCEPT ![w].pc = "resultEvent", ![w].made = m]
  BY <1>4 DEF InsertHandoff, TaskShape
<1>6. /\ Moves(w, "resultEvent") /\ task'[w].made = m /\ task'[w].job = task[w].job
      /\ task'[w].cand = task[w].cand /\ task'[w].seen = task[w].seen
  <2>1. "resultEvent" \in Points
    BY DEF Points
  <2> QED BY <1>4, <1>5, <2>1, Makes
<1>7. D(w)' = d /\ Kind(w)' = Kind(w) /\ Cand(w)' = Cand(w)
  BY <1>6 DEF D, Kind, Cand
<1>8. Stored' /\ Unless("handoffs") /\ db'.handoffs = db.handoffs \cup {d}
  <2>1. db' = [db EXCEPT !.handoffs = @ \cup {d}]
    BY DEF InsertHandoff
  <2> QED BY <1>2, <1>3, <2>1, HandoffAdded
<1>9. IsCurrent(d)' /\ DbGrows
  BY <1>2, <1>3, <1>8, HistoryKept, GrowsUnless DEF Unless
<1>11. KnownAt(w, "leave")'
  BY <1>2, <1>6, <1>9, LeaveMakes
<1>12. HasAudit(d, "approved")' /\ HasAudit(d, "handoff")'
  BY <1>3, <1>8 DEF Unless, HasAudit
<1>13. PublishedAt(w, "resultEvent")'
  BY <1>7, <1>12 DEF PublishedAt, HasAudit, SharedPoints, ProjectPoints
<1>14. HandedAt(w, "resultEvent")'
  BY <1>3, <1>6, <1>7, <1>8, <1>12 DEF HandedAt, HasAudit, Unless, SharedPoints
<1>15. KindAt(w, "resultEvent")'
  BY <1>3, <1>7 DEF KindAt, SavePoints, ResolvePoints, StagePoints, ProjectPoints,
                    HandoffPoints, SharedPoints
<1>16. KnownAt(w, "resultEvent")'
  BY <1>7, <1>9, <1>11, <1>13, <1>14, <1>15, ProjectNext DEF HandoffPoints
<1> QED BY <1>1, <1>2, <1>6, <1>8, <1>9, <1>16, Writes

LEMMA ResultEventKept ==
  ASSUME IInv, NEW w \in Worker, ResultEvent(w)
  PROVE  IInv'
<1>1. At(w, "resultEvent") /\ lock' = lock /\ AppendEvent(w, "result")
  BY DEF ResultEvent
<1>2. KnownAt(w, "resultEvent") /\ lock = w /\ D(w) \in Draft /\ Stored /\ Cand(w) \in Decision \cup {None}
  BY <1>1, Inside
<1> PICK d \in Draft : d = D(w)
  BY <1>2
<1>3. /\ Kind(w) = "handoff" /\ Cand(w) # None /\ db.aggregates[d] = Cand(w) /\ Approved(Cand(w))
      /\ IsCurrent(d) /\ task[w].seen = db.case /\ HasAudit(d, "approved") /\ HasAudit(d, "handoff")
  BY <1>2, Handing DEF HandoffPoints
<1>4. d \in db.handoffs
  BY <1>2 DEF KnownAt, HandedAt
<1> PICK c \in Decision : c = Cand(w)
  BY <1>2, <1>3
<1> PICK m : m = IF HasEvent(d, "result") THEN task[w].made ELSE <<"result">> \o task[w].made
  OBVIOUS
<1>5. m \in Things /\ task[w].made \in Things /\ TaskShape
  <2>1. task[w].made \in Things /\ TaskShape
    BY DEF IInv, TaskShape, TaskSet
  <2> QED BY <2>1, MadeLast DEF Thing
<1>6. task' = [task EXCEPT ![w].pc = "complete", ![w].made = m]
  BY <1>5 DEF ResultEvent, TaskShape, HasEvent
<1>7. /\ Moves(w, "complete") /\ task'[w].made = m /\ task'[w].job = task[w].job
      /\ task'[w].cand = task[w].cand /\ task'[w].seen = task[w].seen
  <2>1. "complete" \in Points
    BY DEF Points
  <2> QED BY <1>5, <1>6, <2>1, Makes
<1>8. D(w)' = d /\ Kind(w)' = Kind(w) /\ Cand(w)' = Cand(w)
  BY <1>7 DEF D, Kind, Cand
<1>9. /\ Stored' /\ HasEvent(d, "result")' /\ IsCurrent(d)'
      /\ db'.aggregates = db.aggregates /\ db'.handoffs = db.handoffs
      /\ db'.audits = db.audits /\ db'.case = db.case
      /\ \A e \in Draft : Linked(e) => Linked(e)'
  BY <1>1, <1>2, <1>3, <1>4, Appended
<1>10. DbGrows
  BY <1>9 DEF DbGrows
<1>12. KnownAt(w, "leave")'
  BY <1>2, <1>7, <1>10, LeaveMakes
<1>13. HasAudit(d, "approved")' /\ HasAudit(d, "handoff")'
  BY <1>3, <1>9 DEF HasAudit
<1>14. PublishedAt(w, "complete")'
  BY <1>8, <1>13 DEF PublishedAt, HasAudit, SharedPoints, ProjectPoints
<1>15. HandedAt(w, "complete")'
  BY <1>3, <1>4, <1>7, <1>8, <1>9, <1>13 DEF HandedAt, HasAudit, HasEvent, EventsOf, SharedPoints
<1>16. KindAt(w, "complete")'
  BY <1>3, <1>8 DEF KindAt, SavePoints, ResolvePoints, StagePoints, ProjectPoints,
                    HandoffPoints, SharedPoints
<1>17. KnownAt(w, "complete")'
  BY <1>8, <1>9, <1>12, <1>14, <1>15, <1>16, ProjectNext DEF HandoffPoints
<1> QED BY <1>1, <1>2, <1>7, <1>9, <1>10, <1>17, Writes

\* The case after a completion, whether or not the caller hears of it.
LEMMA CaseCompleted ==
  ASSUME Stored, NEW d \in Draft, IsCurrent(d), db.aggregates[d] # None,
         Approved(db.aggregates[d]), db' = [db EXCEPT !.case = CompletedCase(d)]
  PROVE  Stored' /\ Unless("case") /\ db'.case = CompletedCase(d)
<1> PICK c : c = CompletedCase(d)
  OBVIOUS
<1>1. c \in Case /\ c.offer = d /\ c.handoff = d
  BY DEF CompletedCase, Case
<1> QED BY <1>1, CaseWritten

LEMMA CompleteKept ==
  ASSUME IInv, NEW w \in Worker, Complete(w)
  PROVE  IInv'
<1>1. At(w, "complete") /\ lock' = lock
  BY DEF Complete
<1>2. KnownAt(w, "complete") /\ lock = w /\ D(w) \in Draft /\ Stored
  BY <1>1, Inside
<1> PICK d \in Draft : d = D(w)
  BY <1>2
<1>3. /\ Kind(w) = "handoff" /\ Cand(w) # None /\ db.aggregates[d] = Cand(w) /\ Approved(Cand(w))
      /\ IsCurrent(d) /\ task[w].seen = db.case
  BY <1>2, Handing DEF HandoffPoints
<1>4. Evidenced(d)
  <2>1. HasEvent(d, "result") /\ d \in db.handoffs
    BY <1>2 DEF KnownAt, HandedAt
  <2>2. HasAudit(d, "approved") /\ HasAudit(d, "handoff")
    BY <1>2, Handing DEF HandoffPoints
  <2> QED BY <2>1, <2>2 DEF Evidenced
<1>5. CASE db' = db /\ Answer(w, "ok") /\ db.case.handoff = d /\ db.case.status = "completed"
  <2>1. db.case \in Case
    BY <1>2, FieldTypes DEF Stored, DbFields
  <2>2. db.case.offer = d
    BY <1>2, <1>5, OfferAssumption DEF Stored, DbInv, CaseDecided
  <2>3. db.case = CompletedCase(d)
    BY <1>5, <2>1, <2>2 DEF Case, CompletedCase
  <2>4. Done(w)
    BY <1>3, <1>4, <2>3 DEF Done
  <2> QED BY <1>1, <1>5, <2>4, Granted
<1>6. CASE db' = [db EXCEPT !.case = CompletedCase(d)] /\ Answer(w, "ok")
  <2>1. Moves(w, "leave") /\ SameTask(w)
    BY <1>6, Answers DEF IInv
  <2>2. Stored' /\ Unless("case") /\ db'.case = CompletedCase(d)
    BY <1>2, <1>3, <1>6, CaseCompleted
  <2>3. KnownAt(w, "leave")' /\ D(w)' = d /\ Kind(w)' = "handoff"
    BY <1>2, <1>3, <2>1, <2>2, LeaveUnless, SameRequest
  <2>4. Evidenced(d)'
    BY <1>2, <1>4, <2>2, HistoryKept DEF Unless, Evidenced, HasAudit
  <2>5. Done(w)'
    BY <2>2, <2>3, <2>4 DEF Done, CompletedCase, Evidenced, HasAudit, HasEvent, EventsOf
  <2> QED BY <1>1, <1>2, <2>1, <2>2, <2>3, <2>5, GrowsUnless, Writes
<1>7. CASE db' = db /\ Back(w)
  BY <1>1, <1>7, Denied
<1> QED BY <1>3, <1>5, <1>6, <1>7 DEF Complete

LEMMA RereadKept ==
  ASSUME IInv, NEW w \in Worker, Reread(w)
  PROVE  IInv'
<1>1. At(w, "reread") /\ lock' = lock /\ db' = db
  BY DEF Reread
<1>2. KnownAt(w, "reread") /\ lock = w /\ D(w) \in Draft
  BY <1>1, Inside
<1>3. CASE Answer(w, "no")
  BY <1>1, <1>3, Denied
<1>4. CASE IsCurrent(D(w)) /\ D(w) \in db.handoffs /\ Go(w, "publish")
  <2>1. KnownAt(w, "leave")
    BY <1>2, LeaveKnown
  <2>2. Kind(w) = "get" /\ Cand(w) # None /\ db.aggregates[D(w)] = Cand(w)
    BY <1>2 DEF KnownAt, KindAt, JobAt
  <2>3. KnownAt(w, "publish")
    BY <1>4, <2>1, <2>2, PublishKnown
       DEF KindAt, PublishedAt, HandedAt, SavePoints, ResolvePoints, StagePoints, ProjectPoints,
           HandoffPoints, SharedPoints
  <2>4. "publish" \in Points
    BY DEF Points
  <2> QED BY <1>1, <1>2, <1>4, <2>3, <2>4, GoesOn
<1> QED BY <1>3, <1>4 DEF Reread

-------------------------------------------------------------------------------
(* Failures *)

\* The last thing made is taken back.
LEMMA ThingUndone ==
  ASSUME Stored, NEW d \in Draft, NEW thing \in Thing, NEW of,
         db' = CASE thing = "result" -> [db EXCEPT !.events = @ \ EventsOf(d, "result")]
                 [] thing = "record" -> [db EXCEPT !.handoffs = @ \ {d}]
                 [] thing \in {"approved", "handoff"} ->
                      [db EXCEPT !.audits = @ \ {Audit(thing, d, of)}]
  PROVE  Stored' /\ DbGrows
<1>1. CASE thing = "result"
  <2>1. db' = [db EXCEPT !.events = @ \ EventsOf(d, "result")]
    BY <1>1
  <2>2. /\ db'.events = db.events \ EventsOf(d, "result")
        /\ db'.aggregates = db.aggregates /\ db'.handoffs = db.handoffs
    BY <2>1 DEF Stored, DbShape
  <2>3. \A e \in db.events \cup db'.events :
          e.kind = "draft_created" => (e \in db'.events <=> e \in db.events)
    BY <2>2 DEF EventsOf
  <2>4. DbGrows
    BY <2>2, <2>3, SameHistory DEF DbGrows
  <2> QED BY <2>1, <2>4, ResultsRemoved
<1>2. CASE thing = "record"
  <2>1. db' = [db EXCEPT !.handoffs = @ \ {d}]
    BY <1>2
  <2>2. Stored' /\ Unless("handoffs") /\ db'.handoffs = db.handoffs \ {d}
    BY <1>2, <2>1, HandoffRemoved
  <2> QED BY <2>2, GrowsUnless
<1>3. CASE thing \in {"approved", "handoff"}
  <2>1. db' = [db EXCEPT !.audits = @ \ {Audit(thing, d, of)}]
    BY <1>3
  <2>2. Stored' /\ Unless("audits")
    BY <1>3, <2>1, AuditRemoved
  <2> QED BY <2>2, GrowsUnless
<1> QED BY <1>1, <1>2, <1>3 DEF Thing

LEMMA UndoKept ==
  ASSUME IInv, NEW w \in Worker, Undo(w)
  PROVE  IInv'
<1>1. At(w, "undo") /\ lock' = lock
  BY DEF Undo
<1>2. KnownAt(w, "undo") /\ lock = w /\ D(w) \in Draft /\ Stored
  BY <1>1, Inside
<1> PICK d \in Draft : d = D(w)
  BY <1>2
<1>3. CASE db' = db /\ Answer(w, "no")
  BY <1>1, <1>3, Denied
<1>4. CASE /\ task[w].made # <<>> /\ db' = Without(Head(task[w].made), w)
           /\ task' = [task EXCEPT ![w].made = Tail(@)]
  <2> PICK m : m = task[w].made
    OBVIOUS
  <2> PICK n : n = Tail(m)
    OBVIOUS
  <2>1. TaskShape /\ task[w] \in TaskSet /\ m \in Things
    BY DEF IInv, TaskShape, TaskSet
  <2>2. /\ Len(m) \in Nat /\ 1 \in 1 .. Len(m) /\ Head(m) = m[1] /\ m[1] \in Thing
        /\ n \in Things /\ Len(n) = Len(m) - 1
        /\ \A i \in 1 .. Len(n) : n[i] = m[i + 1]
    BY <1>4, <2>1 DEF Things
  <2>3. /\ Moves(w, "undo") /\ task'[w].made = n /\ task'[w].job = task[w].job
        /\ task'[w].cand = task[w].cand /\ task'[w].seen = task[w].seen
    <3>1. [task[w] EXCEPT !.pc = "undo"] = task[w]
      BY <1>1, <2>1 DEF TaskSet, At
    <3>2. task' = [task EXCEPT ![w] = [[task[w] EXCEPT !.pc = "undo"] EXCEPT !.made = n]]
      BY <1>4, <2>1, <3>1 DEF TaskShape
    <3>3. task' = [task EXCEPT ![w].pc = "undo", ![w].made = n]
      BY <2>1, <3>2 DEF TaskShape
    <3>4. "undo" \in Points
      BY DEF Points
    <3> QED BY <2>1, <2>2, <3>3, <3>4, Makes
  <2>6. Stored' /\ DbGrows
    <3> PICK thing \in Thing : thing = m[1]
      BY <2>2
    <3> PICK of : of = Cand(w)
      OBVIOUS
    <3>1. db' = CASE thing = "result" -> [db EXCEPT !.events = @ \ EventsOf(d, "result")]
                  [] thing = "record" -> [db EXCEPT !.handoffs = @ \ {d}]
                  [] thing \in {"approved", "handoff"} ->
                       [db EXCEPT !.audits = @ \ {Audit(thing, d, of)}]
      BY <1>4, <2>2 DEF Without
    <3> QED BY <1>2, <3>1, ThingUndone
  <2>9. KnownAt(w, "leave")'
    BY <1>2, <2>3, <2>6, LeaveMakes
  <2>10. KnownAt(w, "undo")'
    BY <2>9, PointNext
       DEF KindAt, AdmittedAt, CurrentAt, StagedAt, PublishedAt, HandedAt, SavePoints,
           ResolvePoints, StagePoints, ProjectPoints, HandoffPoints, SharedPoints
  <2> QED BY <1>1, <1>2, <2>3, <2>6, <2>10, Writes
<1> QED BY <1>3, <1>4 DEF Undo

LEMMA FailKept ==
  ASSUME IInv, NEW w \in Worker, Fail(w)
  PROVE  IInv'
<1> PICK x : At(w, x)
  BY DEF At
<1>1. lock = w /\ lock' = lock /\ db' = db /\ (Answer(w, "no") \/ Back(w))
  BY DEF Fail
<1>2. x \notin {"idle", "wait"}
  BY <1>1 DEF IInv, LockHeld, At
<1> QED BY <1>1, <1>2, Denied

\* A record is written, and the caller hears of an error.
LEMMA WrittenBack ==
  ASSUME IInv, NEW w \in Worker, NEW x, At(w, x), x \notin {"idle", "wait"}, lock' = lock, Back(w),
         Stored', DbGrows
  PROVE  IInv'
<1>1. KnownAt(w, x) /\ lock = w /\ Stored
  BY Inside
<1>2. Moves(w, "undo") /\ SameTask(w)
  BY Goes DEF Back, IInv, Points
<1>3. KnownAt(w, "leave")'
  BY <1>1, <1>2, LeaveNext
<1>4. KnownAt(w, "undo")'
  BY <1>3, PointNext
     DEF KindAt, AdmittedAt, CurrentAt, StagedAt, PublishedAt, HandedAt, SavePoints,
         ResolvePoints, StagePoints, ProjectPoints, HandoffPoints, SharedPoints
<1> QED BY <1>1, <1>2, <1>4, Writes

LEMMA LateUpdateKept ==
  ASSUME IInv, NEW w \in Worker, lock' = lock, Back(w), LateUpdate(w)
  PROVE  IInv'
<1>1. CASE At(w, "linkCase") /\ db.case.offer = None /\ db' = [db EXCEPT !.case.offer = D(w)]
  <2>1. KnownAt(w, "linkCase") /\ D(w) \in Draft /\ Stored
    BY <1>1, Inside
  <2> PICK d \in Draft : d = D(w)
    BY <2>1
  <2>2. IsCurrent(d) /\ Cand(w) # None /\ db.aggregates[d] = Cand(w) /\ Approved(Cand(w))
    BY <2>1, Projecting DEF ProjectPoints, KnownAt, PublishedAt
  <2>3. Stored' /\ Unless("case")
    BY <1>1, <2>1, <2>2, CaseLinked
  <2> QED BY <1>1, <2>1, <2>3, GrowsUnless, WrittenBack
<1>2. CASE At(w, "complete") /\ db' = [db EXCEPT !.case = CompletedCase(D(w))]
  <2>1. KnownAt(w, "complete") /\ D(w) \in Draft /\ Stored
    BY <1>2, Inside
  <2> PICK d \in Draft : d = D(w)
    BY <2>1
  <2>2. IsCurrent(d) /\ Cand(w) # None /\ db.aggregates[d] = Cand(w) /\ Approved(Cand(w))
    BY <2>1, Handing DEF HandoffPoints
  <2>3. Stored' /\ Unless("case")
    BY <1>2, <2>1, <2>2, CaseCompleted
  <2> QED BY <1>2, <2>1, <2>3, GrowsUnless, WrittenBack
<1>3. CASE At(w, "reopen") /\ db' = [db EXCEPT !.case = ReopenedCase(D(w))]
  <2>1. D(w) \in Draft /\ Stored
    BY <1>3, Inside
  <2> PICK d \in Draft : d = D(w)
    BY <2>1
  <2>2. Stored' /\ Unless("case")
    BY <1>3, <2>1, CaseReopened
  <2> QED BY <1>3, <2>1, <2>2, GrowsUnless, WrittenBack
<1> QED BY <1>1, <1>2, <1>3 DEF LateUpdate

LEMMA LateEvent ==
  ASSUME IInv, NEW w \in Worker, lock' = lock, Back(w), NEW x, At(w, x), x \notin {"idle", "wait"},
         NEW kind \in {"review_decision", "approval", "result"}, AppendEvent(w, kind),
         Cand(w) # None, db.aggregates[D(w)] = Cand(w),
         kind \in {"approval", "result"} => Approved(Cand(w)) /\ IsCurrent(D(w))
  PROVE  IInv'
<1>1. D(w) \in Draft /\ Cand(w) \in Decision \cup {None} /\ Stored
  BY Inside
<1> PICK d \in Draft : d = D(w)
  BY <1>1
<1> PICK c \in Decision : c = Cand(w)
  BY <1>1
<1>2. Stored' /\ db'.aggregates = db.aggregates /\ \A e : Linked(e) => Linked(e)'
  BY <1>1, Appended
<1>3. DbGrows
  BY <1>2 DEF DbGrows
<1> QED BY <1>2, <1>3, WrittenBack

LEMMA LateAudit ==
  ASSUME IInv, NEW w \in Worker, lock' = lock, Back(w), NEW x, At(w, x), x \notin {"idle", "wait"},
         NEW kind \in {"approved", "handoff"}, AddAudit(w, kind),
         Cand(w) # None, db.aggregates[D(w)] = Cand(w), Approved(Cand(w))
  PROVE  IInv'
<1>1. D(w) \in Draft /\ Cand(w) \in Decision \cup {None} /\ Stored
  BY Inside
<1> PICK d \in Draft : d = D(w)
  BY <1>1
<1> PICK c \in Decision : c = Cand(w)
  BY <1>1
<1>2. Stored' /\ Unless("audits")
  BY <1>1, AuditAdded DEF AddAudit
<1> QED BY <1>1, <1>2, GrowsUnless, WrittenBack

LEMMA LateInsertKept ==
  ASSUME IInv, NEW w \in Worker, lock' = lock, Back(w), LateInsert(w)
  PROVE  IInv'
<1>1. CASE At(w, "reviewEvent") /\ AppendEvent(w, "review_decision")
  <2>1. KnownAt(w, "reviewEvent")
    BY <1>1, Inside
  <2>2. Cand(w) # None /\ db.aggregates[D(w)] = Cand(w)
    BY <2>1, Projecting DEF ProjectPoints
  <2> QED BY <1>1, <2>2, LateEvent
<1>2. CASE At(w, "auditHandoff") /\ AddAudit(w, "handoff")
  <2>1. KnownAt(w, "auditHandoff")
    BY <1>2, Inside
  <2>2. Cand(w) # None /\ db.aggregates[D(w)] = Cand(w) /\ Approved(Cand(w))
    BY <2>1, Handing DEF HandoffPoints
  <2> QED BY <1>2, <2>2, LateAudit
<1>3. CASE At(w, "publish") /\ Approved(Cand(w)) /\ AddAudit(w, "approved")
  <2>1. KnownAt(w, "publish")
    BY <1>3, Inside
  <2>2. Cand(w) # None /\ db.aggregates[D(w)] = Cand(w)
    BY <2>1 DEF KnownAt, PublishedAt, SharedPoints
  <2> QED BY <1>3, <2>2, LateAudit
<1>4. CASE At(w, "insertHandoff") /\ db' = [db EXCEPT !.handoffs = @ \cup {D(w)}]
  <2>1. KnownAt(w, "insertHandoff") /\ D(w) \in Draft /\ Stored
    BY <1>4, Inside
  <2> PICK d \in Draft : d = D(w)
    BY <2>1
  <2>2. Cand(w) # None /\ db.aggregates[d] = Cand(w) /\ Approved(Cand(w))
    BY <2>1, Handing DEF HandoffPoints
  <2>3. Stored' /\ Unless("handoffs")
    BY <1>4, <2>1, <2>2, HandoffAdded
  <2> QED BY <1>4, <2>1, <2>3, GrowsUnless, WrittenBack
<1>5. CASE At(w, "resultEvent") /\ AppendEvent(w, "result")
  <2>1. KnownAt(w, "resultEvent")
    BY <1>5, Inside
  <2>2. Cand(w) # None /\ db.aggregates[D(w)] = Cand(w) /\ Approved(Cand(w)) /\ IsCurrent(D(w))
    BY <2>1, Handing DEF HandoffPoints
  <2> QED BY <1>5, <2>2, LateEvent
<1> QED BY <1>1, <1>2, <1>3, <1>4, <1>5 DEF LateInsert

LEMMA LateErrorKept ==
  ASSUME IInv, NEW w \in Worker, LateError(w)
  PROVE  IInv'
BY LateUpdateKept, LateInsertKept DEF LateError

-------------------------------------------------------------------------------
(* The inductive invariant *)

LEMMA InitInv == Init => IInv
<1> SUFFICES ASSUME Init PROVE IInv
  OBVIOUS
<1>1. DbFields /\ DbShape
  <2>1. IsFiniteSet({})
    BY FS_EmptySet
  <2>2. Nothing \in Rows /\ [status |-> "open", offer |-> None, handoff |-> None] \in Case
    BY DEF Nothing, Rows, Case
  <2>3. DbShape
    BY <2>1, <2>2 DEF Init, DbShape
  <2> QED BY <2>3, FieldTypes
<1>2. TaskShape
  <2>1. <<>> \in Things
    BY DEF Things
  <2> QED BY <2>1 DEF Init, TaskShape, TaskSet, Idle, Points
<1>3. LockHeld
  BY OfferAssumption DEF Init, LockHeld, Idle
<1>4. \A d, k : EventsOf(d, k) = {}
  BY DEF Init, EventsOf
<1>5. /\ EventsNumbered /\ EventsDecided /\ AuditsDecided /\ OffersApproved /\ Projected
      /\ CaseDecided /\ LinkFree /\ LinearHistory
  BY DEF Init, Nothing, EventsNumbered, EventsDecided, AuditsDecided, OffersApproved, Projected,
         CaseDecided, LinkFree, LinearHistory
<1>6. StaleLinkRepairable /\ HandoffsDecided
  BY <1>4 DEF Init, StaleLinkRepairable, HandoffsDecided
<1>7. Known
  BY IdleKnown DEF Init, Idle, Known
<1>8. Kept
  BY DEF Init, Idle, Kept, At
<1> QED BY <1>1, <1>2, <1>3, <1>5, <1>6, <1>7, <1>8 DEF IInv, DbInv

LEMMA ServeInv ==
  ASSUME IInv, NEW w \in Worker, Serve(w)
  PROVE  IInv'
<1>1. CASE Enter(w) \/ Leave(w)
  BY <1>1, EnterKept, LeaveKept
<1>2. CASE Admit(w) \/ SaveDraft(w) \/ DraftEvent(w) \/ Reopen(w)
  BY <1>2, AdmitKept, SaveDraftKept, DraftEventKept, ReopenKept
<1>3. CASE Check(w) \/ FindApproval(w) \/ NoOrphan(w) \/ FindOffer(w) \/ Confirm(w) \/ Fresh(w)
  BY <1>3, CheckKept, FindApprovalKept, NoOrphanKept, FindOfferKept, ConfirmKept, FreshKept
<1>4. CASE StageApproval(w) \/ StageOffer(w) \/ Claim(w)
  BY <1>4, StageApprovalKept, StageOfferKept, ClaimKept
<1>5. CASE Publish(w) \/ Repair(w) \/ ReviewEvent(w) \/ ApprovalEvent(w) \/ LinkCase(w)
  BY <1>5, PublishKept, RepairKept, ReviewEventKept, ApprovalEventKept, LinkCaseKept
<1>6. CASE Verify(w) \/ AuditHandoff(w) \/ InsertHandoff(w) \/ ResultEvent(w) \/ Complete(w)
  BY <1>6, VerifyKept, AuditHandoffKept, InsertHandoffKept, ResultEventKept, CompleteKept
<1>7. CASE Reread(w) \/ Undo(w)
  BY <1>7, RereadKept, UndoKept
<1> QED BY <1>1, <1>2, <1>3, <1>4, <1>5, <1>6, <1>7 DEF Serve

LEMMA NextInv == IInv /\ [Next]_vars => IInv'
<1> SUFFICES ASSUME IInv, [Next]_vars PROVE IInv'
  OBVIOUS
<1>1. ASSUME NEW w \in Worker, NEW job \in Job, Begin(w, job) PROVE IInv'
  BY <1>1, BeginKept
<1>2. ASSUME NEW w \in Worker, Serve(w) PROVE IInv'
  BY <1>2, ServeInv
<1>3. ASSUME NEW w \in Worker, TimeOut(w) \/ Fail(w) \/ LateError(w) \/ Crash(w) PROVE IInv'
  BY <1>3, TimeOutKept, FailKept, LateErrorKept, CrashKept
<1>4. ASSUME NEW d \in Draft, OlderOffer(d) PROVE IInv'
  BY <1>4, OlderOfferKept
<1>5. ASSUME NEW d \in Draft, NEW decision \in Decision, OlderApproval(d, decision) PROVE IInv'
  BY <1>5, OlderApprovalKept
<1>6. CASE UNCHANGED vars
  <2>1. db' = db /\ lock' = lock /\ task' = task
    BY <1>6 DEF vars
  <2>2. Stored'
    BY <2>1, SameStored DEF IInv, Stored
  <2> QED BY <2>1, <2>2, RowsBeside DEF Unless
<1> QED BY <1>1, <1>2, <1>3, <1>4, <1>5, <1>6 DEF Next

\* The records stay in order and every request knows what it relies on, whatever
\* requests, crashes, errors and the previous release do.
THEOREM Invariant == Spec => []IInv
<1>1. Init => IInv
  BY InitInv
<1>2. IInv /\ [Next]_vars => IInv'
  BY NextInv
<1> QED BY <1>1, <1>2, PTL DEF Spec

-------------------------------------------------------------------------------
(* What it says *)

\* An answer "ok" to a decision, a save, a hand-over or a reading of one means that
\* all of it is stored (OkMeansDone).
THEOREM Answered == Spec => []OkMeansDone
<1>1. IInv => OkMeansDone
  <2> SUFFICES ASSUME IInv, NEW w \in Worker, At(w, "leave"), task[w].reply = "ok"
               PROVE  CASE task[w].job.kind = "decide" ->
                             /\ SameDecision(db.aggregates[D(w)], task[w].job.decision)
                             /\ HasEvent(D(w), "review_decision")
                             /\ Approved(task[w].job.decision) =>
                                  /\ HasEvent(D(w), "approval") /\ HasAudit(D(w), "approved")
                                  /\ db.case.offer = D(w)
                        [] task[w].job.kind = "save" ->
                             D(w) \in db.drafts /\ (IsCurrent(D(w)) => db.case.offer \in {None, D(w)})
                        [] task[w].job.kind = "handoff" ->
                             db.case = CompletedCase(D(w)) /\ Evidenced(D(w))
                        [] task[w].job.kind = "get" -> D(w) \in db.handoffs
    BY DEF OkMeansDone
  <2>1. Done(w)
    BY DEF IInv, Kept
  <2>2. Kind(w) \in {"decide", "save", "handoff", "get"}
    BY Inside
  <2>3. CASE Kind(w) = "decide"
    BY <2>1, <2>3 DEF Done, Kind
  <2>4. CASE Kind(w) = "save"
    BY <2>1, <2>4 DEF Done, Kind
  <2>5. CASE Kind(w) = "handoff"
    BY <2>1, <2>5 DEF Done, Kind
  <2>6. CASE Kind(w) = "get"
    BY <2>1, <2>6 DEF Done, Kind
  <2> QED BY <2>2, <2>3, <2>4, <2>5, <2>6
<1> QED BY <1>1, Invariant, PTL

\* A link that a continuation left behind is one a retry of its save removes
\* (StaleLinkRepairable).
THEOREM Repairable == Spec => []StaleLinkRepairable
<1>1. IInv => StaleLinkRepairable
  BY DEF IInv, DbInv
<1> QED BY <1>1, Invariant, PTL

\* Continuations form a line (LinearHistory).
THEOREM Linear == Spec => []LinearHistory
<1>1. IInv => LinearHistory
  BY DEF IInv, DbInv
<1> QED BY <1>1, Invariant, PTL

\* A completed case can be handed over again, whatever was taken back
\* (HandoffRedoable).
THEOREM Redoable == Spec => []HandoffRedoable
<1>1. IInv => HandoffRedoable
  BY DEF IInv, DbInv, CaseDecided, EventsDecided, HandoffRedoable, EventsOf
<1> QED BY <1>1, Invariant, PTL

\* What is decided can be published by a retry: no row, event, audit or link stands
\* in its way (DecisionPublishable).
THEOREM Publishable == Spec => []DecisionPublishable
<1>1. IInv => DecisionPublishable
  <2> SUFFICES ASSUME IInv, NEW d \in Draft, db.aggregates[d] # None
               PROVE  /\ db.approvals[d] = db.aggregates[d]
                      /\ db.offers[d] = IF Approved(db.aggregates[d]) THEN db.aggregates[d] ELSE None
                      /\ IsCurrent(d) => Preflight(d, db.aggregates[d])
    BY DEF DecisionPublishable
  <2>1. /\ db.approvals[d] = db.aggregates[d]
        /\ db.offers[d] = IF Approved(db.aggregates[d]) THEN db.aggregates[d] ELSE None
    BY DEF IInv, DbInv, Projected
  <2>2. ASSUME IsCurrent(d) PROVE Preflight(d, db.aggregates[d])
    <3>1. db.case.offer \in {None} \cup (IF Approved(db.aggregates[d]) THEN {d} ELSE {})
      BY <2>2 DEF IInv, DbInv, LinkFree, CaseDecided
    <3>2. \A k \in {"review_decision", "approval"} :
            \A e \in EventsOf(d, k) : e.of = db.aggregates[d]
      BY DEF IInv, DbInv, EventsDecided, EventsOf
    <3>3. \A a \in db.audits : a.draft = d => a.of = db.aggregates[d]
      BY DEF IInv, DbInv, AuditsDecided
    <3> QED BY <3>1, <3>2, <3>3 DEF Preflight
  <2> QED BY <2>1, <2>2
<1> QED BY <1>1, Invariant, PTL

-------------------------------------------------------------------------------
(* Which steps write the case *)

LinkStep ==
  /\ \A d \in Draft :
       d \in {db'.case.offer, db'.case.handoff} \ {db.case.offer, db.case.handoff}
         => IsCurrent(d)
  /\ db'.case.handoff \notin {None, db.case.handoff} => Evidenced(db'.case.handoff)

\* Four actions only.
LEMMA CaseUntouched ==
  ASSUME IInv, NEW w \in Worker, Serve(w), ~Reopen(w), ~LinkCase(w), ~Complete(w)
  PROVE  db'.case = db.case
<1>1. DbShape
  BY DEF IInv
<1>2. CASE Enter(w) \/ Leave(w) \/ Admit(w)
  BY <1>2 DEF Enter, Leave, Admit
<1>3. CASE SaveDraft(w) \/ DraftEvent(w)
  BY <1>1, <1>3 DEF SaveDraft, DraftEvent, DbShape
<1>4. CASE Check(w) \/ FindApproval(w) \/ NoOrphan(w) \/ FindOffer(w) \/ Confirm(w) \/ Fresh(w)
  BY <1>4 DEF Check, FindApproval, NoOrphan, FindOffer, Confirm, Fresh
<1>5. CASE StageApproval(w) \/ StageOffer(w)
  BY <1>1, <1>5 DEF StageApproval, StageOffer, DbShape
<1>6. CASE Claim(w)
  BY <1>1, <1>6 DEF Claim, DbShape
<1>7. \A kind, next : WriteAudit(w, kind, next) => db'.case = db.case
  BY <1>1 DEF WriteAudit, AddAudit, DbShape
<1>8. CASE Publish(w) \/ AuditHandoff(w)
  BY <1>7, <1>8 DEF Publish, AuditHandoff
<1>9. CASE Repair(w)
  BY <1>1, <1>9 DEF Repair, DbShape
<1>10. \A kind : AppendEvent(w, kind) => db'.case = db.case
  BY <1>1 DEF AppendEvent, DbShape
<1>11. CASE ReviewEvent(w) \/ ApprovalEvent(w) \/ ResultEvent(w)
  BY <1>10, <1>11 DEF ReviewEvent, ApprovalEvent, ResultEvent
<1>12. CASE InsertHandoff(w) \/ Verify(w) \/ Reread(w)
  BY <1>1, <1>12 DEF InsertHandoff, Verify, Reread, DbShape
<1>13. CASE Undo(w)
  <2>1. CASE db' = db
    BY <2>1
  <2>2. CASE task[w].made # <<>> /\ db' = Without(Head(task[w].made), w)
    <3> PICK thing : thing = Head(task[w].made)
      OBVIOUS
    <3>1. thing \in Thing
      <4>1. task[w].made \in Things
        BY DEF IInv, TaskShape, TaskSet
      <4> QED BY <2>2, <4>1 DEF Things
    <3> QED BY <1>1, <2>2, <3>1 DEF Without, Thing, DbShape
  <2> QED BY <1>13, <2>1, <2>2 DEF Undo
<1> QED BY <1>2, <1>3, <1>4, <1>5, <1>6, <1>8, <1>9, <1>11, <1>12, <1>13 DEF Serve

\* And they write what they may.
LEMMA CaseReopens ==
  ASSUME IInv, NEW d \in Draft, db' = [db EXCEPT !.case = ReopenedCase(d)]
  PROVE  LinkStep
<1>1. db'.case = ReopenedCase(d)
  BY DEF IInv, DbShape
<1> QED BY <1>1, OfferAssumption DEF ReopenedCase, LinkStep

LEMMA CaseLinks ==
  ASSUME IInv, NEW w \in Worker, At(w, "linkCase"), db' = [db EXCEPT !.case.offer = D(w)]
  PROVE  LinkStep
<1>1. KnownAt(w, "linkCase") /\ db.case \in Case
  BY Inside, FieldTypes DEF Stored, DbFields
<1>2. IsCurrent(D(w))
  BY <1>1, Projecting DEF ProjectPoints
<1>3. db'.case.offer = D(w) /\ db'.case.handoff = db.case.handoff
  BY <1>1 DEF IInv, DbShape, Case
<1> QED BY <1>2, <1>3 DEF LinkStep

LEMMA CaseCompletes ==
  ASSUME IInv, NEW w \in Worker, At(w, "complete"), db' = [db EXCEPT !.case = CompletedCase(D(w))]
  PROVE  LinkStep
<1>1. KnownAt(w, "complete")
  BY Inside
<1>2. IsCurrent(D(w)) /\ Evidenced(D(w))
  <2>1. HasEvent(D(w), "result") /\ D(w) \in db.handoffs
    BY <1>1 DEF KnownAt, HandedAt
  <2> QED BY <1>1, <2>1, Handing DEF HandoffPoints, Evidenced
<1>3. db'.case.offer = D(w) /\ db'.case.handoff = D(w)
  BY DEF IInv, DbShape, CompletedCase
<1> QED BY <1>2, <1>3 DEF LinkStep

LEMMA NextLinks == IInv /\ [Next]_vars => [LinkStep]_db
<1> SUFFICES ASSUME IInv, [Next]_vars, db' # db PROVE LinkStep
  OBVIOUS
<1>1. ASSUME db'.case = db.case PROVE LinkStep
  BY <1>1 DEF LinkStep
<1>2. ASSUME NEW w \in Worker, Serve(w) PROVE LinkStep
  <2>1. CASE Reopen(w)
    <3>1. D(w) \in Draft
      BY <2>1, Inside DEF Reopen
    <3> QED BY <2>1, <3>1, CaseReopens DEF Reopen
  <2>2. CASE LinkCase(w)
    BY <2>2, CaseLinks DEF LinkCase
  <2>3. CASE Complete(w)
    BY <2>3, CaseCompletes DEF Complete
  <2>4. CASE ~Reopen(w) /\ ~LinkCase(w) /\ ~Complete(w)
    BY <1>1, <1>2, <2>4, CaseUntouched
  <2> QED BY <2>1, <2>2, <2>3, <2>4
<1>3. ASSUME NEW w \in Worker, LateUpdate(w) PROVE LinkStep
  <2>1. CASE At(w, "linkCase") /\ db' = [db EXCEPT !.case.offer = D(w)]
    BY <2>1, CaseLinks
  <2>2. CASE At(w, "complete") /\ db' = [db EXCEPT !.case = CompletedCase(D(w))]
    BY <2>2, CaseCompletes
  <2>3. CASE At(w, "reopen") /\ db' = [db EXCEPT !.case = ReopenedCase(D(w))]
    <3>1. D(w) \in Draft
      BY <2>3, Inside
    <3> QED BY <2>3, <3>1, CaseReopens
  <2> QED BY <1>3, <2>1, <2>2, <2>3 DEF LateUpdate
<1>4. ASSUME NEW w \in Worker, LateInsert(w) PROVE LinkStep
  <2>1. DbShape
    BY DEF IInv
  <2>2. db'.case = db.case
    BY <1>4, <2>1 DEF LateInsert, AppendEvent, AddAudit, DbShape
  <2> QED BY <1>1, <2>2
<1>5. ASSUME NEW w \in Worker, TimeOut(w) \/ Fail(w) \/ Crash(w) \/ \E job \in Job : Begin(w, job)
      PROVE  LinkStep
  BY <1>5 DEF TimeOut, Fail, Crash, Begin
<1>6. ASSUME NEW d \in Draft, OlderOffer(d) \/ \E decision \in Decision : OlderApproval(d, decision)
      PROVE  LinkStep
  BY <1>1, <1>6 DEF OlderOffer, OlderApproval, IInv, DbShape
<1>7. ~UNCHANGED vars
  BY DEF vars
<1> QED BY <1>2, <1>3, <1>4, <1>5, <1>6, <1>7 DEF Next, LateError

\* The case is linked and completed for the current draft only, and completed only
\* with the whole evidence (LinksCurrentOnly).
THEOREM LinkedCurrent == Spec => LinksCurrentOnly
<1>1. IInv /\ [Next]_vars => [LinkStep]_db
  BY NextLinks
<1> QED BY <1>1, Invariant, PTL DEF Spec, LinksCurrentOnly, LinkStep

-------------------------------------------------------------------------------
(* The order of the evidence *)

InOrder(d) ==
  d \notin torn =>
    /\ HasEvent(d, "result") => d \in db.handoffs
    /\ d \in db.handoffs => HasAudit(d, "approved") /\ HasAudit(d, "handoff")

\* What a request would undo next is not relied on by anything that it would undo later.
UndoneAt(w) ==
  LET made == task[w].made IN
  D(w) \notin torn =>
    \A i \in 1 .. Len(made) :
      /\ made[i] \in {"approved", "handoff"} /\ (\A j \in 1 .. i - 1 : made[j] # "record")
           => D(w) \notin db.handoffs
      /\ made[i] = "record" /\ (\A j \in 1 .. i - 1 : made[j] # "result")
           => ~HasEvent(D(w), "result")

Order == (\A d \in Draft : InOrder(d)) /\ \A w \in Worker : UndoneAt(w)

\* Whoever is not in the critical section has made nothing.
LEMMA Ordered ==
  ASSUME IInv', \A d \in Draft : InOrder(d)', \A v \in Worker : lock' = v => UndoneAt(v)'
  PROVE  Order'
<1>1. ASSUME NEW v \in Worker, lock' # v PROVE UndoneAt(v)'
  <2> PICK p : p = task'[v].pc
    OBVIOUS
  <2>1. p \in {"idle", "wait"} /\ KnownAt(v, task[v].pc)'
    BY <1>1 DEF IInv, LockHeld, Known
  <2>2. task'[v].made = <<>>
    BY <2>1 DEF KnownAt, MadeAt
  <2> QED BY <2>2 DEF UndoneAt
<1> QED BY <1>1 DEF Order

\* A step that takes no evidence away and adds none that relies on other evidence.
Undisturbed ==
  /\ torn \subseteq torn' /\ db'.handoffs = db.handoffs
  /\ \A d \in Draft : HasEvent(d, "result")' => HasEvent(d, "result")
  /\ \A d \in Draft, k \in {"approved", "handoff"} : HasAudit(d, k) => HasAudit(d, k)'

SameMade(v) == task'[v].made = task[v].made /\ task'[v].job = task[v].job

LEMMA UndoneKept ==
  ASSUME IInv', NEW v \in Worker, lock' = v, SameMade(v), UndoneAt(v), torn \subseteq torn',
         db'.handoffs = db.handoffs, \A d \in Draft : HasEvent(d, "result")' => HasEvent(d, "result")
  PROVE  UndoneAt(v)'
<1> PICK d : d = D(v)
  OBVIOUS
<1>1. D(v)' = d
  BY DEF SameMade, D
<1>2. d \in Draft
  <2> PICK p : p = task'[v].pc
    OBVIOUS
  <2>1. p # "idle" /\ KnownAt(v, task[v].pc)'
    BY DEF IInv, LockHeld, Known
  <2>2. task'[v].job \in Job
    BY <2>1 DEF KnownAt, JobAt
  <2> QED BY <1>1, <2>2 DEF D, Job
<1>3. HasEvent(D(v), "result")' => HasEvent(d, "result")
  BY <1>1, <1>2 DEF HasEvent, EventsOf
<1> QED BY <1>1, <1>3 DEF UndoneAt, SameMade

LEMMA OrderUndisturbed ==
  ASSUME Order, IInv', Undisturbed, \A v \in Worker : lock' = v => SameMade(v)
  PROVE  Order'
<1>1. ASSUME NEW d \in Draft PROVE InOrder(d)'
  BY DEF Order, InOrder, Undisturbed
<1>2. ASSUME NEW v \in Worker, lock' = v PROVE UndoneAt(v)'
  BY <1>2, UndoneKept DEF Order, Undisturbed
<1> QED BY <1>1, <1>2, Ordered

LEMMA UndisturbedSame ==
  ASSUME db' = db, torn' = torn
  PROVE  Undisturbed
BY SameViews DEF Undisturbed

\* An audit is noted as made only where nothing relies on it.
LEMMA AuditOrdered ==
  ASSUME IInv, Order, IInv', NEW w \in Worker, NEW x, At(w, x), x \notin {"idle", "wait"},
         UNCHANGED <<lock, torn>>, NEW kind \in {"approved", "handoff"}, NEW next \in Points,
         WriteAudit(w, kind, next)
  PROVE  Order'
<1>1. lock = w /\ D(w) \in Draft /\ Stored /\ TaskShape
  BY Inside DEF IInv
<1> PICK d \in Draft : d = D(w)
  BY <1>1
<1> PICK mine : mine = Audit(kind, d, Cand(w))
  OBVIOUS
<1>2. CASE Audits(d, kind) = {}
  <2>1. /\ db' = [db EXCEPT !.audits = @ \cup {mine}]
        /\ task' = [task EXCEPT ![w].pc = next, ![w].made = <<kind>> \o @]
    BY <1>2 DEF WriteAudit, AddAudit
  <2>2. db'.audits = db.audits \cup {mine} /\ db'.handoffs = db.handoffs /\ db'.events = db.events
    BY <1>1, <2>1 DEF Stored, DbShape
  <2>3. Undisturbed
    BY <2>2 DEF Undisturbed, HasEvent, EventsOf, HasAudit
  <2>4. d \notin torn => d \notin db.handoffs /\ ~HasEvent(d, "result")
    BY <1>2 DEF Order, InOrder, Audits, HasAudit
  <2>5. D(w)' = d
    BY <1>1, <2>1 DEF TaskShape, TaskSet, D
  <2>6. UndoneAt(w)'
    BY <2>2, <2>4, <2>5 DEF UndoneAt, HasEvent, EventsOf
  <2>7. ASSUME NEW c \in Draft PROVE InOrder(c)'
    BY <2>3 DEF Order, InOrder, Undisturbed
  <2> QED BY <1>1, <2>6, <2>7, Ordered
<1>3. CASE Audits(d, kind) # {}
  <2>1. db' = db /\ \E p \in Points : Go(w, p)
    BY <1>3 DEF WriteAudit, Back, Points
  <2>2. SameTask(w)
    BY <1>1, <2>1, Goes
  <2> QED BY <1>1, <2>1, <2>2, UndisturbedSame, OrderUndisturbed DEF SameTask, SameMade
<1> QED BY <1>2, <1>3

LEMMA PublishOrdered ==
  ASSUME IInv, Order, IInv', NEW w \in Worker, Publish(w)
  PROVE  Order'
<1>1. At(w, "publish") /\ UNCHANGED <<lock, torn>> /\ {"repair", "reviewEvent", "undo"} \subseteq Points
  BY DEF Publish, Points
<1>2. CASE WriteAudit(w, "approved", "repair")
  BY <1>1, <1>2, AuditOrdered
<1>3. CASE db' = db /\ (Go(w, "reviewEvent") \/ Back(w))
  <2>1. SameTask(w) /\ lock = w
    BY <1>1, <1>3, Goes, Inside DEF Back, IInv
  <2> QED BY <1>1, <1>3, <2>1, UndisturbedSame, OrderUndisturbed DEF SameTask, SameMade
<1> QED BY <1>2, <1>3 DEF Publish

LEMMA InsertHandoffOrdered ==
  ASSUME IInv, Order, IInv', NEW w \in Worker, InsertHandoff(w)
  PROVE  Order'
<1>1. At(w, "insertHandoff") /\ UNCHANGED <<lock, torn>>
  BY DEF InsertHandoff
<1>2. KnownAt(w, "insertHandoff") /\ lock = w /\ D(w) \in Draft /\ Stored
  BY <1>1, Inside
<1> PICK d \in Draft : d = D(w)
  BY <1>2
<1>3. HasAudit(d, "approved") /\ HasAudit(d, "handoff")
  BY <1>2, Handing DEF HandoffPoints
<1> PICK m : m = IF d \in db.handoffs THEN task[w].made ELSE <<"record">> \o task[w].made
  OBVIOUS
<1>4. m \in Things /\ task[w].made \in Things /\ TaskShape
  <2>1. task[w].made \in Things /\ TaskShape
    BY DEF IInv, TaskShape, TaskSet
  <2> QED BY <2>1, MadeLast DEF Thing
<1>5. task' = [task EXCEPT ![w].pc = "resultEvent", ![w].made = m]
  BY <1>4 DEF InsertHandoff, TaskShape
<1>6. task'[w].made = m /\ task'[w].job = task[w].job /\ D(w)' = d
  <2>1. "resultEvent" \in Points
    BY DEF Points
  <2> QED BY <1>4, <1>5, <2>1, Makes DEF D
<1>7. db'.handoffs = db.handoffs \cup {d} /\ db'.events = db.events /\ db'.audits = db.audits
  BY <1>2 DEF InsertHandoff, Stored, DbShape
<1>8. \A c, k : (HasEvent(c, k)' <=> HasEvent(c, k)) /\ (HasAudit(c, k)' <=> HasAudit(c, k))
  BY <1>7 DEF HasEvent, EventsOf, HasAudit
<1>9. ASSUME NEW c \in Draft PROVE InOrder(c)'
  BY <1>1, <1>3, <1>7, <1>8 DEF Order, InOrder
<1>10. UndoneAt(w)'
  <2>1. UndoneAt(w)
    BY DEF Order
  <2>2. HasEvent(D(w), "result")' <=> HasEvent(d, "result")
    BY <1>6, <1>7 DEF HasEvent, EventsOf
  <2>3. CASE d \in db.handoffs
    <3>1. db'.handoffs = db.handoffs /\ m = task[w].made
      BY <1>7, <2>3
    <3> QED BY <1>1, <1>6, <2>1, <2>2, <3>1 DEF UndoneAt
  <2>4. CASE d \notin db.handoffs
    <3>1. d \notin torn => ~HasEvent(d, "result")
      BY <2>4 DEF Order, InOrder
    <3>2. m[1] = "record" /\ Len(m) \in Nat
      BY <1>4, <2>4, MadeLast DEF Thing, Things
    <3>3. \A i \in 1 .. Len(m) : m[i] \in {"approved", "handoff"} =>
            \E j \in 1 .. i - 1 : m[j] = "record"
      BY <3>2
    <3> QED BY <1>1, <1>6, <2>2, <3>1, <3>3 DEF UndoneAt
  <2> QED BY <2>3, <2>4
<1> QED BY <1>1, <1>2, <1>9, <1>10, Ordered

LEMMA ResultEventOrdered ==
  ASSUME IInv, Order, IInv', NEW w \in Worker, ResultEvent(w)
  PROVE  Order'
<1>1. At(w, "resultEvent") /\ UNCHANGED <<lock, torn>> /\ AppendEvent(w, "result")
  BY DEF ResultEvent
<1>2. KnownAt(w, "resultEvent") /\ lock = w /\ D(w) \in Draft /\ Stored
  BY <1>1, Inside
<1> PICK d \in Draft : d = D(w)
  BY <1>2
<1>3. d \in db.handoffs
  BY <1>2 DEF KnownAt, HandedAt
<1> PICK m : m = IF HasEvent(d, "result") THEN task[w].made ELSE <<"result">> \o task[w].made
  OBVIOUS
<1>4. m \in Things /\ task[w].made \in Things /\ TaskShape
  <2>1. task[w].made \in Things /\ TaskShape
    BY DEF IInv, TaskShape, TaskSet
  <2> QED BY <2>1, MadeLast DEF Thing
<1>5. task' = [task EXCEPT ![w].pc = "complete", ![w].made = m]
  BY <1>4 DEF ResultEvent, TaskShape, HasEvent
<1>6. task'[w].made = m /\ task'[w].job = task[w].job /\ D(w)' = d
  <2>1. "complete" \in Points
    BY DEF Points
  <2> QED BY <1>4, <1>5, <2>1, Makes DEF D
<1>7. /\ db'.handoffs = db.handoffs /\ db'.audits = db.audits
      /\ db'.events = IF HasEvent(d, "result") THEN db.events
                      ELSE db.events \cup {Event("result", d, Cand(w))}
  BY <1>1, <1>2 DEF AppendEvent, Stored, DbShape, HasEvent
<1>8. /\ \A c \in Draft \ {d} : HasEvent(c, "result")' => HasEvent(c, "result")
      /\ \A c, k : HasAudit(c, k)' <=> HasAudit(c, k)
  BY <1>7 DEF HasEvent, EventsOf, HasAudit, Event
<1>9. ASSUME NEW c \in Draft PROVE InOrder(c)'
  BY <1>1, <1>3, <1>7, <1>8 DEF Order, InOrder
<1>10. UndoneAt(w)'
  <2>1. UndoneAt(w)
    BY DEF Order
  <2>2. CASE HasEvent(d, "result")
    <3>1. HasEvent(D(w), "result")' <=> HasEvent(d, "result")
      BY <1>6, <1>7, <2>2 DEF HasEvent, EventsOf
    <3> QED BY <1>1, <1>6, <1>7, <2>1, <2>2, <3>1 DEF UndoneAt
  <2>3. CASE ~HasEvent(d, "result")
    <3>1. /\ m[1] = "result" /\ Len(task[w].made) \in Nat /\ Len(m) = Len(task[w].made) + 1
          /\ \A i \in 2 .. Len(m) : i - 1 \in 1 .. Len(task[w].made) /\ m[i] = task[w].made[i - 1]
          /\ \A j \in 1 .. Len(task[w].made) : m[j + 1] = task[w].made[j]
      <4>1. "result" \in Thing /\ Len(task[w].made) \in Nat
        BY <1>4 DEF Thing, Things
      <4>2. m = <<"result">> \o task[w].made
        BY <2>3
      <4> QED BY <1>4, <4>1, <4>2, MadeLast
    <3>2. ASSUME NEW i \in 1 .. Len(m), m[i] \in {"approved", "handoff"}, d \notin torn
          PROVE  \E j \in 1 .. i - 1 : m[j] = "record"
      <4>1. i \in 2 .. Len(m)
        BY <3>1, <3>2
      <4>2. i - 1 \in 1 .. Len(task[w].made) /\ task[w].made[i - 1] \in {"approved", "handoff"}
        BY <3>1, <3>2, <4>1
      <4>3. PICK j \in 1 .. (i - 1) - 1 : task[w].made[j] = "record"
        BY <1>3, <2>1, <3>2, <4>2 DEF UndoneAt
      <4>4. j + 1 \in 1 .. i - 1 /\ j \in 1 .. Len(task[w].made)
        BY <3>1, <4>1, <4>2, <4>3
      <4> QED BY <3>1, <4>3, <4>4
    <3>3. \A i \in 1 .. Len(m) : m[i] = "record" => \E j \in 1 .. i - 1 : m[j] = "result"
      BY <3>1
    <3> QED BY <1>1, <1>6, <3>2, <3>3 DEF UndoneAt
  <2> QED BY <2>2, <2>3
<1> QED BY <1>1, <1>2, <1>9, <1>10, Ordered

\* The last thing made is taken back: nothing relies on it.
LEMMA UndoOrdered ==
  ASSUME IInv, Order, IInv', NEW w \in Worker, Undo(w)
  PROVE  Order'
<1>1. At(w, "undo") /\ UNCHANGED <<lock, torn>>
  BY DEF Undo
<1>2. lock = w /\ D(w) \in Draft /\ Stored
  BY <1>1, Inside
<1> PICK d \in Draft : d = D(w)
  BY <1>2
<1>3. CASE db' = db /\ Answer(w, "no")
  <2>1. SameTask(w)
    BY <1>3, Answers DEF IInv
  <2> QED BY <1>1, <1>2, <1>3, <2>1, UndisturbedSame, OrderUndisturbed DEF SameTask, SameMade
<1>4. CASE /\ task[w].made # <<>> /\ db' = Without(Head(task[w].made), w)
           /\ task' = [task EXCEPT ![w].made = Tail(@)]
  <2> PICK m : m = task[w].made
    OBVIOUS
  <2> PICK n : n = Tail(m)
    OBVIOUS
  <2>1. TaskShape /\ task[w] \in TaskSet /\ m \in Things
    BY DEF IInv, TaskShape, TaskSet
  <2>2. /\ Len(m) \in Nat /\ 1 \in 1 .. Len(m) /\ Head(m) = m[1] /\ m[1] \in Thing
        /\ n \in Things /\ Len(n) = Len(m) - 1
        /\ \A i \in 1 .. Len(n) : n[i] = m[i + 1]
    BY <1>4, <2>1 DEF Things
  <2>3. task'[w].made = n /\ task'[w].job = task[w].job /\ D(w)' = d
    BY <1>4, <2>1 DEF TaskShape, TaskSet, D
  <2>4. UndoneAt(w)
    BY DEF Order
  <2>5. d \notin torn => /\ m[1] \in {"approved", "handoff"} => d \notin db.handoffs
                         /\ m[1] = "record" => ~HasEvent(d, "result")
    BY <2>2, <2>4 DEF UndoneAt
  <2>6. /\ db'.handoffs = IF m[1] = "record" THEN db.handoffs \ {d} ELSE db.handoffs
        /\ db'.events = IF m[1] = "result" THEN db.events \ EventsOf(d, "result") ELSE db.events
        /\ db'.audits = IF m[1] \in {"approved", "handoff"}
                        THEN db.audits \ {Audit(m[1], d, Cand(w))} ELSE db.audits
    BY <1>2, <1>4, <2>2 DEF Without, Thing, Stored, DbShape
  <2>7. /\ \A c \in Draft : HasEvent(c, "result")' => HasEvent(c, "result") /\ (c = d => m[1] # "result")
        /\ \A c \in Draft \ {d} : HasEvent(c, "result") => HasEvent(c, "result")'
    BY <2>6 DEF HasEvent, EventsOf
  <2>8. \A c \in Draft, k \in {"approved", "handoff"} :
          HasAudit(c, k) /\ (c # d \/ m[1] \notin {"approved", "handoff"}) => HasAudit(c, k)'
    BY <2>6 DEF HasAudit, Audit
  <2>9. ASSUME NEW c \in Draft PROVE InOrder(c)'
    BY <1>1, <2>5, <2>6, <2>7, <2>8 DEF Order, InOrder
  <2>10. UndoneAt(w)'
    <3>1. \A i \in 1 .. Len(n) : i + 1 \in 1 .. Len(m) /\ n[i] = m[i + 1]
      BY <2>2
    <3>2. ASSUME NEW i \in 1 .. Len(n), n[i] \in {"approved", "handoff"}, d \notin torn,
                 \A j \in 1 .. i - 1 : n[j] # "record"
          PROVE  d \notin db'.handoffs
      <4>1. SUFFICES ASSUME m[1] # "record" PROVE d \notin db.handoffs
        BY <2>6
      <4>2. \A j \in 1 .. (i + 1) - 1 : m[j] # "record"
        <5> SUFFICES ASSUME NEW j \in 1 .. (i + 1) - 1, j # 1 PROVE m[j] # "record"
          BY <4>1
        <5>1. j - 1 \in 1 .. i - 1 /\ j - 1 \in 1 .. Len(n) /\ (j - 1) + 1 = j
          BY <2>2
        <5> QED BY <2>2, <3>2, <5>1
      <4> QED BY <2>4, <3>1, <3>2, <4>2 DEF UndoneAt
    <3>3. ASSUME NEW i \in 1 .. Len(n), n[i] = "record", d \notin torn,
                 \A j \in 1 .. i - 1 : n[j] # "result"
          PROVE  ~HasEvent(d, "result")'
      <4>1. SUFFICES ASSUME m[1] # "result" PROVE ~HasEvent(d, "result")
        BY <2>7
      <4>2. \A j \in 1 .. (i + 1) - 1 : m[j] # "result"
        <5> SUFFICES ASSUME NEW j \in 1 .. (i + 1) - 1, j # 1 PROVE m[j] # "result"
          BY <4>1
        <5>1. j - 1 \in 1 .. i - 1 /\ j - 1 \in 1 .. Len(n) /\ (j - 1) + 1 = j
          BY <2>2
        <5> QED BY <2>2, <3>3, <5>1
      <4> QED BY <2>4, <3>1, <3>3, <4>2 DEF UndoneAt
    <3>4. HasEvent(D(w), "result")' <=> HasEvent(d, "result")'
      BY <2>3 DEF HasEvent, EventsOf
    <3> QED BY <1>1, <2>3, <3>2, <3>3, <3>4 DEF UndoneAt
  <2> QED BY <1>1, <1>2, <2>9, <2>10, Ordered
<1> QED BY <1>3, <1>4 DEF Undo

\* Whatever an insert left behind is in order again under an answered hand-over.
LEMMA LeaveOrdered ==
  ASSUME IInv, Order, IInv', NEW w \in Worker, Leave(w)
  PROVE  Order'
<1>1. At(w, "leave") /\ lock' = None /\ db' = db
  BY DEF Leave
<1> PICK d : d = D(w)
  OBVIOUS
<1>2. ASSUME torn' # torn PROVE torn' = torn \ {d} /\ Evidenced(d)
  BY <1>1, <1>2 DEF Leave, IInv, Kept, Done, Kind
<1>3. ASSUME NEW c \in Draft PROVE InOrder(c)'
  <2>1. /\ \A k : (HasEvent(c, k)' <=> HasEvent(c, k)) /\ (HasAudit(c, k)' <=> HasAudit(c, k))
        /\ db'.handoffs = db.handoffs
    BY <1>1, SameViews
  <2>2. CASE torn' # torn /\ c = d
    BY <1>2, <2>1, <2>2 DEF InOrder, Evidenced
  <2>3. CASE torn' = torn \/ c # d
    BY <1>2, <2>1, <2>3 DEF Order, InOrder
  <2> QED BY <2>2, <2>3
<1>4. \A v \in Worker : lock' # v
  BY <1>1, OfferAssumption
<1> QED BY <1>3, <1>4, Ordered

\* An insert that threw, and another write.
LEMMA LateErrorOrdered ==
  ASSUME IInv, Order, IInv', NEW w \in Worker, LateError(w)
  PROVE  Order'
<1> PICK x : At(w, x)
  BY DEF At
<1>1. lock' = lock /\ torn \subseteq torn' /\ x \notin {"idle", "wait"} /\ Back(w)
  BY DEF LateError, LateUpdate, LateInsert, At
<1>2. lock = w /\ D(w) \in Draft /\ DbShape
  BY <1>1, Inside DEF IInv
<1> PICK d \in Draft : d = D(w)
  BY <1>2
<1>3. SameMade(w) /\ D(w)' = d
  <2>1. "undo" \in Points
    BY DEF Points
  <2> QED BY <1>1, <2>1, Goes DEF Back, IInv, SameTask, SameMade, D
<1>4. CASE LateUpdate(w)
  <2>1. db'.handoffs = db.handoffs /\ db'.events = db.events /\ db'.audits = db.audits
    BY <1>2, <1>4 DEF LateUpdate, DbShape
  <2>2. Undisturbed
    BY <1>1, <2>1 DEF Undisturbed, HasEvent, EventsOf, HasAudit
  <2> QED BY <1>1, <1>2, <1>3, <2>2, OrderUndisturbed
<1>5. CASE AppendEvent(w, "review_decision")
  <2>1. /\ db'.handoffs = db.handoffs /\ db'.audits = db.audits
        /\ \A e \in db'.events : e.kind = "result" => e \in db.events
    BY <1>2, <1>5 DEF AppendEvent, Event, DbShape
  <2>2. Undisturbed
    BY <1>1, <2>1 DEF Undisturbed, HasEvent, EventsOf, HasAudit
  <2> QED BY <1>1, <1>2, <1>3, <2>2, OrderUndisturbed
<1>6. ASSUME NEW kind, AddAudit(w, kind) PROVE Order'
  <2>1. db'.handoffs = db.handoffs /\ db'.events = db.events /\ db.audits \subseteq db'.audits
    BY <1>2, <1>6 DEF AddAudit, DbShape
  <2>2. Undisturbed
    BY <1>1, <2>1 DEF Undisturbed, HasEvent, EventsOf, HasAudit
  <2> QED BY <1>1, <1>2, <1>3, <2>2, OrderUndisturbed
<1>7. CASE /\ At(w, "insertHandoff") \/ At(w, "resultEvent")
           /\ \/ db' = [db EXCEPT !.handoffs = @ \cup {D(w)}]
              \/ AppendEvent(w, "result")
  <2>1. d \in torn'
    BY <1>7 DEF LateError
  <2>2. /\ \A c \in Draft \ {d} : c \in db'.handoffs <=> c \in db.handoffs
        /\ \A e \in db'.events : e.draft # d => e \in db.events
        /\ db'.audits = db.audits
    BY <1>2, <1>7 DEF AppendEvent, Event, DbShape
  <2>3. ASSUME NEW c \in Draft \ {d} PROVE InOrder(c)'
    <3>1. HasEvent(c, "result")' => HasEvent(c, "result")
      BY <2>2 DEF HasEvent, EventsOf
    <3>2. \A k : HasAudit(c, k)' <=> HasAudit(c, k)
      BY <2>2 DEF HasAudit
    <3> QED BY <1>1, <2>2, <3>1, <3>2 DEF Order, InOrder
  <2>4. InOrder(d)'
    BY <2>1 DEF InOrder
  <2>5. UndoneAt(w)'
    BY <1>3, <2>1 DEF UndoneAt
  <2> QED BY <1>1, <1>2, <2>3, <2>4, <2>5, Ordered
<1> QED BY <1>4, <1>5, <1>6, <1>7 DEF LateError, LateInsert

\* The other steps.
LEMMA ServeUndisturbed ==
  ASSUME IInv, NEW w \in Worker, Serve(w), ~Leave(w), ~Publish(w), ~AuditHandoff(w),
         ~InsertHandoff(w), ~ResultEvent(w), ~Undo(w)
  PROVE  Undisturbed
<1>1. DbShape
  BY DEF IInv
<1>2. CASE Enter(w) \/ Admit(w) \/ Verify(w) \/ Reread(w)
  BY <1>2, UndisturbedSame DEF Enter, Admit, Verify, Reread
<1>3. CASE Check(w) \/ FindApproval(w) \/ NoOrphan(w) \/ FindOffer(w) \/ Confirm(w) \/ Fresh(w)
  BY <1>3, UndisturbedSame DEF Check, FindApproval, NoOrphan, FindOffer, Confirm, Fresh
<1>4. CASE \/ SaveDraft(w) \/ DraftEvent(w) \/ Reopen(w) \/ StageApproval(w) \/ StageOffer(w)
           \/ Claim(w) \/ Repair(w) \/ ReviewEvent(w) \/ ApprovalEvent(w) \/ LinkCase(w)
           \/ Complete(w)
  <2>1. torn' = torn
    BY <1>4 DEF SaveDraft, DraftEvent, Reopen, StageApproval, StageOffer, Claim, Repair,
                ReviewEvent, ApprovalEvent, LinkCase, Complete
  <2>2. db'.handoffs = db.handoffs /\ db'.audits = db.audits
    <3>1. CASE SaveDraft(w) \/ DraftEvent(w) \/ Reopen(w)
      BY <1>1, <3>1 DEF SaveDraft, DraftEvent, Reopen, DbShape
    <3>2. CASE StageApproval(w) \/ StageOffer(w) \/ Claim(w)
      BY <1>1, <3>2 DEF StageApproval, StageOffer, Claim, DbShape
    <3>3. CASE Repair(w)
      BY <1>1, <3>3 DEF Repair, DbShape
    <3>4. CASE ReviewEvent(w) \/ ApprovalEvent(w) \/ LinkCase(w) \/ Complete(w)
      BY <1>1, <3>4 DEF ReviewEvent, ApprovalEvent, AppendEvent, LinkCase, Complete, DbShape
    <3> QED BY <1>4, <3>1, <3>2, <3>3, <3>4
  <2>3. \A e \in db'.events : e.kind = "result" => e \in db.events
    <3>1. CASE SaveDraft(w) \/ Reopen(w)
      BY <1>1, <3>1 DEF SaveDraft, Reopen, DbShape
    <3>2. CASE DraftEvent(w) \/ ReviewEvent(w) \/ ApprovalEvent(w)
      BY <1>1, <3>2 DEF DraftEvent, ReviewEvent, ApprovalEvent, AppendEvent, Event, DbShape
    <3>3. CASE StageApproval(w) \/ StageOffer(w) \/ Claim(w)
      BY <1>1, <3>3 DEF StageApproval, StageOffer, Claim, DbShape
    <3>4. CASE Repair(w)
      BY <1>1, <3>4 DEF Repair, DbShape
    <3>5. CASE LinkCase(w) \/ Complete(w)
      BY <1>1, <3>5 DEF LinkCase, Complete, DbShape
    <3> QED BY <1>4, <3>1, <3>2, <3>3, <3>4, <3>5
  <2> QED BY <2>1, <2>2, <2>3 DEF Undisturbed, HasEvent, EventsOf, HasAudit
<1> QED BY <1>2, <1>3, <1>4 DEF Serve

LEMMA ServeSameMade ==
  ASSUME IInv, NEW w \in Worker, Serve(w), ~Leave(w), ~Publish(w), ~AuditHandoff(w),
         ~InsertHandoff(w), ~ResultEvent(w), ~Undo(w)
  PROVE  SameMade(w)
<1>1. TaskShape /\ task[w] \in TaskSet
  BY DEF IInv, TaskShape
<1>2. ASSUME NEW p, Go(w, p) PROVE SameMade(w)
  BY <1>1, <1>2 DEF Go, SameMade, TaskShape, TaskSet
<1>3. ASSUME NEW r, Answer(w, r) PROVE SameMade(w)
  BY <1>1, <1>3 DEF Answer, SameMade, TaskShape, TaskSet
<1>4. ASSUME NEW p, NEW c,
             \/ task' = [task EXCEPT ![w].pc = p, ![w].cand = c]
             \/ task' = [task EXCEPT ![w].pc = p, ![w].seen = c]
             \/ task' = [task EXCEPT ![w].pc = p, ![w].route = c]
      PROVE  SameMade(w)
  BY <1>1, <1>4 DEF SameMade, TaskShape, TaskSet
<1>5. ASSUME ResolveLate(w) PROVE SameMade(w)
  BY <1>1, <1>5 DEF ResolveLate, SameMade, TaskShape, TaskSet
<1>6. CASE Enter(w) \/ Admit(w) \/ SaveDraft(w) \/ DraftEvent(w) \/ Reopen(w)
  BY <1>2, <1>3, <1>6 DEF Enter, Admit, SaveDraft, DraftEvent, Reopen
<1>7. CASE Check(w) \/ FindApproval(w) \/ NoOrphan(w)
  BY <1>2, <1>3, <1>4, <1>7 DEF Check, FindApproval, NoOrphan
<1>8. CASE FindOffer(w) \/ Confirm(w) \/ Fresh(w)
  BY <1>2, <1>3, <1>4, <1>5, <1>8 DEF FindOffer, Confirm, Fresh
<1>9. CASE StageApproval(w) \/ StageOffer(w)
  BY <1>2, <1>3, <1>5, <1>9 DEF StageApproval, StageOffer, Staged
<1>10. CASE Claim(w)
  BY <1>3, <1>4, <1>10 DEF Claim
<1>11. CASE Repair(w)
  <2>1. (\E p : Go(w, p)) \/ (\E r : Answer(w, r))
    <3>1. Kind(w) \in {"decide", "handoff", "get"}
      <4>1. KnownAt(w, "repair") /\ Kind(w) \in {"decide", "save", "handoff", "get"}
        BY <1>11, Inside DEF Repair
      <4> QED BY <4>1 DEF KnownAt, KindAt, SharedPoints
    <3> QED BY <1>11, <3>1 DEF Repair, Back, Kind
  <2> QED BY <1>2, <1>3, <2>1
<1>12. CASE ReviewEvent(w) \/ ApprovalEvent(w) \/ LinkCase(w)
  BY <1>2, <1>3, <1>12 DEF ReviewEvent, ApprovalEvent, LinkCase, Back
<1>13. CASE Verify(w) \/ Complete(w) \/ Reread(w)
  BY <1>2, <1>3, <1>4, <1>13 DEF Verify, Complete, Reread, Back
<1> QED BY <1>6, <1>7, <1>8, <1>9, <1>10, <1>11, <1>12, <1>13 DEF Serve

LEMMA NextOrdered == IInv /\ IInv' /\ Order /\ [Next]_vars => Order'
<1> SUFFICES ASSUME IInv, IInv', Order, [Next]_vars PROVE Order'
  OBVIOUS
<1>1. ASSUME NEW w \in Worker, NEW job \in Job, Begin(w, job) PROVE Order'
  <2>1. db' = db /\ torn' = torn /\ lock' = lock /\ lock # w
    BY <1>1 DEF Begin, At, IInv, LockHeld
  <2>2. \A v \in Worker \ {w} : SameMade(v)
    BY <1>1 DEF Begin, SameMade, IInv, TaskShape
  <2> QED BY <2>1, <2>2, UndisturbedSame, OrderUndisturbed
<1>2. ASSUME NEW w \in Worker, Serve(w) PROVE Order'
  <2>1. CASE Leave(w)
    BY <2>1, LeaveOrdered
  <2>2. CASE Publish(w)
    BY <2>2, PublishOrdered
  <2>3. CASE AuditHandoff(w)
    BY <2>3, AuditOrdered DEF AuditHandoff, Points
  <2>4. CASE InsertHandoff(w) \/ ResultEvent(w) \/ Undo(w)
    BY <2>4, InsertHandoffOrdered, ResultEventOrdered, UndoOrdered
  <2>5. CASE ~Leave(w) /\ ~Publish(w) /\ ~AuditHandoff(w) /\ ~InsertHandoff(w) /\ ~ResultEvent(w) /\ ~Undo(w)
    <3>1. Undisturbed /\ SameMade(w)
      BY <1>2, <2>5, ServeUndisturbed, ServeSameMade
    <3>2. \A v \in Worker : lock' = v => v = w
      <4>1. lock' = w
        <5>1. CASE Enter(w)
          BY <5>1 DEF Enter
        <5>2. CASE ~Enter(w)
          <6>1. lock' = lock
            BY <1>2, <2>5, <5>2
               DEF Serve, Admit, SaveDraft, DraftEvent, Reopen, Check, FindApproval, NoOrphan,
                   FindOffer, Confirm, Fresh, StageApproval, StageOffer, Claim, Repair,
                   ReviewEvent, ApprovalEvent, LinkCase, Verify, Complete, Reread
          <6>2. task[w].pc \notin {"idle", "wait"}
            BY <1>2, <2>5, <5>2
               DEF Serve, Admit, SaveDraft, DraftEvent, Reopen, Check, FindApproval, NoOrphan,
                   FindOffer, Confirm, Fresh, StageApproval, StageOffer, Claim, Repair,
                   ReviewEvent, ApprovalEvent, LinkCase, Verify, Complete, Reread, At
          <6> QED BY <6>1, <6>2 DEF IInv, LockHeld
        <5> QED BY <5>1, <5>2
      <4> QED BY <4>1
    <3> QED BY <3>1, <3>2, OrderUndisturbed
  <2> QED BY <2>1, <2>2, <2>3, <2>4, <2>5
<1>3. ASSUME NEW w \in Worker, TimeOut(w) \/ Crash(w) PROVE Order'
  <2>1. db' = db /\ torn' = torn /\ (lock' = lock \/ lock' = None)
    BY <1>3 DEF TimeOut, Crash
  <2>2. \A v \in Worker \ {w} : SameMade(v)
    BY <1>3 DEF TimeOut, Crash, SameMade, IInv, TaskShape
  <2>3. lock' # w
    BY <1>3, OfferAssumption DEF TimeOut, Crash, At, IInv, LockHeld
  <2> QED BY <2>1, <2>2, <2>3, UndisturbedSame, OrderUndisturbed
<1>4. ASSUME NEW w \in Worker, Fail(w) PROVE Order'
  <2>1. db' = db /\ torn' = torn /\ lock' = w
    BY <1>4 DEF Fail
  <2>2. SameTask(w)
    <3>1. Answer(w, "no") \/ Go(w, "undo")
      BY <1>4 DEF Fail, Back
    <3> QED BY <3>1, Goes, Answers DEF IInv, Points
  <2> QED BY <2>1, <2>2, UndisturbedSame, OrderUndisturbed DEF SameTask, SameMade
<1>5. ASSUME NEW w \in Worker, LateError(w) PROVE Order'
  BY <1>5, LateErrorOrdered
<1>6. ASSUME NEW d \in Draft, OlderOffer(d) \/ \E decision \in Decision : OlderApproval(d, decision)
      PROVE  Order'
  <2>1. /\ task' = task /\ torn' = torn /\ db'.handoffs = db.handoffs
        /\ db'.events = db.events /\ db'.audits = db.audits
    BY <1>6 DEF OlderOffer, OlderApproval, IInv, DbShape
  <2>2. Undisturbed
    BY <2>1 DEF Undisturbed, HasEvent, EventsOf, HasAudit
  <2> QED BY <2>1, <2>2, OrderUndisturbed DEF SameMade
<1>7. CASE UNCHANGED vars
  BY <1>7, UndisturbedSame, OrderUndisturbed DEF vars, SameMade
<1> QED BY <1>1, <1>2, <1>3, <1>4, <1>5, <1>6, <1>7 DEF Next

\* The evidence of a hand-over is complete in its order, also while it is undone,
\* but for the drafts where an insert threw after storing its record, until a
\* hand-over of theirs is answered (EvidenceOrder).
THEOREM Evidence == Spec => []EvidenceOrder
<1>1. Init => Order
  <2> SUFFICES ASSUME Init PROVE Order
    OBVIOUS
  <2>1. \A d : InOrder(d)
    BY DEF Init, InOrder, HasEvent, EventsOf
  <2>2. \A w \in Worker : task[w].made = <<>>
    BY DEF Init, Idle
  <2> QED BY <2>1, <2>2 DEF Order, UndoneAt
<1>2. IInv /\ IInv' /\ Order /\ [Next]_vars => Order'
  BY NextOrdered
<1>3. IInv /\ Order => EvidenceOrder
  BY DEF IInv, DbInv, HandoffsDecided, Order, InOrder, EvidenceOrder
<1> QED BY <1>1, <1>2, <1>3, Invariant, PTL DEF Spec

===============================================================================
