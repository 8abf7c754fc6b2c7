------------------------- MODULE ProductionApplyProofs -------------------------
(***************************************************************************)
(* Proofs about ProductionApply, for any workers, number of drafts, stamps *)
(* and faults: whatever presents a draft as applied finds what it applied, *)
(* save for the drafts that are torn; what was answered stands, and what   *)
(* was decided stays.                                                      *)
(***************************************************************************)
EXTENDS ProductionApply, SequenceTheorems, FiniteSetTheorems, TLAPS

-------------------------------------------------------------------------------
(* The shape of the state *)

Decision == [verdict : Verdict, at : Stamp]
EventSet ==
  [kind : {"draft"}, draft : Draft, at : {None}]
    \cup [kind : {"review", "approval", "result"}, draft : Draft, at : Stamp]
Events == Seq(EventSet)
AuditSet ==
  [kind : {"continued"}, draft : Draft, at : {None}]
    \cup [kind : Verdict \cup {"applied"}, draft : Draft, at : Stamp]
ObjectSet == {Object(kind, d) : kind \in ObjectKinds, d \in Draft}
Cases == [spec : Draft \cup {None}, results : Draft \cup {None}, version : Nat]
Things == {"case", "audit", "event", "recipe", "list", "plan", "manifest"}
Makings == SUBSET Things

DbSet ==
  [drafts : [Draft -> DraftStatus], prepared : SUBSET Draft, events : Events,
   aggregates : [Draft -> Decision \cup {None}], approvals : SUBSET Draft, specs : SUBSET Draft,
   objects : SUBSET ObjectSet, manifests : [Draft -> Stamp \cup {None}],
   audits : SUBSET AuditSet, case : Cases]

TaskSet ==
  [pc : Points, job : Job \cup {None}, route : {"commit", "recover", "repair", None},
   at : Stamp \cup {None}, seen : Cases \cup {None}, made : Makings]

Shape == db \in DbSet /\ task \in [Worker -> TaskSet] /\ answered \subseteq Draft

\* The points outside the critical section; whoever is elsewhere has the lock.
Outside == {"idle", "wait", "log"}

LockHeld ==
  /\ lock \in Worker \cup {None}
  /\ \A w \in Worker : task[w].pc \notin Outside <=> lock = w

-------------------------------------------------------------------------------
(* What is stored *)

\* A draft is decided over its aggregate, and the case is linked to none else.
Decided ==
  \A d \in Draft :
    /\ db.aggregates[d] # None => db.drafts[d] \in {"pending", db.aggregates[d].verdict}
    /\ db.drafts[d] \in Verdict =>
         db.aggregates[d] # None /\ db.aggregates[d].verdict = db.drafts[d]
    /\ db.case.spec = d => d \in db.approvals \cap db.specs /\ db.drafts[d] = "approved"

DbInv == Decided /\ ResultsBacked /\ SuccessStands

-------------------------------------------------------------------------------
(* What a request knows at each of its points *)

Kind(w) == task[w].job.kind

HasResult(d) == Positions(d, {"result"}) # {}
HasAudit(d) == \E a \in db.audits : a.kind = "applied" /\ a.draft = d
Made(w, thing) == thing \in task[w].made

\* Nothing presents the draft as applied.
Unapplied(d) ==
  db.case.results # d /\ ~HasResult(d) /\ ~HasAudit(d) /\ d \notin answered

\* Nothing does that has to find what it applied.
Free(d) == Unapplied(d) \/ d \in torn \ answered

\* What the points are for.
JobKnown(w) ==
  /\ task[w].pc # "idle" => task[w].job \in Job
  /\ task[w].pc # "idle" /\ Kind(w) \in {"prepare", "continue"} => D(w) + 1 \in Draft
  /\ task[w].pc \in {"prepare", "supersede"} => Kind(w) = "prepare"
  /\ task[w].pc \in {"continue", "log"} => Kind(w) = "continue"
  /\ task[w].pc \in {"insert", "draftEvent", "reopen"} => Kind(w) \in {"prepare", "continue"}
  /\ task[w].pc = "decide" => Kind(w) = "decide"
  /\ task[w].pc \in {"decisionAudit", "aggregate", "approvalRow", "specRow",
                     "decidedDraft", "reviewEvent", "linkSpec", "approvalEvent"}
       => Kind(w) = "decide" /\ task[w].at \in Stamp
  /\ task[w].pc \in {"apply", "manifest", "results", "resultEvent", "applyAudit"} \cup ObjectKinds
       => Kind(w) = "apply"
  /\ task[w].pc \in {"wait", "apply"} => task[w].made = {}
  /\ task[w].pc # "idle" /\ Kind(w) # "apply" => task[w].made \subseteq {"audit"}
  /\ task[w].pc # "idle" /\ Kind(w) \in {"prepare", "continue"} => task[w].made = {}

\* A preparation and a continuation find their place empty.
PrepareKnown(w) ==
  /\ task[w].pc = "insert" => db.drafts[D(w) + 1] = "none"
  /\ task[w].pc \in {"insert", "supersede"} /\ Kind(w) = "prepare" =>
       db.drafts[D(w)] = "pending" /\ db.aggregates[D(w)] = None

DecideKnown(w) ==
  /\ task[w].pc \in {"decisionAudit", "aggregate"} =>
       IF db.aggregates[D(w)] = None THEN db.drafts[D(w)] = "pending"
       ELSE db.aggregates[D(w)].verdict = task[w].job.verdict
  /\ task[w].pc \in {"approvalRow", "specRow", "decidedDraft", "reviewEvent", "linkSpec"} =>
       db.aggregates[D(w)] # None /\ db.aggregates[D(w)].verdict = task[w].job.verdict
  /\ task[w].pc \in {"specRow", "decidedDraft", "reviewEvent", "linkSpec"} => D(w) \in db.approvals
  /\ task[w].pc \in {"specRow", "linkSpec"} => task[w].job.verdict = "approved"
  /\ task[w].pc \in {"decidedDraft", "reviewEvent", "linkSpec"} /\ task[w].job.verdict = "approved"
       => D(w) \in db.specs
  /\ task[w].pc \in {"reviewEvent", "linkSpec"} => db.drafts[D(w)] = task[w].job.verdict
  /\ task[w].pc \in {"decisionAudit", "aggregate", "approvalRow", "specRow", "decidedDraft",
                     "reviewEvent", "linkSpec"}
       => db.case.spec \in {None, D(w)}

\* The points of an application from its checks on, and those at which it may undo.
Applying ==
  {"manifest", "results", "resultEvent", "applyAudit", "undo"} \cup ObjectKinds

\* The objects an application has found or made.
Found(p) ==
  CASE p = "plan" -> {}
    [] p = "list" -> {"plan"}
    [] p = "recipe" -> {"plan", "list"}
    [] OTHER -> ObjectKinds

\* How far an application has come.
Reached(w) ==
  /\ task[w].pc \in {"plan", "list", "recipe", "manifest", "results"} => IsCurrent(D(w))
  /\ task[w].pc \in (Applying \ {"undo"}) \cup {"done"} =>
       \A kind \in Found(task[w].pc) : Object(kind, D(w)) \in db.objects
  /\ task[w].pc \in {"results", "resultEvent", "applyAudit", "done"} =>
       db.manifests[D(w)] = task[w].at
  /\ task[w].pc \in {"resultEvent", "applyAudit", "done"} => db.case.results = D(w)
  /\ task[w].pc \in {"applyAudit", "done"} =>
       HasResult(D(w)) /\ Agree(D(w), "result", task[w].at)
  /\ task[w].pc = "done" => Audited(w) = {TheAudit(w)}

\* What it has made nobody relies on but what it has made after it: taking that
\* back in UndoOrder leaves nothing that presents the draft without its evidence,
\* unless a write that failed presents it for good.
Owns(w) ==
  LET d == D(w)
      made == task[w].made
  IN
  /\ db.case.spec = d /\ task[w].seen \in Cases /\ task[w].seen.spec = d
  /\ IF "case" \in made THEN task[w].seen.results = None /\ db.case.results = d
     ELSE db.case = task[w].seen \/ (db.case.results = d /\ d \in torn)
  /\ made \cap {"plan", "list", "recipe", "manifest"} # {} /\ d \notin torn =>
       /\ db.case.results = d => "case" \in made
       /\ HasResult(d) => "event" \in made
       /\ HasAudit(d) => "audit" \in made
  /\ made \ {"case"} # {} => d \notin answered
  /\ "recipe" \in made => \A e \in Draft \ {d} : Free(e)
  /\ "event" \in made => Positions(d, {"result"}) = {Len(db.events)}
  /\ "audit" \in made => Audited(w) = {TheAudit(w)}

ApplyKnown(w) ==
  Kind(w) = "apply" =>
    /\ task[w].pc \in Applying \cup {"done"} => task[w].at \in Stamp
    /\ task[w].pc \in Applying => Owns(w)
    /\ task[w].pc \in Applying \ {"undo"} => "audit" \notin task[w].made
    /\ Reached(w)

Known(w) ==
  /\ JobKnown(w) /\ PrepareKnown(w) /\ DecideKnown(w)
  /\ task[w].pc # "idle" => ApplyKnown(w)

IInv == Shape /\ LockHeld /\ DbInv /\ \A w \in Worker : Known(w)

-------------------------------------------------------------------------------
(* Operators *)

LEMMA Ranks ==
  /\ Rank("case") = 1 /\ Rank("audit") = 2 /\ Rank("event") = 3 /\ Rank("recipe") = 4
  /\ Rank("list") = 5 /\ Rank("plan") = 6 /\ Rank("manifest") = 7
<1>1. DOMAIN UndoOrder = 1 .. 7
  BY DEF UndoOrder
<1>2. /\ UndoOrder[1] = "case" /\ UndoOrder[2] = "audit" /\ UndoOrder[3] = "event"
      /\ UndoOrder[4] = "recipe" /\ UndoOrder[5] = "list" /\ UndoOrder[6] = "plan"
      /\ UndoOrder[7] = "manifest"
  BY DEF UndoOrder
<1>3. \A i \in 1 .. 7 : i = 1 \/ i = 2 \/ i = 3 \/ i = 4 \/ i = 5 \/ i = 6 \/ i = 7
  OBVIOUS
<1> QED BY <1>1, <1>2, <1>3 DEF Rank

\* The fields of the records.
LEMMA DbFields ==
  ASSUME db \in DbSet
  PROVE  /\ db.drafts \in [Draft -> DraftStatus] /\ db.prepared \subseteq Draft
         /\ db.events \in Events
         /\ db.aggregates \in [Draft -> Decision \cup {None}]
         /\ db.approvals \subseteq Draft /\ db.specs \subseteq Draft
         /\ db.objects \subseteq ObjectSet
         /\ db.manifests \in [Draft -> Stamp \cup {None}]
         /\ db.audits \subseteq AuditSet /\ db.case \in Cases
BY DEF DbSet

LEMMA DraftNat == Draft \subseteq Nat
BY DraftsAssumption DEF Draft

\* An aggregate that is there is a decision.
LEMMA Aggregates ==
  ASSUME db \in DbSet, NEW d \in Draft, db.aggregates[d] # None
  PROVE  db.aggregates[d] \in Decision /\ db.aggregates[d].verdict \in Verdict
BY DbFields DEF Decision

\* An event that is appended is the last one, and the others keep their places.
LEMMA Appended ==
  ASSUME db \in DbSet, NEW ev \in EventSet, db'.events = Append(db.events, ev)
  PROVE  /\ db'.events \in Events /\ Len(db'.events) = Len(db.events) + 1
         /\ Len(db.events) \in Nat
         /\ \A i \in DOMAIN db.events : i <= Len(db.events) /\ db'.events[i] = db.events[i]
         /\ db'.events[Len(db.events) + 1] = ev
         /\ \A d, kinds :
              Positions(d, kinds)' = Positions(d, kinds)
                \cup IF ev.draft = d /\ ev.kind \in kinds THEN {Len(db.events) + 1} ELSE {}
<1>1. db.events \in Seq(EventSet)
  BY DbFields DEF Events
<1>2. /\ db'.events \in Seq(EventSet) /\ Len(db'.events) = Len(db.events) + 1
      /\ Len(db.events) \in Nat
      /\ DOMAIN db.events = 1 .. Len(db.events)
      /\ DOMAIN db'.events = 1 .. Len(db.events) + 1
      /\ \A i \in 1 .. Len(db.events) : db'.events[i] = db.events[i]
      /\ db'.events[Len(db.events) + 1] = ev
  BY <1>1
<1>3. \A d, kinds :
        Positions(d, kinds)' = Positions(d, kinds)
          \cup IF ev.draft = d /\ ev.kind \in kinds THEN {Len(db.events) + 1} ELSE {}
  BY <1>2 DEF Positions
<1> QED BY <1>2, <1>3 DEF Events

\* The last event is removed, the others keep their places.
LEMMA LastRemoved ==
  ASSUME db \in DbSet, db.events # << >>, db'.events = RemoveAt(db.events, Len(db.events))
  PROVE  /\ db'.events \in Events
         /\ \A i \in DOMAIN db'.events : i \in DOMAIN db.events /\ db'.events[i] = db.events[i]
         /\ \A d, kinds : Positions(d, kinds)' = Positions(d, kinds) \ {Len(db.events)}
<1> DEFINE s == db.events
           n == Len(db.events)
<1>1. s \in Seq(EventSet) /\ n \in Nat /\ n > 0
  <2>1. s \in Seq(EventSet)
    BY DbFields DEF Events
  <2> QED BY <2>1
<1>2. SubSeq(s, n + 1, n) = << >> /\ SubSeq(s, 1, n - 1) \in Seq(EventSet)
  BY <1>1
<1>3. db'.events = SubSeq(s, 1, n - 1)
  <2>1. db'.events = SubSeq(s, 1, n - 1) \o << >>
    BY <1>2 DEF RemoveAt
  <2>2. SubSeq(s, 1, n - 1) \o << >> = SubSeq(s, 1, n - 1)
    BY <1>2
  <2> QED BY <2>1, <2>2
<1>4. /\ DOMAIN s = 1 .. n
      /\ DOMAIN SubSeq(s, 1, n - 1) = 1 .. n - 1
      /\ \A i \in 1 .. n - 1 : SubSeq(s, 1, n - 1)[i] = s[i]
  BY <1>1
<1>5. \A d, kinds : Positions(d, kinds)' = Positions(d, kinds) \ {n}
  BY <1>1, <1>3, <1>4 DEF Positions
<1> QED BY <1>1, <1>2, <1>3, <1>4, <1>5 DEF Events

\* The timeline is what it says of every draft.
LEMMA SameTimeline ==
  ASSUME db'.events = db.events
  PROVE  \A d, kinds : Positions(d, kinds)' = Positions(d, kinds)
BY DEF Positions

LEMMA SameCurrent ==
  ASSUME db'.events = db.events, db'.drafts = db.drafts
  PROVE  \A d : IsCurrent(d)' <=> IsCurrent(d)
<1>1. \A d, kinds : Positions(d, kinds)' = Positions(d, kinds)
  BY SameTimeline
<1>2. \A kinds : Latest(kinds)' = Latest(kinds)
  BY <1>1 DEF Latest
<1> QED BY <1>1, <1>2 DEF IsCurrent, Linked

-------------------------------------------------------------------------------
(* What is stored, after each kind of write *)

Stored == db \in DbSet /\ answered \subseteq Draft /\ DbInv

LEMMA StoredKept ==
  ASSUME Stored, answered' = answered /\ torn \subseteq torn', db' = db
  PROVE  Stored'
BY SameTimeline DEF Stored, DbInv, Decided, ResultsBacked, SuccessStands, Backed

\* Evidence that only grows keeps what presents a draft as applied.
LEMMA EvidenceGrows ==
  ASSUME Stored, answered' = answered /\ torn \subseteq torn',
         db.objects \subseteq db'.objects,
         \A d \in Draft : db.manifests[d] # None => db'.manifests[d] = db.manifests[d],
         db'.case.results # None =>
           db'.case.results = db.case.results /\ db'.case.spec = db.case.spec,
         \A a : a.kind = "applied" => (a \in db'.audits <=> a \in db.audits),
         \A d : Positions(d, {"result"})' = Positions(d, {"result"}),
         \A i \in DOMAIN db.events : db'.events[i] = db.events[i]
  PROVE  ResultsBacked' /\ SuccessStands'
<1>1. \A d \in Draft, at \in Stamp : Backed(d, at) => Backed(d, at)'
  BY NoneAssumption DEF Backed, Stored
<1>2. \A d \in Draft : \A i \in Positions(d, {"result"}) :
        i \in DOMAIN db.events /\ db.events[i].at \in Stamp
  BY DbFields DEF Positions, Stored, Events, EventSet
<1>3. \A a \in db.audits : a.kind = "applied" => a.at \in Stamp
  BY DbFields DEF Stored, AuditSet
<1>4. ResultsBacked'
  BY <1>1, <1>2, <1>3, NoneAssumption DEF Stored, DbInv, ResultsBacked
<1>5. SuccessStands'
  <2> SUFFICES ASSUME NEW d \in answered
               PROVE  /\ Positions(d, {"result"})' # {}
                      /\ \E a \in db'.audits : a.kind = "applied" /\ a.draft = d
                      /\ Backed(d, db.manifests[d])' /\ db'.manifests[d] # None
    BY DEF SuccessStands, Stored, Backed
  <2>1. /\ Positions(d, {"result"}) # {}
        /\ \E a \in db.audits : a.kind = "applied" /\ a.draft = d
        /\ Backed(d, db.manifests[d]) /\ db.manifests[d] # None
    BY DEF Stored, DbInv, SuccessStands
  <2>2. d \in Draft /\ db.manifests[d] \in Stamp
    BY <2>1, DbFields DEF Stored
  <2> QED BY <1>1, <2>1, <2>2
<1> QED BY <1>4, <1>5

\* A new draft, of a preparation or a continuation.
LEMMA DraftInserted ==
  ASSUME Stored, answered' = answered, torn \subseteq torn',
         NEW d \in Draft, NEW P \in SUBSET Draft,
         db.drafts[d] = "none",
         db' = [db EXCEPT !.drafts[d] = "pending", !.prepared = P]
  PROVE  Stored'
<1>1. db' \in DbSet
  BY DEF Stored, DbSet, DraftStatus
<1>2. /\ db'.drafts = [db.drafts EXCEPT ![d] = "pending"]
      /\ db'.events = db.events /\ db'.aggregates = db.aggregates /\ db'.approvals = db.approvals
      /\ db'.specs = db.specs /\ db'.objects = db.objects /\ db'.manifests = db.manifests
      /\ db'.audits = db.audits /\ db'.case = db.case
  BY DEF Stored, DbSet
<1>3. Decided'
  <2>1. db.aggregates[d] = None
    BY Aggregates DEF Stored, DbInv, Decided, Verdict
  <2> QED BY <1>2, <2>1, DbFields DEF Stored, DbInv, Decided, Verdict
<1>4. ResultsBacked' /\ SuccessStands'
  BY <1>2, EvidenceGrows, SameTimeline
<1> QED BY <1>1, <1>3, <1>4 DEF Stored, DbInv

\* An open draft that nobody has decided is superseded.
LEMMA DraftSuperseded ==
  ASSUME Stored, answered' = answered /\ torn \subseteq torn', NEW d \in Draft,
         db.drafts[d] = "pending", db.aggregates[d] = None,
         db' = [db EXCEPT !.drafts[d] = "superseded"]
  PROVE  Stored'
<1>1. db' \in DbSet
  BY DEF Stored, DbSet, DraftStatus
<1>2. /\ db'.drafts = [db.drafts EXCEPT ![d] = "superseded"]
      /\ db'.events = db.events /\ db'.aggregates = db.aggregates /\ db'.approvals = db.approvals
      /\ db'.specs = db.specs /\ db'.objects = db.objects /\ db'.manifests = db.manifests
      /\ db'.audits = db.audits /\ db'.case = db.case
  BY DEF Stored, DbSet
<1>3. Decided'
  BY <1>2, DbFields DEF Stored, DbInv, Decided, Verdict
<1>4. ResultsBacked' /\ SuccessStands'
  BY <1>2, EvidenceGrows, SameTimeline
<1> QED BY <1>1, <1>3, <1>4 DEF Stored, DbInv

\* The draft shows the verdict of its aggregate.
LEMMA DraftDecided ==
  ASSUME Stored, answered' = answered /\ torn \subseteq torn', NEW d \in Draft,
         db.aggregates[d] # None,
         db' = [db EXCEPT !.drafts[d] = db.aggregates[d].verdict]
  PROVE  Stored' /\ db'.drafts[d] = db.aggregates[d].verdict
<1>0. db.aggregates[d].verdict \in Verdict
  BY Aggregates DEF Stored
<1>1. db' \in DbSet
  BY <1>0 DEF Stored, DbSet, DraftStatus
<1>2. /\ db'.drafts = [db.drafts EXCEPT ![d] = db.aggregates[d].verdict]
      /\ db'.events = db.events /\ db'.aggregates = db.aggregates /\ db'.approvals = db.approvals
      /\ db'.specs = db.specs /\ db'.objects = db.objects /\ db'.manifests = db.manifests
      /\ db'.audits = db.audits /\ db'.case = db.case
  BY DEF Stored, DbSet
<1>3. Decided'
  BY <1>0, <1>2, DbFields DEF Stored, DbInv, Decided, Verdict
<1>4. ResultsBacked' /\ SuccessStands'
  BY <1>2, EvidenceGrows, SameTimeline
<1> QED BY <1>1, <1>2, <1>3, <1>4, DbFields DEF Stored, DbInv

\* An event other than the result of an application.
LEMMA EventAdded ==
  ASSUME Stored, answered' = answered, torn \subseteq torn',
         NEW ev \in EventSet, ev.kind # "result",
         db' = [db EXCEPT !.events = Append(@, ev)]
  PROVE  Stored'
<1>1. /\ db'.events = Append(db.events, ev)
      /\ db'.drafts = db.drafts /\ db'.prepared = db.prepared
      /\ db'.aggregates = db.aggregates /\ db'.approvals = db.approvals
      /\ db'.specs = db.specs /\ db'.objects = db.objects /\ db'.manifests = db.manifests
      /\ db'.audits = db.audits /\ db'.case = db.case
  BY DEF Stored, DbSet
<1>2. /\ db'.events \in Events
      /\ \A i \in DOMAIN db.events : db'.events[i] = db.events[i]
      /\ \A d : Positions(d, {"result"})' = Positions(d, {"result"})
  <2>1. db \in DbSet /\ ev.kind \notin {"result"}
    BY DEF Stored
  <2>2. /\ db'.events \in Events
        /\ \A i \in DOMAIN db.events : db'.events[i] = db.events[i]
        /\ \A d, kinds :
             Positions(d, kinds)' = Positions(d, kinds)
               \cup IF ev.draft = d /\ ev.kind \in kinds THEN {Len(db.events) + 1} ELSE {}
    BY <1>1, <2>1, Appended
  <2> QED BY <2>1, <2>2
<1>3. db' \in DbSet
  BY <1>2 DEF Stored, DbSet
<1>4. Decided'
  BY <1>1 DEF Stored, DbInv, Decided
<1>5. ResultsBacked' /\ SuccessStands'
  BY <1>1, <1>2, EvidenceGrows
<1> QED BY <1>3, <1>4, <1>5 DEF Stored, DbInv

\* An audit other than that of an application is added or taken back.
LEMMA AuditsChanged ==
  ASSUME Stored, answered' = answered /\ torn \subseteq torn', NEW A \in SUBSET AuditSet,
         \A a : a.kind = "applied" => (a \in A <=> a \in db.audits),
         db' = [db EXCEPT !.audits = A]
  PROVE  Stored'
<1>1. /\ db'.events = db.events
      /\ db'.drafts = db.drafts /\ db'.prepared = db.prepared
      /\ db'.aggregates = db.aggregates /\ db'.approvals = db.approvals
      /\ db'.specs = db.specs /\ db'.objects = db.objects /\ db'.manifests = db.manifests
      /\ db'.audits = A /\ db'.case = db.case
  BY DEF Stored, DbSet
<1>2. db' \in DbSet
  BY DEF Stored, DbSet
<1>3. Decided'
  BY <1>1 DEF Stored, DbInv, Decided
<1>4. ResultsBacked' /\ SuccessStands'
  BY <1>1, EvidenceGrows, SameTimeline
<1> QED BY <1>2, <1>3, <1>4 DEF Stored, DbInv

\* The aggregate decides an open draft.
LEMMA AggregateSet ==
  ASSUME Stored, answered' = answered, torn \subseteq torn',
         NEW d \in Draft, NEW c \in Decision,
         db.aggregates[d] = None, db.drafts[d] = "pending",
         db' = [db EXCEPT !.aggregates[d] = c]
  PROVE  Stored' /\ db'.aggregates[d] = c
<1>1. /\ db'.events = db.events
      /\ db'.drafts = db.drafts /\ db'.prepared = db.prepared
      /\ db'.aggregates = [db.aggregates EXCEPT ![d] = c] /\ db'.approvals = db.approvals
      /\ db'.specs = db.specs /\ db'.objects = db.objects /\ db'.manifests = db.manifests
      /\ db'.audits = db.audits /\ db'.case = db.case
  BY DEF Stored, DbSet
<1>2. db' \in DbSet
  BY DEF Stored, DbSet
<1>3. Decided'
  BY <1>1, DbFields DEF Stored, DbInv, Decided, Verdict
<1>4. ResultsBacked' /\ SuccessStands'
  BY <1>1, EvidenceGrows, SameTimeline
<1> QED BY <1>1, <1>2, <1>3, <1>4, DbFields DEF Stored, DbInv

\* The read projections grow.
LEMMA RowsWritten ==
  ASSUME Stored, answered' = answered, torn \subseteq torn',
         NEW A \in SUBSET Draft, NEW S \in SUBSET Draft,
         db.approvals \subseteq A, db.specs \subseteq S,
         db' = [db EXCEPT !.approvals = A, !.specs = S]
  PROVE  Stored'
<1>1. /\ db'.events = db.events
      /\ db'.drafts = db.drafts /\ db'.prepared = db.prepared
      /\ db'.aggregates = db.aggregates /\ db'.approvals = A
      /\ db'.specs = S /\ db'.objects = db.objects /\ db'.manifests = db.manifests
      /\ db'.audits = db.audits /\ db'.case = db.case
  BY DEF Stored, DbSet
<1>2. db' \in DbSet
  BY DEF Stored, DbSet
<1>3. Decided'
  BY <1>1 DEF Stored, DbInv, Decided
<1>4. ResultsBacked' /\ SuccessStands'
  BY <1>1, EvidenceGrows, SameTimeline
<1> QED BY <1>2, <1>3, <1>4 DEF Stored, DbInv

\* The case is linked to an approved draft, reopened, or loses its results.
LEMMA CaseWritten ==
  ASSUME Stored, answered' = answered /\ torn \subseteq torn', NEW c \in Cases,
         \/ c.spec \in {None, db.case.spec}
         \/ c.spec \in db.approvals \cap db.specs /\ db.drafts[c.spec] = "approved",
         c.results # None => c.results = db.case.results /\ c.spec = db.case.spec,
         db' = [db EXCEPT !.case = c]
  PROVE  Stored'
<1>1. /\ db'.events = db.events
      /\ db'.drafts = db.drafts /\ db'.prepared = db.prepared
      /\ db'.aggregates = db.aggregates /\ db'.approvals = db.approvals
      /\ db'.specs = db.specs /\ db'.objects = db.objects /\ db'.manifests = db.manifests
      /\ db'.audits = db.audits /\ db'.case = c
  BY DEF Stored, DbSet
<1>2. db' \in DbSet
  BY DEF Stored, DbSet
<1>3. Decided'
  BY <1>1, NoneAssumption DEF Stored, DbInv, Decided
<1>4. ResultsBacked' /\ SuccessStands'
  BY <1>1, EvidenceGrows, SameTimeline
<1> QED BY <1>2, <1>3, <1>4 DEF Stored, DbInv

\* An object, found by nobody, is made.
LEMMA ObjectMade ==
  ASSUME Stored, answered' = answered, torn \subseteq torn',
         NEW kind \in ObjectKinds, NEW d \in Draft,
         db' = [db EXCEPT !.objects = @ \cup {Object(kind, d)}]
  PROVE  Stored'
<1>1. /\ db'.events = db.events
      /\ db'.drafts = db.drafts /\ db'.prepared = db.prepared
      /\ db'.aggregates = db.aggregates /\ db'.approvals = db.approvals
      /\ db'.specs = db.specs /\ db'.objects = db.objects \cup {Object(kind, d)}
      /\ db'.manifests = db.manifests /\ db'.audits = db.audits /\ db'.case = db.case
  BY DEF Stored, DbSet
<1>2. db' \in DbSet
  BY DEF Stored, DbSet, ObjectSet
<1>3. Decided'
  BY <1>1 DEF Stored, DbInv, Decided
<1>4. ResultsBacked' /\ SuccessStands'
  BY <1>1, EvidenceGrows, SameTimeline
<1> QED BY <1>2, <1>3, <1>4 DEF Stored, DbInv

\* An application is claimed.
LEMMA ManifestMade ==
  ASSUME Stored, answered' = answered, torn \subseteq torn',
         NEW d \in Draft, NEW at \in Stamp,
         db.manifests[d] = None,
         db' = [db EXCEPT !.manifests[d] = at]
  PROVE  Stored' /\ db'.manifests[d] = at
<1>1. /\ db'.events = db.events
      /\ db'.drafts = db.drafts /\ db'.prepared = db.prepared
      /\ db'.aggregates = db.aggregates /\ db'.approvals = db.approvals
      /\ db'.specs = db.specs /\ db'.objects = db.objects
      /\ db'.manifests = [db.manifests EXCEPT ![d] = at]
      /\ db'.audits = db.audits /\ db'.case = db.case
  BY DEF Stored, DbSet
<1>2. db' \in DbSet
  BY DEF Stored, DbSet
<1>3. Decided'
  BY <1>1 DEF Stored, DbInv, Decided
<1>4. \A e \in Draft : db.manifests[e] # None => db'.manifests[e] = db.manifests[e]
  BY <1>1, DbFields DEF Stored
<1>5. ResultsBacked' /\ SuccessStands'
  BY <1>1, <1>4, EvidenceGrows, SameTimeline
<1> QED BY <1>1, <1>2, <1>3, <1>5, DbFields DEF Stored, DbInv

\* The case names the results of the draft that it is linked to.
LEMMA ResultsLinked ==
  ASSUME Stored, answered' = answered, torn \subseteq torn',
         NEW d \in Draft, NEW at \in Stamp, Backed(d, at),
         NEW c \in Cases, c.spec = d, c.results = d, db.case.spec = d,
         db' = [db EXCEPT !.case = c]
  PROVE  Stored'
<1>1. /\ db'.events = db.events
      /\ db'.drafts = db.drafts /\ db'.prepared = db.prepared
      /\ db'.aggregates = db.aggregates /\ db'.approvals = db.approvals
      /\ db'.specs = db.specs /\ db'.objects = db.objects /\ db'.manifests = db.manifests
      /\ db'.audits = db.audits /\ db'.case = c
  BY DEF Stored, DbSet
<1>2. db' \in DbSet
  BY DEF Stored, DbSet
<1>3. Decided'
  BY <1>1 DEF Stored, DbInv, Decided
<1>4. \A e, s : Backed(e, s)' <=> Backed(e, s)
  BY <1>1 DEF Backed
<1>5. \A e, k : Positions(e, k)' = Positions(e, k)
  BY <1>1, SameTimeline
<1>6. ResultsBacked'
  BY <1>1, <1>4, <1>5 DEF Stored, DbInv, ResultsBacked
<1>7. SuccessStands'
  BY <1>1, <1>4, <1>5 DEF Stored, DbInv, SuccessStands
<1> QED BY <1>2, <1>3, <1>6, <1>7 DEF Stored, DbInv

\* The result of an application is added to the timeline.
LEMMA ResultAdded ==
  ASSUME Stored, answered' = answered, torn \subseteq torn',
         NEW d \in Draft, NEW at \in Stamp, Backed(d, at),
         db' = [db EXCEPT !.events = Append(@, [kind |-> "result", draft |-> d, at |-> at])]
  PROVE  /\ Stored' /\ Len(db'.events) = Len(db.events) + 1
         /\ \A e : Positions(e, {"result"})' =
                     Positions(e, {"result"}) \cup IF e = d THEN {Len(db.events) + 1} ELSE {}
<1> DEFINE ev == [kind |-> "result", draft |-> d, at |-> at]
<1>1. /\ db'.events = Append(db.events, ev)
      /\ db'.drafts = db.drafts /\ db'.prepared = db.prepared
      /\ db'.aggregates = db.aggregates /\ db'.approvals = db.approvals
      /\ db'.specs = db.specs /\ db'.objects = db.objects /\ db'.manifests = db.manifests
      /\ db'.audits = db.audits /\ db'.case = db.case
  BY DEF Stored, DbSet
<1>2. ev \in EventSet /\ ev.kind = "result" /\ ev.draft = d /\ ev.at = at /\ db \in DbSet
  BY DEF EventSet, Stored
<1> HIDE DEF ev
<1>3. /\ db'.events \in Events /\ Len(db'.events) = Len(db.events) + 1
      /\ \A i \in DOMAIN db.events : db'.events[i] = db.events[i]
      /\ db'.events[Len(db.events) + 1] = ev
      /\ \A e, kinds :
           Positions(e, kinds)' = Positions(e, kinds)
             \cup IF ev.draft = e /\ ev.kind \in kinds THEN {Len(db.events) + 1} ELSE {}
  BY <1>1, <1>2, Appended
<1>4. \A e : Positions(e, {"result"})' =
               Positions(e, {"result"}) \cup IF e = d THEN {Len(db.events) + 1} ELSE {}
  BY <1>2, <1>3
<1>5. db' \in DbSet
  BY <1>3 DEF Stored, DbSet
<1>6. Decided'
  BY <1>1 DEF Stored, DbInv, Decided
<1>7. \A e, s : Backed(e, s)' <=> Backed(e, s)
  BY <1>1 DEF Backed
<1>8. ASSUME NEW e \in Draft, e \notin torn' \ answered',
             NEW i \in Positions(e, {"result"})'
      PROVE  Backed(e, db.events[i].at)'
  <2>1. CASE i \in Positions(e, {"result"})
    <3>1. i \in DOMAIN db.events /\ Backed(e, db.events[i].at)
      BY <1>8, <2>1 DEF Stored, DbInv, ResultsBacked, Positions
    <3>2. db'.events[i] = db.events[i]
      BY <1>3, <3>1
    <3> QED BY <1>1, <3>1, <3>2 DEF Backed
  <2>2. CASE e = d /\ i = Len(db.events) + 1
    BY <1>1, <1>2, <1>3, <2>2 DEF Backed
  <2> QED BY <1>4, <1>8, <2>1, <2>2
<1>9. ResultsBacked'
  <2>1. \A e \in Draft \ (torn' \ answered') :
          \A i \in Positions(e, {"result"})' : Backed(e, db.events[i].at)'
    BY <1>8
  <2>2. /\ \A e \in Draft : db'.case.results = e => db'.case.spec = e
        /\ \A e \in Draft \ (torn' \ answered') :
          /\ db'.case.results = e => \E s \in Stamp : Backed(e, s)'
          /\ \A a \in db'.audits : a.kind = "applied" /\ a.draft = e => Backed(e, a.at)'
    BY <1>1, <1>7 DEF Stored, DbInv, ResultsBacked
  <2> QED BY <2>1, <2>2 DEF ResultsBacked
<1>10. SuccessStands'
  BY <1>1, <1>4, <1>7 DEF Stored, DbInv, SuccessStands
<1> QED BY <1>3, <1>4, <1>5, <1>6, <1>9, <1>10 DEF Stored, DbInv

\* An application is audited.
LEMMA ApplicationAudited ==
  ASSUME Stored, answered' = answered, torn \subseteq torn',
         NEW d \in Draft, NEW at \in Stamp, Backed(d, at),
         db' = [db EXCEPT !.audits = @ \cup {[kind |-> "applied", draft |-> d, at |-> at]}]
  PROVE  Stored'
<1> DEFINE audit == [kind |-> "applied", draft |-> d, at |-> at]
<1>1. /\ db'.events = db.events
      /\ db'.drafts = db.drafts /\ db'.prepared = db.prepared
      /\ db'.aggregates = db.aggregates /\ db'.approvals = db.approvals
      /\ db'.specs = db.specs /\ db'.objects = db.objects /\ db'.manifests = db.manifests
      /\ db'.audits = db.audits \cup {audit} /\ db'.case = db.case
  BY DEF Stored, DbSet
<1>2. audit \in AuditSet /\ audit.draft = d /\ audit.at = at
  BY DEF AuditSet
<1> HIDE DEF audit
<1>3. db' \in DbSet
  BY <1>2 DEF Stored, DbSet, audit
<1>4. Decided'
  BY <1>1 DEF Stored, DbInv, Decided
<1>5. \A e, s : Backed(e, s)' <=> Backed(e, s)
  BY <1>1 DEF Backed
<1>6. \A e, k : Positions(e, k)' = Positions(e, k)
  BY <1>1, SameTimeline
<1>7. ResultsBacked'
  BY <1>1, <1>2, <1>5, <1>6 DEF Stored, DbInv, ResultsBacked
<1>8. SuccessStands'
  BY <1>1, <1>5, <1>6 DEF Stored, DbInv, SuccessStands
<1> QED BY <1>3, <1>4, <1>7, <1>8 DEF Stored, DbInv

-------------------------------------------------------------------------------
(* What is stored, after something was taken back *)

LEMMA AuditTaken ==
  ASSUME Stored, answered' = answered, torn \subseteq torn',
         NEW a, a.draft \notin answered,
         db' = [db EXCEPT !.audits = @ \ {a}]
  PROVE  Stored'
<1>1. /\ db'.events = db.events
      /\ db'.drafts = db.drafts /\ db'.prepared = db.prepared
      /\ db'.aggregates = db.aggregates /\ db'.approvals = db.approvals
      /\ db'.specs = db.specs /\ db'.objects = db.objects /\ db'.manifests = db.manifests
      /\ db'.audits = db.audits \ {a} /\ db'.case = db.case
  BY DEF Stored, DbSet
<1>2. db' \in DbSet
  BY DEF Stored, DbSet
<1>3. Decided'
  BY <1>1 DEF Stored, DbInv, Decided
<1>4. \A e, s : Backed(e, s)' <=> Backed(e, s)
  BY <1>1 DEF Backed
<1>5. \A e, k : Positions(e, k)' = Positions(e, k)
  BY <1>1, SameTimeline
<1>6. ResultsBacked'
  BY <1>1, <1>4, <1>5 DEF Stored, DbInv, ResultsBacked
<1>7. SuccessStands'
  BY <1>1, <1>4, <1>5 DEF Stored, DbInv, SuccessStands
<1> QED BY <1>2, <1>3, <1>6, <1>7 DEF Stored, DbInv

LEMMA ResultTaken ==
  ASSUME Stored, answered' = answered, torn \subseteq torn',
         NEW d \in Draft, d \notin answered,
         Positions(d, {"result"}) = {Len(db.events)},
         db' = [db EXCEPT !.events = RemoveAt(@, Len(db.events))]
  PROVE  /\ Stored'
         /\ \A e : Positions(e, {"result"})' = IF e = d THEN {} ELSE Positions(e, {"result"})
<1>1. /\ db'.events = RemoveAt(db.events, Len(db.events))
      /\ db'.drafts = db.drafts /\ db'.prepared = db.prepared
      /\ db'.aggregates = db.aggregates /\ db'.approvals = db.approvals
      /\ db'.specs = db.specs /\ db'.objects = db.objects /\ db'.manifests = db.manifests
      /\ db'.audits = db.audits /\ db'.case = db.case
  BY DEF Stored, DbSet
<1>2. db \in DbSet /\ Len(db.events) \in DOMAIN db.events /\ db.events[Len(db.events)].draft = d
  BY DEF Stored, Positions
<1>3. db.events # << >>
  <2>1. DOMAIN << >> = {}
    OBVIOUS
  <2> QED BY <1>2, <2>1
<1>4. /\ db'.events \in Events
      /\ \A i \in DOMAIN db'.events : i \in DOMAIN db.events /\ db'.events[i] = db.events[i]
      /\ \A e, kinds : Positions(e, kinds)' = Positions(e, kinds) \ {Len(db.events)}
  BY <1>1, <1>2, <1>3, LastRemoved
<1>5. \A e : Positions(e, {"result"})' = IF e = d THEN {} ELSE Positions(e, {"result"})
  <2>1. \A e : e # d => Len(db.events) \notin Positions(e, {"result"})
    BY <1>2 DEF Positions
  <2> QED BY <1>4, <2>1
<1>6. db' \in DbSet
  BY <1>4 DEF Stored, DbSet
<1>7. Decided'
  BY <1>1 DEF Stored, DbInv, Decided
<1>8. \A e, s : Backed(e, s)' <=> Backed(e, s)
  BY <1>1 DEF Backed
<1>9. ASSUME NEW e \in Draft, e \notin torn' \ answered',
             NEW i \in Positions(e, {"result"})'
      PROVE  Backed(e, db.events[i].at)'
  <2>1. i \in Positions(e, {"result"}) /\ db'.events[i] = db.events[i]
    <3>1. i \in DOMAIN db'.events
      BY <1>9 DEF Positions
    <3> QED BY <1>4, <1>9, <3>1
  <2>2. Backed(e, db.events[i].at)
    BY <1>9, <2>1 DEF Stored, DbInv, ResultsBacked
  <2> QED BY <1>1, <2>1, <2>2 DEF Backed
<1>10. ResultsBacked'
  BY <1>1, <1>8, <1>9 DEF Stored, DbInv, ResultsBacked, Backed
<1>11. SuccessStands'
  <2>1. \A e \in answered : e # d
    OBVIOUS
  <2> QED BY <1>1, <1>5, <1>8, <2>1 DEF Stored, DbInv, SuccessStands
<1> QED BY <1>5, <1>6, <1>7, <1>10, <1>11 DEF Stored, DbInv

\* An object is removed: nothing that needs it is presented as applied.
LEMMA ObjectTaken ==
  ASSUME Stored, answered' = answered /\ torn \subseteq torn', NEW o,
         \A kind \in ObjectKinds, e \in Draft : Object(kind, e) = o => Free(e),
         db' = [db EXCEPT !.objects = @ \ {o}]
  PROVE  Stored'
<1>1. /\ db'.events = db.events
      /\ db'.drafts = db.drafts /\ db'.prepared = db.prepared
      /\ db'.aggregates = db.aggregates /\ db'.approvals = db.approvals
      /\ db'.specs = db.specs /\ db'.objects = db.objects \ {o} /\ db'.manifests = db.manifests
      /\ db'.audits = db.audits /\ db'.case = db.case
  BY DEF Stored, DbSet
<1>2. db' \in DbSet
  BY DEF Stored, DbSet
<1>3. Decided'
  BY <1>1 DEF Stored, DbInv, Decided
<1>4. \A e, k : Positions(e, k)' = Positions(e, k)
  BY <1>1, SameTimeline
<1>5. \A e \in Draft : \A s : Backed(e, s) => Backed(e, s)' \/ Free(e)
  BY <1>1 DEF Backed
<1>6. ResultsBacked'
  BY <1>1, <1>4, <1>5 DEF Stored, DbInv, ResultsBacked, Free, Unapplied, HasResult, HasAudit
<1>7. SuccessStands'
  BY <1>1, <1>4, <1>5 DEF Stored, DbInv, SuccessStands, Free, Unapplied
<1> QED BY <1>2, <1>3, <1>6, <1>7 DEF Stored, DbInv

LEMMA ManifestTaken ==
  ASSUME Stored, answered' = answered /\ torn \subseteq torn', NEW d \in Draft, Free(d),
         db' = [db EXCEPT !.manifests[d] = None]
  PROVE  Stored'
<1>1. /\ db'.events = db.events
      /\ db'.drafts = db.drafts /\ db'.prepared = db.prepared
      /\ db'.aggregates = db.aggregates /\ db'.approvals = db.approvals
      /\ db'.specs = db.specs /\ db'.objects = db.objects
      /\ db'.manifests = [db.manifests EXCEPT ![d] = None]
      /\ db'.audits = db.audits /\ db'.case = db.case
  BY DEF Stored, DbSet
<1>2. db' \in DbSet
  BY DEF Stored, DbSet
<1>3. Decided'
  BY <1>1 DEF Stored, DbInv, Decided
<1>4. \A e, k : Positions(e, k)' = Positions(e, k)
  BY <1>1, SameTimeline
<1>5. \A e \in Draft : db'.manifests[e] = db.manifests[e] \/ Free(e)
  BY <1>1, DbFields DEF Stored
<1>6. \A e \in Draft : \A s : Backed(e, s) => Backed(e, s)' \/ Free(e)
  BY <1>1, <1>5 DEF Backed
<1>7. ResultsBacked'
  BY <1>1, <1>4, <1>6 DEF Stored, DbInv, ResultsBacked, Free, Unapplied, HasResult, HasAudit
<1>8. SuccessStands'
  BY <1>1, <1>4, <1>5, <1>6 DEF Stored, DbInv, SuccessStands, Free, Unapplied
<1> QED BY <1>2, <1>3, <1>7, <1>8 DEF Stored, DbInv

-------------------------------------------------------------------------------
(* A step of one request *)

\* What a request carries on.
Same(w) ==
  task'[w].job = task[w].job /\ task'[w].route = task[w].route

Others(w) == \A v \in Worker \ {w} : task'[v] = task[v]

LEMMA Goes ==
  ASSUME task \in [Worker -> TaskSet], NEW w \in Worker, NEW p \in Points,
         task' = [task EXCEPT ![w].pc = p]
  PROVE  /\ task' \in [Worker -> TaskSet] /\ Others(w) /\ Same(w)
         /\ task'[w].pc = p /\ task'[w].made = task[w].made
         /\ task'[w].at = task[w].at /\ task'[w].seen = task[w].seen
BY DEF TaskSet, Others, Same

Making(w, p, m) == task' = [task EXCEPT ![w].pc = p, ![w].made = m]

LEMMA Makes ==
  ASSUME task \in [Worker -> TaskSet], NEW w \in Worker, NEW p \in Points,
         NEW m \in Makings, Making(w, p, m)
  PROVE  /\ task' \in [Worker -> TaskSet] /\ Others(w) /\ Same(w)
         /\ task'[w].pc = p /\ task'[w].made = m
         /\ task'[w].at = task[w].at /\ task'[w].seen = task[w].seen
<1> DEFINE u == [task EXCEPT ![w].pc = p]
<1>1. /\ u \in [Worker -> TaskSet] /\ \A v \in Worker \ {w} : u[v] = task[v]
      /\ u[w].pc = p /\ u[w].job = task[w].job /\ u[w].route = task[w].route
      /\ u[w].at = task[w].at /\ u[w].seen = task[w].seen
  BY DEF TaskSet
<1>2. task' = [u EXCEPT ![w].made = m]
  BY DEF Making
<1> HIDE DEF u
<1>3. PICK r \in TaskSet : r = u[w]
  BY <1>1
<1>4. PICK q : q = [r EXCEPT !.made = m]
  OBVIOUS
<1>5. /\ q \in TaskSet
      /\ q.pc = r.pc /\ q.job = r.job /\ q.route = r.route
      /\ q.at = r.at /\ q.seen = r.seen /\ q.made = m
  BY <1>4 DEF TaskSet
<1>6. task' = [v \in Worker |-> IF v = w THEN q ELSE u[v]]
  BY <1>1, <1>2, <1>3, <1>4
<1>7. /\ task' \in [Worker -> TaskSet] /\ task'[w] = q
      /\ \A v \in Worker \ {w} : task'[v] = task[v]
  BY <1>1, <1>5, <1>6
<1> QED BY <1>1, <1>3, <1>5, <1>7 DEF Others, Same

Stamping(w, p, at) == task' = [task EXCEPT ![w].pc = p, ![w].at = at]

LEMMA Stamps ==
  ASSUME task \in [Worker -> TaskSet], NEW w \in Worker, NEW p \in Points,
         NEW at \in Stamp \cup {None}, Stamping(w, p, at)
  PROVE  /\ task' \in [Worker -> TaskSet] /\ Others(w) /\ Same(w)
         /\ task'[w].pc = p /\ task'[w].made = task[w].made
         /\ task'[w].at = at /\ task'[w].seen = task[w].seen
<1> DEFINE u == [task EXCEPT ![w].pc = p]
<1>1. /\ u \in [Worker -> TaskSet] /\ \A v \in Worker \ {w} : u[v] = task[v]
      /\ u[w].pc = p /\ u[w].job = task[w].job /\ u[w].route = task[w].route
      /\ u[w].made = task[w].made /\ u[w].seen = task[w].seen
  BY DEF TaskSet
<1>2. task' = [u EXCEPT ![w].at = at]
  BY DEF Stamping
<1> HIDE DEF u
<1>3. PICK r \in TaskSet : r = u[w]
  BY <1>1
<1>4. PICK q : q = [r EXCEPT !.at = at]
  OBVIOUS
<1>5. /\ q \in TaskSet
      /\ q.pc = r.pc /\ q.job = r.job /\ q.route = r.route
      /\ q.at = at /\ q.seen = r.seen /\ q.made = r.made
  BY <1>4 DEF TaskSet
<1>6. task' = [v \in Worker |-> IF v = w THEN q ELSE u[v]]
  BY <1>1, <1>2, <1>3, <1>4
<1>7. /\ task' \in [Worker -> TaskSet] /\ task'[w] = q
      /\ \A v \in Worker \ {w} : task'[v] = task[v]
  BY <1>1, <1>5, <1>6
<1> QED BY <1>1, <1>3, <1>5, <1>7 DEF Others, Same

Seeing(w, p, at, c) == task' = [task EXCEPT ![w].pc = p, ![w].at = at, ![w].seen = c]

LEMMA Sees ==
  ASSUME task \in [Worker -> TaskSet], NEW w \in Worker, NEW p \in Points,
         NEW at \in Stamp, NEW c \in Cases, Seeing(w, p, at, c)
  PROVE  /\ task' \in [Worker -> TaskSet] /\ Others(w) /\ Same(w)
         /\ task'[w].pc = p /\ task'[w].made = task[w].made
         /\ task'[w].at = at /\ task'[w].seen = c
<1> DEFINE u == [task EXCEPT ![w].pc = p, ![w].at = at]
<1>1. /\ u \in [Worker -> TaskSet] /\ \A v \in Worker \ {w} : u[v] = task[v]
      /\ u[w].pc = p /\ u[w].job = task[w].job /\ u[w].route = task[w].route
      /\ u[w].made = task[w].made /\ u[w].at = at
  <2> DEFINE x == [task EXCEPT ![w].pc = p]
  <2>1. /\ x \in [Worker -> TaskSet] /\ \A v \in Worker \ {w} : x[v] = task[v]
        /\ x[w].pc = p /\ x[w].job = task[w].job /\ x[w].route = task[w].route
        /\ x[w].made = task[w].made
    BY DEF TaskSet
  <2>2. u = [x EXCEPT ![w].at = at]
    OBVIOUS
  <2> HIDE DEF x, u
  <2>3. PICK r \in TaskSet : r = x[w]
    BY <2>1
  <2>4. PICK q : q = [r EXCEPT !.at = at]
    OBVIOUS
  <2>5. /\ q \in TaskSet /\ q.pc = r.pc /\ q.job = r.job /\ q.route = r.route
        /\ q.made = r.made /\ q.at = at
    BY <2>4 DEF TaskSet
  <2>6. u = [v \in Worker |-> IF v = w THEN q ELSE x[v]]
    BY <2>1, <2>2, <2>3, <2>4
  <2> QED BY <2>1, <2>3, <2>5, <2>6
<1>2. task' = [u EXCEPT ![w].seen = c]
  BY DEF Seeing
<1> HIDE DEF u
<1>3. PICK r \in TaskSet : r = u[w]
  BY <1>1
<1>4. PICK q : q = [r EXCEPT !.seen = c]
  OBVIOUS
<1>5. /\ q \in TaskSet
      /\ q.pc = r.pc /\ q.job = r.job /\ q.route = r.route
      /\ q.at = r.at /\ q.seen = c /\ q.made = r.made
  BY <1>4 DEF TaskSet
<1>6. task' = [v \in Worker |-> IF v = w THEN q ELSE u[v]]
  BY <1>1, <1>2, <1>3, <1>4
<1>7. /\ task' \in [Worker -> TaskSet] /\ task'[w] = q
      /\ \A v \in Worker \ {w} : task'[v] = task[v]
  BY <1>1, <1>5, <1>6
<1> QED BY <1>1, <1>3, <1>5, <1>7 DEF Others, Same

Rerouting(w, p, t) == task' = [task EXCEPT ![w].pc = p, ![w].route = t]

LEMMA Reroutes ==
  ASSUME task \in [Worker -> TaskSet], NEW w \in Worker, NEW p \in Points,
         NEW t \in {"commit", "recover", "repair", None}, Rerouting(w, p, t)
  PROVE  /\ task' \in [Worker -> TaskSet] /\ Others(w) /\ task'[w].job = task[w].job
         /\ task'[w].pc = p /\ task'[w].made = task[w].made
         /\ task'[w].at = task[w].at /\ task'[w].seen = task[w].seen
<1> DEFINE u == [task EXCEPT ![w].pc = p]
<1>1. /\ u \in [Worker -> TaskSet] /\ \A v \in Worker \ {w} : u[v] = task[v]
      /\ u[w].pc = p /\ u[w].job = task[w].job /\ u[w].seen = task[w].seen
      /\ u[w].made = task[w].made /\ u[w].at = task[w].at
  BY DEF TaskSet
<1>2. task' = [u EXCEPT ![w].route = t]
  BY DEF Rerouting
<1> HIDE DEF u
<1>3. PICK r \in TaskSet : r = u[w]
  BY <1>1
<1>4. PICK q : q = [r EXCEPT !.route = t]
  OBVIOUS
<1>5. /\ q \in TaskSet
      /\ q.pc = r.pc /\ q.job = r.job /\ q.seen = r.seen
      /\ q.at = r.at /\ q.route = t /\ q.made = r.made
  BY <1>4 DEF TaskSet
<1>6. task' = [v \in Worker |-> IF v = w THEN q ELSE u[v]]
  BY <1>1, <1>2, <1>3, <1>4
<1>7. /\ task' \in [Worker -> TaskSet] /\ task'[w] = q
      /\ \A v \in Worker \ {w} : task'[v] = task[v]
  BY <1>1, <1>5, <1>6
<1> QED BY <1>1, <1>3, <1>5, <1>7 DEF Others

LEMMA IdleTask == Idle \in TaskSet /\ Idle.pc = "idle"
BY DEF Idle, TaskSet, Points, Makings

LEMMA Rests ==
  ASSUME task \in [Worker -> TaskSet], NEW w \in Worker,
         task' = [task EXCEPT ![w] = Idle]
  PROVE  /\ task' \in [Worker -> TaskSet] /\ Others(w) /\ task'[w].pc = "idle"
<1> Idle \in TaskSet /\ Idle.pc = "idle"
  BY IdleTask
<1> HIDE DEF Idle
<1> QED BY DEF Others

\* A write has its effect, the request goes on or fails; or it has none and fails.
LEMMA Writes ==
  ASSUME NEW w \in Worker, NEW r, NEW m, NEW next, Attempt(w, r, m, next)
  PROVE  \E p, n :
           /\ Making(w, p, n) /\ torn \subseteq torn'
           /\ \/ db' = r /\ p \in {next, "undo"} /\ n = task[w].made \cup m
              \/ db' = db /\ p = "undo" /\ n = task[w].made
              \/ /\ db' = r /\ p = "undo" /\ n = task[w].made /\ m # {"audit"}
                 /\ m \cap {"case", "event"} # {} => D(w) \in torn'
<1>1. CASE /\ db' = r /\ torn' = torn
           /\ task' = [task EXCEPT ![w].pc = next, ![w].made = @ \cup m]
  BY <1>1 DEF Making
<1>2. ASSUME NEW done \in BOOLEAN, NEW known \in BOOLEAN, m = {"audit"} => known,
             db' = IF done THEN r ELSE db,
             task' = [task EXCEPT ![w].pc = "undo",
                                  ![w].made = IF done /\ known THEN @ \cup m ELSE @],
             torn' = IF m \cap {"case", "event"} # {} /\ done /\ ~known
                     THEN torn \cup {D(w)} ELSE torn
      PROVE  \E p, n :
               /\ Making(w, p, n) /\ torn \subseteq torn'
               /\ \/ db' = r /\ p \in {next, "undo"} /\ n = task[w].made \cup m
                  \/ db' = db /\ p = "undo" /\ n = task[w].made
                  \/ /\ db' = r /\ p = "undo" /\ n = task[w].made /\ m # {"audit"}
                     /\ m \cap {"case", "event"} # {} => D(w) \in torn'
  <2>1. CASE done /\ known
    <3>1. Making(w, "undo", task[w].made \cup m)
      BY <1>2, <2>1 DEF Making
    <3> QED BY <1>2, <2>1, <3>1
  <2>2. CASE ~(done /\ known)
    <3>1. Making(w, "undo", task[w].made)
      BY <1>2, <2>2 DEF Making
    <3> QED BY <1>2, <2>2, <3>1
  <2> QED BY <2>1, <2>2
<1>3. \/ db' = r /\ torn' = torn /\ task' = [task EXCEPT ![w].pc = next, ![w].made = @ \cup m]
      \/ \E done \in BOOLEAN, known \in BOOLEAN :
           /\ m = {"audit"} => known
           /\ db' = IF done THEN r ELSE db
           /\ task' = [task EXCEPT ![w].pc = "undo",
                                   ![w].made = IF done /\ known THEN @ \cup m ELSE @]
           /\ torn' = IF m \cap {"case", "event"} # {} /\ done /\ ~known
                      THEN torn \cup {D(w)} ELSE torn
  BY DEF Attempt
<1> QED BY <1>1, <1>2, <1>3

\* Who is outside the critical section knows nothing of the records.
LEMMA Ignorant ==
  ASSUME NEW v \in Worker, Known(v), task[v].pc \in Outside, task'[v] = task[v]
  PROVE  Known(v)'
<1>1. D(v)' = D(v) /\ Kind(v)' = Kind(v)
  BY DEF D, Kind
<1>2. JobKnown(v)'
  BY <1>1 DEF Known, JobKnown, Outside
<1>3. PrepareKnown(v)' /\ DecideKnown(v)' /\ ApplyKnown(v)'
  BY DEF PrepareKnown, DecideKnown, ApplyKnown, Reached, Applying, ObjectKinds, Outside
<1> QED BY <1>2, <1>3 DEF Known

\* A step in the critical section.
LEMMA OwnerSteps ==
  ASSUME IInv, NEW w \in Worker, lock = w, Others(w), task' \in [Worker -> TaskSet],
         Stored', Known(w)',
         \/ lock' = w /\ task'[w].pc \notin Outside
         \/ lock' = None /\ task'[w].pc \in Outside
  PROVE  IInv'
<1>1. \A v \in Worker \ {w} : task[v].pc \in Outside /\ task'[v] = task[v]
  BY DEF IInv, LockHeld, Others
<1>2. \A v \in Worker : Known(v)'
  BY <1>1, Ignorant DEF IInv
<1>3. LockHeld'
  BY <1>1, NoneAssumption DEF LockHeld
<1> QED BY <1>2, <1>3 DEF IInv, Shape, Stored

\* A step outside it: only the audit log may change.
LEMMA OutsiderSteps ==
  ASSUME IInv, NEW w \in Worker, lock # w, Others(w), task' \in [Worker -> TaskSet],
         Stored', Known(w)', lock' = lock, task'[w].pc \in Outside,
         \A v \in Worker \ {w} : Known(v)'
  PROVE  IInv'
<1>1. \A v \in Worker : Known(v)'
  OBVIOUS
<1>2. LockHeld'
  BY DEF IInv, LockHeld, Others
<1> QED BY <1>1, <1>2 DEF IInv, Shape, Stored

Dropping(w, m) == task' = [task EXCEPT ![w].made = m]

LEMMA Drops ==
  ASSUME task \in [Worker -> TaskSet], NEW w \in Worker, NEW m \in Makings, Dropping(w, m)
  PROVE  /\ task' \in [Worker -> TaskSet] /\ Others(w) /\ Same(w)
         /\ task'[w].pc = task[w].pc /\ task'[w].made = m
         /\ task'[w].at = task[w].at /\ task'[w].seen = task[w].seen
BY DEF TaskSet, Others, Same, Dropping

\* Whoever is inside the critical section has it, for a request about a draft.
LEMMA Owner ==
  ASSUME IInv, NEW w \in Worker, task[w].pc \notin Outside
  PROVE  /\ lock = w /\ Stored /\ Known(w) /\ task \in [Worker -> TaskSet]
         /\ task[w] \in TaskSet /\ task[w].made \subseteq Things /\ task[w].made \in Makings
         /\ task[w].job \in Job /\ D(w) \in Draft
         /\ Kind(w) \in {"decide", "prepare", "apply", "continue"}
         /\ Kind(w) \in {"prepare", "continue"} => D(w) + 1 \in Draft
         /\ Kind(w) = "decide" => task[w].job.verdict \in Verdict
<1>1. lock = w /\ Stored /\ Known(w) /\ task \in [Worker -> TaskSet]
  BY DEF IInv, LockHeld, Stored, Shape
<1>2. task[w] \in TaskSet /\ task[w].made \in Makings
  BY <1>1 DEF TaskSet
<1>5. task[w].made \subseteq Things
  BY <1>2 DEF Makings
<1>3. /\ task[w].job \in Job
      /\ Kind(w) \in {"prepare", "continue"} => D(w) + 1 \in Draft
  BY <1>1 DEF Known, JobKnown, Outside
<1>4. /\ D(w) \in Draft
      /\ Kind(w) \in {"decide", "prepare", "apply", "continue"}
      /\ Kind(w) = "decide" => task[w].job.verdict \in Verdict
  BY <1>3 DEF D, Kind, Job
<1> QED BY <1>1, <1>2, <1>3, <1>4, <1>5

\* A request that failed or was refused knows nothing any more, and only an
\* application has to know what it did.
LEMMA Quits ==
  ASSUME IInv, NEW w \in Worker, task[w].pc \notin Outside,
         task' \in [Worker -> TaskSet], Others(w), Same(w),
         task'[w].made \subseteq task[w].made,
         \/ task'[w].pc = "refused"
         \/ Kind(w) # "apply" /\ task'[w].pc \in {"undo", "done"},
         lock' = lock, Stored'
  PROVE  IInv'
<1>1. lock = w /\ Known(w)
  BY Owner
<1>2. D(w)' = D(w) /\ Kind(w)' = Kind(w)
  BY DEF D, Kind, Same
<1>3. JobKnown(w)'
  BY <1>1, <1>2 DEF Known, JobKnown, Same, ObjectKinds, Outside
<1>4. PrepareKnown(w)' /\ DecideKnown(w)'
  BY DEF PrepareKnown, DecideKnown
<1>5. ApplyKnown(w)'
  BY <1>2 DEF ApplyKnown, Reached, Applying, ObjectKinds
<1>6. Known(w)' /\ task'[w].pc \notin Outside
  BY <1>3, <1>4, <1>5 DEF Known, Outside
<1> QED BY <1>1, <1>6, OwnerSteps

\* A projection that is written unless it is there.
LEMMA Ensures ==
  ASSUME IInv, NEW w \in Worker, NEW point \in Points \ Outside,
         NEW next \in Points \ {"undo"}, NEW h \in BOOLEAN, NEW r, Ensure(w, point, h, r, next)
  PROVE  \E p \in {next, "undo"} :
           /\ task' \in [Worker -> TaskSet] /\ Others(w) /\ Same(w) /\ task'[w].pc = p
           /\ task'[w].made = task[w].made /\ task'[w].at = task[w].at
           /\ task'[w].seen = task[w].seen
           /\ lock' = lock /\ answered' = answered /\ torn \subseteq torn'
           /\ db' = db \/ (~h /\ db' = r)
           /\ p = next => (h /\ db' = db) \/ (~h /\ db' = r)
<1>1. task[w].pc = point /\ lock' = lock /\ answered' = answered
  BY DEF Ensure, At
<1>2. task \in [Worker -> TaskSet] /\ task[w].made \in Makings /\ "undo" \in Points
  BY <1>1, Owner DEF Points
<1>3. CASE h
  <2>1. task' = [task EXCEPT ![w].pc = next] /\ db' = db /\ torn' = torn
    BY <1>3 DEF Ensure, Go
  <2> QED BY <1>1, <1>2, <1>3, <2>1, Goes
<1>4. CASE ~h
  <2>1. Attempt(w, r, {}, next)
    BY <1>4 DEF Ensure
  <2>2. PICK p, n :
           /\ Making(w, p, n) /\ torn \subseteq torn'
           /\ \/ db' = r /\ p \in {next, "undo"} /\ n = task[w].made
              \/ db' = db /\ p = "undo" /\ n = task[w].made
    <3>1. PICK p, n :
             /\ Making(w, p, n) /\ torn \subseteq torn'
             /\ \/ db' = r /\ p \in {next, "undo"} /\ n = task[w].made \cup {}
                \/ db' = db /\ p = "undo" /\ n = task[w].made
                \/ db' = r /\ p = "undo" /\ n = task[w].made
      BY <2>1, Writes
    <3>2. task[w].made \cup {} = task[w].made
      OBVIOUS
    <3> QED BY <3>1, <3>2
  <2>3. p \in Points
    BY <1>2, <2>2
  <2>8. n = task[w].made
    BY <2>2
  <2>9. n \in Makings
    BY <1>2, <2>8
  <2>4. /\ task' \in [Worker -> TaskSet] /\ Others(w) /\ Same(w) /\ task'[w].pc = p
        /\ task'[w].made = task[w].made /\ task'[w].at = task[w].at
        /\ task'[w].seen = task[w].seen
    <3>1. Making(w, p, n)
      BY <2>2
    <3>2. /\ task' \in [Worker -> TaskSet] /\ Others(w) /\ Same(w) /\ task'[w].pc = p
          /\ task'[w].made = n /\ task'[w].at = task[w].at /\ task'[w].seen = task[w].seen
      BY <1>2, <2>3, <2>9, <3>1, Makes
    <3> QED BY <2>8, <3>2
  <2>5. CASE db' = r /\ p \in {next, "undo"}
    BY <1>1, <1>4, <2>2, <2>4, <2>5
  <2>6. CASE db' = db /\ p = "undo"
    <3>1. p = next => db' = r
      BY <2>2, <2>6
    <3> QED BY <1>1, <1>4, <2>2, <2>4, <2>6, <3>1
  <2> QED BY <2>2, <2>5, <2>6
<1> QED BY <1>3, <1>4

-------------------------------------------------------------------------------
(* Deciding *)

DecidePoints ==
  {"decisionAudit", "aggregate", "approvalRow", "specRow", "decidedDraft", "reviewEvent",
   "linkSpec", "approvalEvent"}

LEMMA DecideSteps ==
  ASSUME IInv, NEW w \in Worker, task[w].pc \notin Outside, Kind(w) = "decide",
         task' \in [Worker -> TaskSet], Others(w), Same(w),
         task'[w].made \subseteq {"audit"}, task'[w].at \in Stamp,
         task'[w].pc \in DecidePoints, DecideKnown(w)',
         lock' = lock, Stored'
  PROVE  IInv'
<1>1. lock = w /\ Known(w) /\ task[w].job \in Job
  BY Owner
<1>2. D(w)' = D(w) /\ Kind(w)' = Kind(w)
  BY DEF D, Kind, Same
<1>3. JobKnown(w)'
  BY <1>1, <1>2 DEF JobKnown, Same, ObjectKinds, DecidePoints
<1>4. PrepareKnown(w)' /\ ApplyKnown(w)'
  BY <1>2 DEF PrepareKnown, ApplyKnown, DecidePoints
<1>5. Known(w)' /\ task'[w].pc \notin Outside
  BY <1>3, <1>4 DEF Known, Outside, DecidePoints
<1> QED BY <1>1, <1>5, OwnerSteps

\* What a request that decides knows.
LEMMA Deciding ==
  ASSUME IInv, NEW w \in Worker, task[w].pc \in DecidePoints \cup {"decide"}
  PROVE  /\ task[w].pc \notin Outside /\ lock = w /\ Stored /\ DecideKnown(w)
         /\ Kind(w) = "decide" /\ D(w) \in Draft /\ task[w].job.verdict \in Verdict
         /\ (task[w].pc \in DecidePoints => task[w].at \in Stamp)
         /\ task[w].made \subseteq {"audit"}
         /\ task \in [Worker -> TaskSet]
<1>1. task[w].pc \notin Outside
  BY DEF Outside, DecidePoints
<1>2. Known(w) /\ Stored /\ lock = w /\ D(w) \in Draft /\ task \in [Worker -> TaskSet]
      /\ (Kind(w) = "decide" => task[w].job.verdict \in Verdict)
  BY <1>1, Owner
<1>3. /\ Kind(w) = "decide" /\ task[w].made \subseteq {"audit"}
      /\ task[w].pc \in DecidePoints => task[w].at \in Stamp
  BY <1>2 DEF Known, JobKnown, DecidePoints
<1>4. DecideKnown(w)
  BY <1>2 DEF Known
<1> QED BY <1>1, <1>2, <1>3, <1>4

LEMMA DecideCheckKept ==
  ASSUME IInv, NEW w \in Worker, DecideCheck(w)
  PROVE  IInv'
<1>1. /\ task[w].pc = "decide" /\ lock' = lock
      /\ answered' = answered /\ torn \subseteq torn' /\ db' = db
      /\ \/ task' = [task EXCEPT ![w].pc = "refused"]
         \/ \E at \in Stamp \cup {db.aggregates[D(w)].at} :
              /\ Stamping(w, "decisionAudit", at)
              /\ db.aggregates[D(w)] = None =>
                   at \in Stamp /\ db.drafts[D(w)] = "pending" /\ db.case.spec = None
              /\ db.aggregates[D(w)] # None =>
                   /\ at = db.aggregates[D(w)].at
                   /\ db.aggregates[D(w)].verdict = task[w].job.verdict
                   /\ db.case.spec \in {None, D(w)}
  BY DEF DecideCheck, At, Go, Stamping
<1>2. /\ task[w].pc \notin Outside /\ Stored /\ Kind(w) = "decide" /\ D(w) \in Draft
      /\ task[w].made \subseteq {"audit"} /\ task \in [Worker -> TaskSet]
  BY <1>1, Deciding
<1>3. Stored'
  BY <1>1, <1>2, StoredKept
<1>4. CASE task' = [task EXCEPT ![w].pc = "refused"]
  <2>1. "refused" \in Points
    BY DEF Points
  <2>2. /\ task' \in [Worker -> TaskSet] /\ Others(w) /\ Same(w)
        /\ task'[w].pc = "refused" /\ task'[w].made = task[w].made
    BY <1>2, <1>4, <2>1, Goes
  <2> QED BY <1>1, <1>2, <1>3, <2>2, Quits
<1>5. ASSUME NEW at \in Stamp \cup {db.aggregates[D(w)].at},
             Stamping(w, "decisionAudit", at),
             db.aggregates[D(w)] = None =>
               at \in Stamp /\ db.drafts[D(w)] = "pending" /\ db.case.spec = None,
             db.aggregates[D(w)] # None =>
               /\ at = db.aggregates[D(w)].at
               /\ db.aggregates[D(w)].verdict = task[w].job.verdict
               /\ db.case.spec \in {None, D(w)}
      PROVE  IInv'
  <2>1. at \in Stamp
    BY <1>2, <1>5, Aggregates DEF Stored, Decision
  <2>2. "decisionAudit" \in Points /\ at \in Stamp \cup {None}
    BY <2>1 DEF Points
  <2>3. /\ task' \in [Worker -> TaskSet] /\ Others(w) /\ Same(w)
        /\ task'[w].pc = "decisionAudit" /\ task'[w].made = task[w].made /\ task'[w].at = at
    BY <1>2, <1>5, <2>2, Stamps
  <2>4. DecideKnown(w)'
    BY <1>1, <1>5, <2>3 DEF DecideKnown, D, Same
  <2>5. task'[w].pc \in DecidePoints
    BY <2>3 DEF DecidePoints
  <2> QED BY <1>1, <1>2, <1>3, <2>1, <2>3, <2>4, <2>5, DecideSteps
<1> QED BY <1>1, <1>4, <1>5

\* An audit that was published by a failing call is kept.
LEMMA DecisionAuditKept ==
  ASSUME IInv, NEW w \in Worker, DecisionAudit(w)
  PROVE  IInv'
<1>1. /\ task[w].pc = "decisionAudit" /\ lock' = lock
      /\ answered' = answered /\ torn \subseteq torn'
      /\ db' \in {db, WithAudit(w)}
      /\ \/ task' = [task EXCEPT ![w].pc = "refused"]
         \/ task' = [task EXCEPT ![w].pc = "aggregate"]
         \/ Making(w, "aggregate", {"audit"})
  BY DEF DecisionAudit, At, Go, Making
<1>2. /\ task[w].pc \notin Outside /\ Stored /\ Kind(w) = "decide" /\ D(w) \in Draft
      /\ task[w].at \in Stamp /\ task[w].made \subseteq {"audit"} /\ task \in [Worker -> TaskSet]
      /\ DecideKnown(w) /\ task[w].job.verdict \in Verdict
  BY <1>1, Deciding DEF DecidePoints
<1>3. Stored'
  <2>1. CASE db' = db
    BY <1>1, <1>2, <2>1, StoredKept
  <2>2. CASE db' = WithAudit(w)
    <3>1. PICK A : A = db.audits \cup {TheAudit(w)}
      OBVIOUS
    <3>2. db' = [db EXCEPT !.audits = A]
      BY <2>2, <3>1 DEF WithAudit
    <3>3. TheAudit(w) \in AuditSet /\ TheAudit(w).kind # "applied"
      BY <1>2 DEF TheAudit, AuditSet, Decides, Kind, Verdict
    <3>4. A \in SUBSET AuditSet /\ \A a : a.kind = "applied" => (a \in A <=> a \in db.audits)
      BY <1>2, <3>1, <3>3, DbFields DEF Stored
    <3> QED BY <1>1, <1>2, <3>2, <3>4, AuditsChanged
  <2> QED BY <1>1, <2>1, <2>2
<1>4. db'.aggregates = db.aggregates /\ db'.drafts = db.drafts /\ db'.case = db.case
  BY <1>1, <1>2 DEF WithAudit, Stored, DbSet
<1>5. CASE task' = [task EXCEPT ![w].pc = "refused"]
  <2>1. "refused" \in Points
    BY DEF Points
  <2>2. /\ task' \in [Worker -> TaskSet] /\ Others(w) /\ Same(w)
        /\ task'[w].pc = "refused" /\ task'[w].made = task[w].made
    BY <1>2, <1>5, <2>1, Goes
  <2> QED BY <1>1, <1>2, <1>3, <2>2, Quits
<1>6. CASE task' = [task EXCEPT ![w].pc = "aggregate"] \/ Making(w, "aggregate", {"audit"})
  <2>1. "aggregate" \in Points /\ {"audit"} \in Makings
    BY DEF Points, Makings, Things
  <2>2. /\ task' \in [Worker -> TaskSet] /\ Others(w) /\ Same(w)
        /\ task'[w].pc = "aggregate" /\ task'[w].made \in {task[w].made, {"audit"}}
        /\ task'[w].at = task[w].at
    BY <1>2, <1>6, <2>1, Goes, Makes
  <2>3. DecideKnown(w)'
    BY <1>1, <1>2, <1>4, <2>2 DEF DecideKnown, D, Same
  <2>4. task'[w].pc \in DecidePoints
    BY <2>2 DEF DecidePoints
  <2> QED BY <1>1, <1>2, <1>3, <2>2, <2>3, <2>4, DecideSteps
<1> QED BY <1>1, <1>5, <1>6

\* A decision writes one of its records, unless it is there.
LEMMA DecideEnsures ==
  ASSUME IInv, NEW w \in Worker, NEW point \in DecidePoints,
         NEW next \in DecidePoints \cup {"done"}, NEW h \in BOOLEAN, NEW r,
         Ensure(w, point, h, r, next)
  PROVE  /\ task[w].pc = point /\ answered' = answered /\ torn \subseteq torn'
         /\ task'[w].job = task[w].job /\ D(w)' = D(w)
         /\ db' = db \/ (~h /\ db' = r)
         /\ task'[w].pc = next => (h /\ db' = db) \/ (~h /\ db' = r)
         /\ Stored' /\ (task'[w].pc = next /\ next # "done" => DecideKnown(w)') => IInv'
<1>1. task[w].pc = point
  BY DEF Ensure, At
<1>2. /\ task[w].pc \notin Outside /\ Kind(w) = "decide" /\ task[w].at \in Stamp
      /\ task[w].made \subseteq {"audit"}
  BY <1>1, Deciding
<1>3. point \in Points \ Outside /\ next \in Points \ {"undo"}
  BY DEF DecidePoints, Points, Outside
<1>4. PICK p \in {next, "undo"} :
        /\ task' \in [Worker -> TaskSet] /\ Others(w) /\ Same(w) /\ task'[w].pc = p
        /\ task'[w].made = task[w].made /\ task'[w].at = task[w].at
        /\ task'[w].seen = task[w].seen
        /\ lock' = lock /\ answered' = answered /\ torn \subseteq torn'
        /\ db' = db \/ (~h /\ db' = r)
        /\ p = next => (h /\ db' = db) \/ (~h /\ db' = r)
  BY <1>3, Ensures
<1>5. ASSUME Stored', task'[w].pc = next /\ next # "done" => DecideKnown(w)'
      PROVE  IInv'
  <2>1. CASE p \in {"undo", "done"}
    BY <1>2, <1>4, <1>5, <2>1, Quits
  <2>2. CASE p = next /\ next # "done"
    <3>1. task'[w].pc \in DecidePoints
      BY <1>4, <2>2
    <3> QED BY <1>2, <1>4, <1>5, <2>2, <3>1, DecideSteps
  <2> QED BY <2>1, <2>2
<1>6. task'[w].job = task[w].job /\ D(w)' = D(w)
  BY <1>4 DEF D, Same
<1> QED BY <1>1, <1>4, <1>5, <1>6

LEMMA AggregateKept ==
  ASSUME IInv, NEW w \in Worker, Aggregate(w)
  PROVE  IInv'
<1>1. PICK h \in BOOLEAN : h <=> db.aggregates[D(w)] # None
  OBVIOUS
<1>2. PICK c : c = [verdict |-> task[w].job.verdict, at |-> task[w].at]
  OBVIOUS
<1>3. PICK r : r = [db EXCEPT !.aggregates[D(w)] = c]
  OBVIOUS
<1>4. "aggregate" \in DecidePoints /\ "approvalRow" \in DecidePoints \cup {"done"}
  BY DEF DecidePoints
<1>5. Ensure(w, "aggregate", h, r, "approvalRow")
  BY <1>1, <1>2, <1>3 DEF Aggregate, Ensure
<1>6. /\ task[w].pc = "aggregate" /\ answered' = answered /\ torn \subseteq torn'
      /\ task'[w].job = task[w].job /\ D(w)' = D(w)
      /\ db' = db \/ (~h /\ db' = r)
      /\ task'[w].pc = "approvalRow" => (h /\ db' = db) \/ (~h /\ db' = r)
      /\ Stored' /\ (task'[w].pc = "approvalRow" => DecideKnown(w)') => IInv'
  BY <1>4, <1>5, DecideEnsures
<1>7. /\ Stored /\ DecideKnown(w) /\ D(w) \in Draft /\ task[w].job.verdict \in Verdict
      /\ task[w].at \in Stamp
  BY <1>6, Deciding DEF DecidePoints
<1>8. c \in Decision /\ c.verdict = task[w].job.verdict
  BY <1>2, <1>7 DEF Decision
<1>9. ~h /\ db' = r => Stored' /\ db'.aggregates[D(w)] = c
  <2> SUFFICES ASSUME ~h, db' = r PROVE Stored' /\ db'.aggregates[D(w)] = c
    OBVIOUS
  <2>1. db.aggregates[D(w)] = None /\ db.drafts[D(w)] = "pending"
    BY <1>1, <1>6, <1>7 DEF DecideKnown
  <2> QED BY <1>3, <1>6, <1>7, <1>8, <2>1, AggregateSet
<1>10. Stored'
  BY <1>6, <1>7, <1>9, StoredKept
<1>11. task'[w].pc = "approvalRow" => DecideKnown(w)'
  <2> SUFFICES ASSUME task'[w].pc = "approvalRow" PROVE DecideKnown(w)'
    OBVIOUS
  <2>1. db'.case = db.case
    BY <1>3, <1>6, <1>7 DEF Stored, DbSet
  <2>2. db'.aggregates[D(w)] # None /\ db'.aggregates[D(w)].verdict = task[w].job.verdict
    <3>1. CASE db' = db /\ h
      BY <1>1, <1>6, <1>7, <3>1 DEF DecideKnown
    <3>2. CASE db' = r /\ ~h
      <4>1. c # None
        BY <1>8, NoneAssumption DEF Decision
      <4> QED BY <1>8, <1>9, <3>2, <4>1
    <3> QED BY <1>6, <3>1, <3>2
  <2>3. db.case.spec \in {None, D(w)}
    BY <1>6, <1>7 DEF DecideKnown
  <2> QED BY <1>6, <2>1, <2>2, <2>3 DEF DecideKnown
<1> QED BY <1>6, <1>10, <1>11

LEMMA ApprovalRowKept ==
  ASSUME IInv, NEW w \in Worker, ApprovalRow(w)
  PROVE  IInv'
<1>1. PICK h \in BOOLEAN : h <=> D(w) \in db.approvals
  OBVIOUS
<1>2. PICK A : A = db.approvals \cup {D(w)}
  OBVIOUS
<1>3. PICK r : r = [db EXCEPT !.approvals = A]
  OBVIOUS
<1>4. PICK next \in {"specRow", "decidedDraft"} :
        next = IF task[w].job.verdict = "approved" THEN "specRow" ELSE "decidedDraft"
  OBVIOUS
<1>5. "approvalRow" \in DecidePoints /\ next \in DecidePoints \cup {"done"} /\ next # "done"
  BY DEF DecidePoints
<1>6. Ensure(w, "approvalRow", h, r, next)
  BY <1>1, <1>2, <1>3, <1>4 DEF ApprovalRow, Ensure
<1>7. /\ task[w].pc = "approvalRow" /\ answered' = answered /\ torn \subseteq torn'
      /\ task'[w].job = task[w].job /\ D(w)' = D(w)
      /\ db' = db \/ (~h /\ db' = r)
      /\ task'[w].pc = next => (h /\ db' = db) \/ (~h /\ db' = r)
      /\ Stored' /\ (task'[w].pc = next /\ next # "done" => DecideKnown(w)') => IInv'
  BY <1>5, <1>6, DecideEnsures
<1>8. Stored /\ DecideKnown(w) /\ D(w) \in Draft
  BY <1>7, Deciding DEF DecidePoints
<1>9. Stored'
  <2>1. ASSUME db' = r PROVE Stored'
    <3>1. db' = [db EXCEPT !.approvals = A, !.specs = db.specs]
      BY <1>3, <1>8, <2>1 DEF Stored, DbSet
    <3>2. A \in SUBSET Draft /\ db.specs \in SUBSET Draft /\ db.approvals \subseteq A
      BY <1>2, <1>8, DbFields DEF Stored
    <3> QED BY <1>7, <1>8, <3>1, <3>2, RowsWritten
  <2> QED BY <1>7, <1>8, <2>1, StoredKept
<1>10. ASSUME task'[w].pc = next PROVE DecideKnown(w)'
  <2>1. /\ db'.case = db.case /\ db'.aggregates = db.aggregates /\ db'.drafts = db.drafts
        /\ D(w) \in db'.approvals
    BY <1>1, <1>2, <1>3, <1>7, <1>8, <1>10 DEF Stored, DbSet
  <2> QED BY <1>4, <1>7, <1>8, <1>10, <2>1 DEF DecideKnown
<1> QED BY <1>7, <1>9, <1>10

LEMMA SpecRowKept ==
  ASSUME IInv, NEW w \in Worker, SpecRow(w)
  PROVE  IInv'
<1>1. PICK h \in BOOLEAN : h <=> D(w) \in db.specs
  OBVIOUS
<1>2. PICK A : A = db.specs \cup {D(w)}
  OBVIOUS
<1>3. PICK r : r = [db EXCEPT !.specs = A]
  OBVIOUS
<1>5. "specRow" \in DecidePoints /\ "decidedDraft" \in DecidePoints \cup {"done"}
  BY DEF DecidePoints
<1>6. Ensure(w, "specRow", h, r, "decidedDraft")
  BY <1>1, <1>2, <1>3 DEF SpecRow, Ensure
<1>7. /\ task[w].pc = "specRow" /\ answered' = answered /\ torn \subseteq torn'
      /\ task'[w].job = task[w].job /\ D(w)' = D(w)
      /\ db' = db \/ (~h /\ db' = r)
      /\ task'[w].pc = "decidedDraft" => (h /\ db' = db) \/ (~h /\ db' = r)
      /\ Stored' /\ (task'[w].pc = "decidedDraft" => DecideKnown(w)') => IInv'
  BY <1>5, <1>6, DecideEnsures
<1>8. Stored /\ DecideKnown(w) /\ D(w) \in Draft
  BY <1>7, Deciding DEF DecidePoints
<1>9. Stored'
  <2>1. ASSUME db' = r PROVE Stored'
    <3>1. db' = [db EXCEPT !.approvals = db.approvals, !.specs = A]
      BY <1>3, <1>8, <2>1 DEF Stored, DbSet
    <3>2. A \in SUBSET Draft /\ db.approvals \in SUBSET Draft /\ db.specs \subseteq A
      BY <1>2, <1>8, DbFields DEF Stored
    <3> QED BY <1>7, <1>8, <3>1, <3>2, RowsWritten
  <2> QED BY <1>7, <1>8, <2>1, StoredKept
<1>10. ASSUME task'[w].pc = "decidedDraft" PROVE DecideKnown(w)'
  <2>1. /\ db'.case = db.case /\ db'.aggregates = db.aggregates /\ db'.drafts = db.drafts
        /\ db'.approvals = db.approvals /\ D(w) \in db'.specs
    BY <1>1, <1>2, <1>3, <1>7, <1>8, <1>10 DEF Stored, DbSet
  <2> QED BY <1>7, <1>8, <1>10, <2>1 DEF DecideKnown
<1> QED BY <1>7, <1>9, <1>10

LEMMA DecidedDraftKept ==
  ASSUME IInv, NEW w \in Worker, DecidedDraft(w)
  PROVE  IInv'
<1>3. PICK r : r = [db EXCEPT !.drafts[D(w)] = task[w].job.verdict]
  OBVIOUS
<1>4. PICK h \in BOOLEAN : h = FALSE
  OBVIOUS
<1>5. "decidedDraft" \in DecidePoints /\ "reviewEvent" \in DecidePoints \cup {"done"}
      /\ "reviewEvent" # "done"
  BY DEF DecidePoints
<1>6. Ensure(w, "decidedDraft", h, r, "reviewEvent")
  BY <1>3, <1>4 DEF DecidedDraft, Ensure
<1>7. /\ task[w].pc = "decidedDraft" /\ answered' = answered /\ torn \subseteq torn'
      /\ task'[w].job = task[w].job /\ D(w)' = D(w)
      /\ db' = db \/ db' = r
      /\ task'[w].pc = "reviewEvent" => db' = r
      /\ Stored' /\ (task'[w].pc = "reviewEvent" => DecideKnown(w)') => IInv'
  BY <1>4, <1>5, <1>6, DecideEnsures
<1>8. Stored /\ DecideKnown(w) /\ D(w) \in Draft
  BY <1>7, Deciding DEF DecidePoints
<1>9. /\ db.aggregates[D(w)] # None /\ db.aggregates[D(w)].verdict = task[w].job.verdict
  BY <1>7, <1>8 DEF DecideKnown
<1>10. db' = r => Stored' /\ db'.drafts[D(w)] = task[w].job.verdict
  BY <1>3, <1>7, <1>8, <1>9, DraftDecided
<1>11. ASSUME task'[w].pc = "reviewEvent" PROVE DecideKnown(w)'
  <2>1. /\ db'.case = db.case /\ db'.aggregates = db.aggregates
        /\ db'.approvals = db.approvals /\ db'.specs = db.specs
    BY <1>3, <1>7, <1>8, <1>11 DEF Stored, DbSet
  <2> QED BY <1>7, <1>8, <1>9, <1>10, <1>11, <2>1 DEF DecideKnown
<1> QED BY <1>7, <1>8, <1>10, <1>11, StoredKept

LEMMA ReviewEventKept ==
  ASSUME IInv, NEW w \in Worker, ReviewEvent(w)
  PROVE  IInv'
<1>1. PICK h \in BOOLEAN : h <=> Positions(D(w), {"review"}) # {}
  OBVIOUS
<1>2. PICK ev : ev = [kind |-> "review", draft |-> D(w), at |-> task[w].at]
  OBVIOUS
<1>3. PICK r : r = [db EXCEPT !.events = Append(@, ev)]
  OBVIOUS
<1>4. PICK next \in {"linkSpec", "done"} :
        next = IF task[w].job.verdict = "approved" THEN "linkSpec" ELSE "done"
  OBVIOUS
<1>5. "reviewEvent" \in DecidePoints /\ next \in DecidePoints \cup {"done"}
  BY DEF DecidePoints
<1>6. Ensure(w, "reviewEvent", h, r, next)
  BY <1>1, <1>2, <1>3, <1>4 DEF ReviewEvent, Ensure, WithEvent
<1>7. /\ task[w].pc = "reviewEvent" /\ answered' = answered /\ torn \subseteq torn'
      /\ task'[w].job = task[w].job /\ D(w)' = D(w)
      /\ db' = db \/ (~h /\ db' = r)
      /\ Stored' /\ (task'[w].pc = next /\ next # "done" => DecideKnown(w)') => IInv'
  BY <1>5, <1>6, DecideEnsures
<1>8. Stored /\ DecideKnown(w) /\ D(w) \in Draft /\ task[w].at \in Stamp
  BY <1>7, Deciding DEF DecidePoints
<1>9. Stored'
  <2>1. ev \in EventSet /\ ev.kind # "result"
    BY <1>2, <1>8 DEF EventSet
  <2> QED BY <1>3, <1>7, <1>8, <2>1, EventAdded, StoredKept
<1>10. ASSUME task'[w].pc = next, next # "done" PROVE DecideKnown(w)'
  <2>1. /\ db'.case = db.case /\ db'.aggregates = db.aggregates /\ db'.drafts = db.drafts
        /\ db'.approvals = db.approvals /\ db'.specs = db.specs
    BY <1>3, <1>7, <1>8 DEF Stored, DbSet
  <2> QED BY <1>4, <1>7, <1>8, <1>10, <2>1 DEF DecideKnown
<1> QED BY <1>7, <1>9, <1>10

LEMMA LinkSpecKept ==
  ASSUME IInv, NEW w \in Worker, LinkSpec(w)
  PROVE  IInv'
<1>1. PICK h \in BOOLEAN : h <=> db.case.spec = D(w)
  OBVIOUS
<1>2. PICK c : c = [spec |-> D(w), results |-> db.case.results, version |-> db.case.version + 1]
  OBVIOUS
<1>3. PICK r : r = [db EXCEPT !.case = c]
  OBVIOUS
<1>5. "linkSpec" \in DecidePoints /\ "approvalEvent" \in DecidePoints \cup {"done"}
  BY DEF DecidePoints
<1>4. task[w].pc = "linkSpec"
  BY DEF LinkSpec, Ensure, At
<1>8. Stored /\ DecideKnown(w) /\ D(w) \in Draft
  BY <1>4, <1>5, Deciding
<1>6. Ensure(w, "linkSpec", h, r, "approvalEvent")
  <2>1. r = WithCase(D(w), db.case.results)
    BY <1>2, <1>3 DEF WithCase
  <2> QED BY <1>1, <2>1 DEF LinkSpec, Ensure
<1>7. /\ answered' = answered /\ torn \subseteq torn'
      /\ task'[w].job = task[w].job /\ D(w)' = D(w)
      /\ db' = db \/ (~h /\ db' = r)
      /\ Stored' /\ (task'[w].pc = "approvalEvent" => DecideKnown(w)') => IInv'
  BY <1>5, <1>6, DecideEnsures
<1>9. Stored'
  <2>1. db.case \in Cases /\ (db.case.results # None => db.case.spec = db.case.results)
    BY <1>8, DbFields DEF Stored, DbInv, ResultsBacked, Cases
  <2>2. c \in Cases /\ c.spec = D(w) /\ c.results = db.case.results
    BY <1>2, <1>8, <2>1 DEF Cases
  <2>3. D(w) \in db.approvals \cap db.specs /\ db.drafts[D(w)] = "approved"
    BY <1>4, <1>8 DEF DecideKnown
  <2>4. ~h => c.results = None
    BY <1>1, <1>4, <1>8, <2>1, <2>2 DEF DecideKnown, Cases
  <2> QED BY <1>3, <1>7, <1>8, <2>2, <2>3, <2>4, CaseWritten, StoredKept
<1>10. task'[w].pc = "approvalEvent" => DecideKnown(w)'
  BY DEF DecideKnown
<1> QED BY <1>7, <1>9, <1>10

LEMMA ApprovalEventKept ==
  ASSUME IInv, NEW w \in Worker, ApprovalEvent(w)
  PROVE  IInv'
<1>1. PICK h \in BOOLEAN : h <=> Positions(D(w), {"approval"}) # {}
  OBVIOUS
<1>2. PICK ev : ev = [kind |-> "approval", draft |-> D(w), at |-> task[w].at]
  OBVIOUS
<1>3. PICK r : r = [db EXCEPT !.events = Append(@, ev)]
  OBVIOUS
<1>5. "approvalEvent" \in DecidePoints /\ "done" \in DecidePoints \cup {"done"}
  BY DEF DecidePoints
<1>6. Ensure(w, "approvalEvent", h, r, "done")
  BY <1>1, <1>2, <1>3 DEF ApprovalEvent, Ensure, WithEvent
<1>7. /\ task[w].pc = "approvalEvent" /\ answered' = answered /\ torn \subseteq torn'
      /\ db' = db \/ (~h /\ db' = r)
      /\ Stored' => IInv'
  BY <1>5, <1>6, DecideEnsures
<1>8. Stored /\ D(w) \in Draft /\ task[w].at \in Stamp
  BY <1>7, Deciding DEF DecidePoints
<1>9. ev \in EventSet /\ ev.kind # "result"
  BY <1>2, <1>8 DEF EventSet
<1> QED BY <1>3, <1>7, <1>8, <1>9, EventAdded, StoredKept

-------------------------------------------------------------------------------
(* Preparing and continuing *)

PreparePoints == {"insert", "supersede", "draftEvent", "reopen"}

LEMMA PrepareSteps ==
  ASSUME IInv, NEW w \in Worker, task[w].pc \notin Outside, Kind(w) \in {"prepare", "continue"},
         task' \in [Worker -> TaskSet], Others(w), Same(w),
         task'[w].made = task[w].made,
         task'[w].pc \in PreparePoints, task'[w].pc = "supersede" => Kind(w) = "prepare",
         PrepareKnown(w)', lock' = lock, Stored'
  PROVE  IInv'
<1>1. lock = w /\ Known(w) /\ task[w].job \in Job
  BY Owner
<1>2. D(w)' = D(w) /\ Kind(w)' = Kind(w)
  BY DEF D, Kind, Same
<1>3. JobKnown(w)'
  BY <1>1, <1>2 DEF Known, JobKnown, Same, ObjectKinds, PreparePoints, Outside
<1>4. DecideKnown(w)' /\ ApplyKnown(w)'
  BY <1>2 DEF DecideKnown, ApplyKnown, PreparePoints
<1>5. Known(w)' /\ task'[w].pc \notin Outside
  BY <1>3, <1>4 DEF Known, Outside, PreparePoints
<1> QED BY <1>1, <1>5, OwnerSteps

\* What a request that prepares or continues knows.
LEMMA Preparing ==
  ASSUME IInv, NEW w \in Worker, task[w].pc \in PreparePoints \cup {"prepare", "continue"}
  PROVE  /\ task[w].pc \notin Outside /\ lock = w /\ Stored /\ PrepareKnown(w)
         /\ Kind(w) \in {"prepare", "continue"} /\ D(w) \in Draft /\ D(w) + 1 \in Draft
         /\ D(w) + 1 # D(w) /\ task[w].made = {} /\ task \in [Worker -> TaskSet]
         /\ task[w].pc \in {"prepare", "supersede"} => Kind(w) = "prepare"
<1>1. task[w].pc \notin Outside
  BY DEF Outside, PreparePoints
<1>2. /\ Known(w) /\ Stored /\ lock = w /\ D(w) \in Draft /\ task \in [Worker -> TaskSet]
      /\ (Kind(w) \in {"prepare", "continue"} => D(w) + 1 \in Draft)
  BY <1>1, Owner
<1>3. /\ Kind(w) \in {"prepare", "continue"} /\ task[w].made = {}
      /\ task[w].pc \in {"prepare", "supersede"} => Kind(w) = "prepare"
  BY <1>2 DEF Known, JobKnown, PreparePoints
<1>4. PrepareKnown(w)
  BY <1>2 DEF Known
<1>5. D(w) + 1 # D(w)
  <2>1. PICK n \in Nat : n = D(w)
    BY <1>2, DraftNat
  <2>2. n + 1 # n
    OBVIOUS
  <2> QED BY <2>1, <2>2
<1> QED BY <1>1, <1>2, <1>3, <1>4, <1>5

\* A step that only looks at the records.
LEMMA PrepareGoes ==
  ASSUME IInv, NEW w \in Worker, task[w].pc \in PreparePoints \cup {"prepare", "continue"},
         NEW p \in PreparePoints \cup {"refused"}, Go(w, p), UNCHANGED <<lock, answered>>,
         p = "insert" => db.drafts[D(w) + 1] = "none",
         p \in {"insert", "supersede"} /\ Kind(w) = "prepare" =>
           db.drafts[D(w)] = "pending" /\ db.aggregates[D(w)] = None,
         p = "supersede" => Kind(w) = "prepare"
  PROVE  IInv'
<1>1. p \in Points
  BY DEF PreparePoints, Points
<1>2. /\ task[w].pc \notin Outside /\ Stored /\ task \in [Worker -> TaskSet]
      /\ Kind(w) \in {"prepare", "continue"}
  BY Preparing
<1>3. /\ db' = db /\ lock' = lock
      /\ answered' = answered /\ torn \subseteq torn' /\ task' = [task EXCEPT ![w].pc = p]
  BY DEF Go
<1>4. /\ task' \in [Worker -> TaskSet] /\ Others(w) /\ Same(w)
      /\ task'[w].pc = p /\ task'[w].made = task[w].made
  BY <1>1, <1>2, <1>3, Goes
<1>5. Stored'
  BY <1>2, <1>3, StoredKept
<1>6. CASE p = "refused"
  BY <1>2, <1>3, <1>4, <1>5, <1>6, Quits
<1>7. CASE p \in PreparePoints
  <2>1. PrepareKnown(w)'
    BY <1>3, <1>4 DEF PrepareKnown, D, Kind, Same
  <2> QED BY <1>2, <1>3, <1>4, <1>5, <1>7, <2>1, PrepareSteps
<1> QED BY <1>6, <1>7

LEMMA PrepareEnsures ==
  ASSUME IInv, NEW w \in Worker, NEW point \in PreparePoints,
         NEW next \in PreparePoints \cup {"done"}, NEW h \in BOOLEAN, NEW r,
         Ensure(w, point, h, r, next), next = "supersede" => Kind(w) = "prepare"
  PROVE  /\ task[w].pc = point /\ answered' = answered /\ torn \subseteq torn'
         /\ D(w)' = D(w) /\ Kind(w)' = Kind(w)
         /\ db' = db \/ (~h /\ db' = r)
         /\ task'[w].pc = next => (h /\ db' = db) \/ (~h /\ db' = r)
         /\ Stored' /\ (task'[w].pc = next /\ next # "done" => PrepareKnown(w)') => IInv'
<1>1. task[w].pc = point
  BY DEF Ensure, At
<1>2. /\ task[w].pc \notin Outside /\ Kind(w) \in {"prepare", "continue"} /\ task[w].made = {}
  BY <1>1, Preparing
<1>3. point \in Points \ Outside /\ next \in Points \ {"undo"}
  BY DEF PreparePoints, Points, Outside
<1>4. PICK p \in {next, "undo"} :
        /\ task' \in [Worker -> TaskSet] /\ Others(w) /\ Same(w) /\ task'[w].pc = p
        /\ task'[w].made = task[w].made /\ task'[w].at = task[w].at
        /\ task'[w].seen = task[w].seen
        /\ lock' = lock /\ answered' = answered /\ torn \subseteq torn'
        /\ db' = db \/ (~h /\ db' = r)
        /\ p = next => (h /\ db' = db) \/ (~h /\ db' = r)
  BY <1>3, Ensures
<1>5. ASSUME Stored', task'[w].pc = next /\ next # "done" => PrepareKnown(w)'
      PROVE  IInv'
  <2>1. CASE p \in {"undo", "done"}
    BY <1>2, <1>4, <1>5, <2>1, Quits
  <2>2. CASE p = next /\ next # "done"
    <3>1. task'[w].pc \in PreparePoints
      BY <1>4, <2>2
    <3> QED BY <1>2, <1>4, <1>5, <2>2, <3>1, PrepareSteps
  <2> QED BY <2>1, <2>2
<1>6. D(w)' = D(w) /\ Kind(w)' = Kind(w)
  BY <1>4 DEF D, Kind, Same
<1> QED BY <1>1, <1>4, <1>5, <1>6

LEMMA InsertDraftKept ==
  ASSUME IInv, NEW w \in Worker, InsertDraft(w)
  PROVE  IInv'
<1>1. task[w].pc = "insert" /\ "insert" \in PreparePoints
  BY DEF InsertDraft, At, PreparePoints
<1>2. /\ Stored /\ PrepareKnown(w) /\ Kind(w) \in {"prepare", "continue"}
      /\ D(w) \in Draft /\ D(w) + 1 \in Draft /\ D(w) + 1 # D(w)
  BY <1>1, Preparing
<1>3. PICK next \in {"supersede", "draftEvent"} :
        next = IF Kind(w) = "prepare" THEN "supersede" ELSE "draftEvent"
  OBVIOUS
<1>4. PICK P \in SUBSET Draft :
        P = IF Kind(w) = "prepare" THEN db.prepared \cup {D(w) + 1} ELSE db.prepared
  BY <1>2, DbFields DEF Stored
<1>5. PICK r : r = [db EXCEPT !.drafts[D(w) + 1] = "pending", !.prepared = P]
  OBVIOUS
<1>6. Ensure(w, "insert", FALSE, r, next)
  <2>1. CASE Kind(w) = "prepare"
    <3>1. r = [db EXCEPT !.drafts[D(w) + 1] = "pending", !.prepared = @ \cup {D(w) + 1}]
      BY <1>4, <1>5, <2>1 DEF Stored, DbSet
    <3> QED BY <1>3, <2>1, <3>1 DEF InsertDraft, Ensure, Kind
  <2>2. CASE Kind(w) # "prepare"
    <3>1. r = [db EXCEPT !.drafts[D(w) + 1] = "pending"]
      BY <1>2, <1>4, <1>5, <2>2 DEF Stored, DbSet
    <3> QED BY <1>3, <2>2, <3>1 DEF InsertDraft, Ensure, Kind
  <2> QED BY <2>1, <2>2
<1>7. next \in PreparePoints \cup {"done"} /\ next # "done"
  BY DEF PreparePoints
<1>8. /\ answered' = answered /\ torn \subseteq torn' /\ D(w)' = D(w) /\ Kind(w)' = Kind(w)
      /\ db' = db \/ db' = r
      /\ task'[w].pc = next => db' = r
      /\ Stored' /\ (task'[w].pc = next /\ next # "done" => PrepareKnown(w)') => IInv'
  BY <1>1, <1>3, <1>6, <1>7, PrepareEnsures
<1>9. db.drafts[D(w) + 1] = "none"
  BY <1>1, <1>2 DEF PrepareKnown
<1>10. Stored'
  <2>1. db' = r => Stored'
    BY <1>2, <1>5, <1>8, <1>9, DraftInserted
  <2> QED BY <1>2, <1>8, <2>1, StoredKept
<1>11. ASSUME task'[w].pc = next PROVE PrepareKnown(w)'
  <2>1. db'.aggregates = db.aggregates /\ db'.drafts[D(w)] = db.drafts[D(w)]
    BY <1>2, <1>5, <1>8, <1>11, DbFields DEF Stored, DbSet
  <2> QED BY <1>1, <1>2, <1>3, <1>8, <1>11, <2>1 DEF PrepareKnown
<1> QED BY <1>8, <1>10, <1>11

LEMMA SupersedeKept ==
  ASSUME IInv, NEW w \in Worker, Supersede(w)
  PROVE  IInv'
<1>1. task[w].pc = "supersede" /\ "supersede" \in PreparePoints
  BY DEF Supersede, At, PreparePoints
<1>2. /\ Stored /\ PrepareKnown(w) /\ Kind(w) = "prepare" /\ D(w) \in Draft
  BY <1>1, Preparing
<1>3. PICK r : r = [db EXCEPT !.drafts[D(w)] = "superseded"]
  OBVIOUS
<1>4. Ensure(w, "supersede", FALSE, r, "draftEvent")
  BY <1>3 DEF Supersede, Ensure
<1>5. "draftEvent" \in PreparePoints \cup {"done"}
  BY DEF PreparePoints
<1>6. /\ answered' = answered /\ torn \subseteq torn'
      /\ db' = db \/ db' = r
      /\ Stored' /\ (task'[w].pc = "draftEvent" => PrepareKnown(w)') => IInv'
  BY <1>1, <1>4, <1>5, PrepareEnsures
<1>7. db.drafts[D(w)] = "pending" /\ db.aggregates[D(w)] = None
  BY <1>1, <1>2 DEF PrepareKnown
<1>8. Stored'
  <2>1. db' = r => Stored'
    BY <1>2, <1>3, <1>6, <1>7, DraftSuperseded
  <2> QED BY <1>2, <1>6, <2>1, StoredKept
<1>9. task'[w].pc = "draftEvent" => PrepareKnown(w)'
  BY DEF PrepareKnown
<1> QED BY <1>6, <1>8, <1>9

LEMMA DraftEventKept ==
  ASSUME IInv, NEW w \in Worker, DraftEvent(w)
  PROVE  IInv'
<1>1. PICK h \in BOOLEAN : h <=> Linked(D(w) + 1)
  OBVIOUS
<1>2. PICK ev : ev = [kind |-> "draft", draft |-> D(w) + 1, at |-> None]
  OBVIOUS
<1>3. PICK r : r = [db EXCEPT !.events = Append(@, ev)]
  OBVIOUS
<1>4. Ensure(w, "draftEvent", h, r, "reopen")
  BY <1>1, <1>2, <1>3 DEF DraftEvent, Ensure, WithEvent
<1>5. "draftEvent" \in PreparePoints /\ "reopen" \in PreparePoints \cup {"done"}
  BY DEF PreparePoints
<1>6. /\ task[w].pc = "draftEvent" /\ answered' = answered /\ torn \subseteq torn'
      /\ db' = db \/ (~h /\ db' = r)
      /\ Stored' /\ (task'[w].pc = "reopen" => PrepareKnown(w)') => IInv'
  BY <1>4, <1>5, PrepareEnsures
<1>7. Stored /\ D(w) + 1 \in Draft
  BY <1>5, <1>6, Preparing
<1>8. ev \in EventSet /\ ev.kind # "result"
  BY <1>2, <1>7 DEF EventSet
<1>9. task'[w].pc = "reopen" => PrepareKnown(w)'
  BY DEF PrepareKnown
<1> QED BY <1>3, <1>6, <1>7, <1>8, <1>9, EventAdded, StoredKept

LEMMA ReopenKept ==
  ASSUME IInv, NEW w \in Worker, Reopen(w)
  PROVE  IInv'
<1>1. PICK c : c = [spec |-> None, results |-> None, version |-> db.case.version + 1]
  OBVIOUS
<1>2. PICK r : r = [db EXCEPT !.case = c]
  OBVIOUS
<1>3. r = WithCase(None, None)
  BY <1>1, <1>2 DEF WithCase
<1>4. PICK h \in BOOLEAN : Ensure(w, "reopen", h, r, "done")
  BY <1>3 DEF Reopen, Ensure
<1>5. "reopen" \in PreparePoints
  BY DEF PreparePoints
<1>6. /\ task[w].pc = "reopen" /\ answered' = answered /\ torn \subseteq torn'
      /\ db' = db \/ (~h /\ db' = r)
      /\ Stored' => IInv'
  BY <1>4, <1>5, PrepareEnsures
<1>7. Stored
  BY <1>5, <1>6, Preparing
<1>8. c \in Cases
  BY <1>1, <1>7, DbFields DEF Stored, Cases
<1>9. db' = r => Stored'
  BY <1>1, <1>2, <1>6, <1>7, <1>8, CaseWritten
<1> QED BY <1>6, <1>7, <1>9, StoredKept

LEMMA ContinueCheckKept ==
  ASSUME IInv, NEW w \in Worker, ContinueCheck(w)
  PROVE  IInv'
<1>1. /\ task[w].pc = "continue" /\ UNCHANGED <<lock, answered>>
      /\ \/ Go(w, "insert") /\ db.drafts[D(w) + 1] = "none"
         \/ Go(w, "draftEvent")
         \/ Go(w, "refused")
  BY DEF ContinueCheck, At
<1>2. "insert" \in PreparePoints /\ "draftEvent" \in PreparePoints
  BY DEF PreparePoints
<1>3. Kind(w) = "continue"
  <2>1. task[w].pc \notin Outside
    BY <1>1 DEF Outside
  <2>2. JobKnown(w)
    BY <2>1, Owner DEF Known
  <2> QED BY <1>1, <2>2 DEF JobKnown
<1>4. CASE Go(w, "insert") /\ db.drafts[D(w) + 1] = "none"
  BY <1>1, <1>2, <1>3, <1>4, PrepareGoes
<1>5. CASE Go(w, "draftEvent")
  BY <1>1, <1>2, <1>5, PrepareGoes
<1>6. CASE Go(w, "refused")
  BY <1>1, <1>6, PrepareGoes
<1> QED BY <1>1, <1>4, <1>5, <1>6

\* A commit that another request got ahead of asks again.
LEMMA PrepareCheckKept ==
  ASSUME IInv, NEW w \in Worker, PrepareCheck(w)
  PROVE  IInv'
<1>1. /\ task[w].pc = "prepare" /\ answered' = answered /\ torn \subseteq torn'
      /\ \/ /\ Go(w, "insert") /\ lock' = lock
            /\ db.drafts[D(w)] = "pending" /\ db.aggregates[D(w)] = None
            /\ db.drafts[D(w) + 1] = "none"
         \/ Rerouting(w, "wait", "repair") /\ lock' = None /\ db' = db
         \/ /\ Go(w, "supersede") /\ lock' = lock
            /\ db.drafts[D(w)] = "pending" /\ db.aggregates[D(w)] = None
         \/ Go(w, "draftEvent") /\ lock' = lock
         \/ Go(w, "refused") /\ lock' = lock
  BY DEF PrepareCheck, At, Undecided, Rerouting, Go
<1>2. /\ "insert" \in PreparePoints /\ "supersede" \in PreparePoints
      /\ "draftEvent" \in PreparePoints
  BY DEF PreparePoints
<1>3. /\ Kind(w) = "prepare" /\ Stored /\ task \in [Worker -> TaskSet] /\ lock = w
      /\ task[w].made = {} /\ task[w].pc \notin Outside
  BY <1>1, Preparing
<1>4. CASE /\ Go(w, "insert") /\ lock' = lock
           /\ db.drafts[D(w)] = "pending" /\ db.aggregates[D(w)] = None
           /\ db.drafts[D(w) + 1] = "none"
  BY <1>1, <1>2, <1>3, <1>4, PrepareGoes
<1>5. CASE /\ Go(w, "supersede") /\ lock' = lock
           /\ db.drafts[D(w)] = "pending" /\ db.aggregates[D(w)] = None
  BY <1>1, <1>2, <1>3, <1>5, PrepareGoes
<1>6. CASE Go(w, "draftEvent") /\ lock' = lock
  BY <1>1, <1>2, <1>3, <1>6, PrepareGoes
<1>7. CASE Go(w, "refused") /\ lock' = lock
  BY <1>1, <1>2, <1>3, <1>7, PrepareGoes
<1>8. CASE Rerouting(w, "wait", "repair") /\ lock' = None /\ db' = db
  <2>1. "wait" \in Points
    BY DEF Points
  <2>2. /\ task' \in [Worker -> TaskSet] /\ Others(w) /\ task'[w].job = task[w].job
        /\ task'[w].pc = "wait" /\ task'[w].made = {}
    BY <1>3, <1>8, <2>1, Reroutes
  <2>3. Stored'
    BY <1>1, <1>3, <1>8, StoredKept
  <2>4. JobKnown(w)'
    <3>1. JobKnown(w)
      BY <1>3, Owner DEF Known
    <3> QED BY <1>1, <2>2, <3>1 DEF JobKnown, Kind, D, ObjectKinds
  <2>5. PrepareKnown(w)' /\ DecideKnown(w)'
    BY <2>2 DEF PrepareKnown, DecideKnown
  <2>6. ApplyKnown(w)'
    BY <1>3, <2>2 DEF ApplyKnown, Kind
  <2>7. Known(w)'
    BY <2>4, <2>5, <2>6 DEF Known
  <2>8. task'[w].pc \in Outside
    BY <2>2 DEF Outside
  <2> QED BY <1>3, <1>8, <2>2, <2>3, <2>7, <2>8, OwnerSteps
<1> QED BY <1>1, <1>4, <1>5, <1>6, <1>7, <1>8

-------------------------------------------------------------------------------
(* Applying *)

LEMMA ApplySteps ==
  ASSUME IInv, NEW w \in Worker, task[w].pc \notin Outside, Kind(w) = "apply",
         task' \in [Worker -> TaskSet], Others(w), Same(w),
         task'[w].pc \in Applying \cup {"done"}, task'[w].at \in Stamp,
         task'[w].pc # "done" => Owns(w)', Reached(w)',
         task'[w].pc \in Applying \ {"undo"} => "audit" \notin task'[w].made, lock' = lock, Stored'
  PROVE  IInv'
<1>1. lock = w /\ Known(w) /\ task[w].job \in Job
  BY Owner
<1>2. D(w)' = D(w) /\ Kind(w)' = Kind(w)
  BY DEF D, Kind, Same
<1>3. JobKnown(w)'
  BY <1>1, <1>2 DEF Known, JobKnown, Same, ObjectKinds, Applying, Outside
<1>4. PrepareKnown(w)' /\ DecideKnown(w)'
  BY DEF PrepareKnown, DecideKnown, Applying, ObjectKinds
<1>5. "done" \notin Applying
  BY DEF Applying, ObjectKinds
<1>6. ApplyKnown(w)'
  BY <1>5 DEF ApplyKnown
<1>7. Known(w)' /\ task'[w].pc \notin Outside
  BY <1>3, <1>4, <1>6 DEF Known, Outside, Applying, ObjectKinds
<1> QED BY <1>1, <1>7, OwnerSteps

\* What a request that applies knows.
LEMMA Knows ==
  ASSUME IInv, NEW w \in Worker, task[w].pc \in (Applying \ {"undo"}) \cup {"apply"}
  PROVE  /\ task[w].pc \notin Outside /\ lock = w /\ Stored /\ Kind(w) = "apply"
         /\ D(w) \in Draft /\ Reached(w)
         /\ task[w].pc # "apply" => task[w].at \in Stamp /\ Owns(w)
         /\ "audit" \notin task[w].made
         /\ task[w].pc = "apply" => task[w].made = {}
         /\ task[w].made \in Makings /\ task \in [Worker -> TaskSet]
<1>1. task[w].pc \notin Outside /\ task[w].pc # "idle"
  BY DEF Outside, Applying, ObjectKinds
<1>2. /\ Known(w) /\ Stored /\ lock = w /\ D(w) \in Draft /\ task \in [Worker -> TaskSet]
      /\ task[w].made \in Makings
  BY <1>1, Owner
<1>3. Kind(w) = "apply" /\ (task[w].pc = "apply" => task[w].made = {})
  BY <1>2 DEF Known, JobKnown, Applying
<1>4. Reached(w) /\ (task[w].pc \in Applying => task[w].at \in Stamp /\ Owns(w))
  BY <1>1, <1>2, <1>3 DEF Known, ApplyKnown
<1>5. "audit" \notin task[w].made
  BY <1>1, <1>2, <1>3 DEF Known, ApplyKnown
<1> QED BY <1>1, <1>2, <1>3, <1>4, <1>5

\* What it owns does not depend on where it is.
LEMMA OwnsKept ==
  ASSUME NEW w \in Worker, Owns(w), Same(w), task'[w].made = task[w].made,
         task'[w].seen = task[w].seen,
         "audit" \in task[w].made => task'[w].at = task[w].at,
         db' = db, answered' = answered /\ torn \subseteq torn'
  PROVE  Owns(w)'
<1>1. D(w)' = D(w) /\ Decides(w)' = Decides(w)
  BY DEF D, Decides, Same
<1>2. \A e : (HasResult(e)' <=> HasResult(e)) /\ (HasAudit(e)' <=> HasAudit(e))
             /\ (Free(e) => Free(e)')
             /\ Positions(e, {"result"})' = Positions(e, {"result"})
  BY SameTimeline DEF HasResult, HasAudit, Unapplied, Free
<1>3. "audit" \in task[w].made => TheAudit(w)' = TheAudit(w)
  BY <1>1 DEF TheAudit, Same
<1>4. "audit" \in task[w].made => Audited(w)' = Audited(w)
  BY <1>1, <1>3 DEF Audited
<1> QED BY <1>1, <1>2, <1>3, <1>4 DEF Owns

\* Where it is tells only how far it has come.
LEMMA ReachedKept ==
  ASSUME NEW w \in Worker, Same(w), db' = db
  PROVE  /\ D(w)' = D(w)
         /\ IsCurrent(D(w))' <=> IsCurrent(D(w))
         /\ HasResult(D(w))' <=> HasResult(D(w))
         /\ HasAudit(D(w))' <=> HasAudit(D(w))
         /\ Audited(w)' = Audited(w)
         /\ \A at : Agree(D(w), "result", at)' <=> Agree(D(w), "result", at)
         /\ Kind(w) = "apply" => TheAudit(w)'.kind = "applied"
<1>1. D(w)' = D(w)
  BY DEF D, Same
<1>2. IsCurrent(D(w))' <=> IsCurrent(D(w))
  BY <1>1, SameCurrent
<1>3. HasResult(D(w))' <=> HasResult(D(w))
  BY <1>1, SameTimeline DEF HasResult
<1>4. HasAudit(D(w))' <=> HasAudit(D(w))
  BY <1>1 DEF HasAudit
<1>5. Decides(w)' = Decides(w) /\ TheAudit(w)'.kind = TheAudit(w).kind
  BY DEF TheAudit, Decides, Same
<1>6. Audited(w)' = Audited(w)
  BY <1>1, <1>5 DEF Audited
<1>7. Kind(w) = "apply" => TheAudit(w)'.kind = "applied"
  BY <1>5 DEF TheAudit, Decides, Kind
<1>8. \A at : Agree(D(w), "result", at)' <=> Agree(D(w), "result", at)
  BY <1>1, SameTimeline DEF Agree
<1> QED BY <1>1, <1>2, <1>3, <1>4, <1>6, <1>7, <1>8

\* A step of an application that only looks at the records.
LEMMA ApplyGoes ==
  ASSUME IInv, NEW w \in Worker, task[w].pc \in Applying \ {"undo"},
         NEW p \in Applying \cup {"done"}, Go(w, p), UNCHANGED <<lock, answered>>,
         Same(w) /\ task'[w].pc = p /\ task'[w].at = task[w].at => Reached(w)'
  PROVE  IInv'
<1>1. p \in Points
  BY DEF Applying, ObjectKinds, Points
<1>2. /\ task[w].pc \notin Outside /\ Stored /\ Kind(w) = "apply" /\ task[w].at \in Stamp
      /\ task \in [Worker -> TaskSet] /\ Owns(w) /\ "audit" \notin task[w].made
  BY Knows DEF Applying, ObjectKinds
<1>3. /\ db' = db /\ lock' = lock
      /\ answered' = answered /\ torn \subseteq torn' /\ task' = [task EXCEPT ![w].pc = p]
  BY DEF Go
<1>4. /\ task' \in [Worker -> TaskSet] /\ Others(w) /\ Same(w)
      /\ task'[w].pc = p /\ task'[w].made = task[w].made
      /\ task'[w].at = task[w].at /\ task'[w].seen = task[w].seen
  BY <1>1, <1>2, <1>3, Goes
<1>5. Owns(w)'
  BY <1>2, <1>3, <1>4, OwnsKept
<1>6. Stored'
  BY <1>2, <1>3, StoredKept
<1> QED BY <1>2, <1>3, <1>4, <1>5, <1>6, ApplySteps

\* A step of an application that makes something.
LEMMA ApplyAttempts ==
  ASSUME IInv, NEW w \in Worker, task[w].pc \in Applying \ {"undo"},
         NEW r, NEW thing \in Things, NEW next \in Applying \cup {"done"},
         Attempt(w, r, {thing}, next), UNCHANGED <<lock, answered>>,
         thing = "audit" => next = "done",
         (db' = r /\ Same(w) /\ task'[w].made = task[w].made \cup {thing}
           /\ task'[w].at = task[w].at /\ task'[w].seen = task[w].seen /\ torn \subseteq torn')
         => Stored' /\ Owns(w)' /\ (task'[w].pc = next => Reached(w)'),
         (db' = r /\ Same(w) /\ task'[w].made = task[w].made /\ thing # "audit"
           /\ task'[w].at = task[w].at /\ task'[w].seen = task[w].seen /\ torn \subseteq torn'
           /\ (thing \in {"case", "event"} => D(w) \in torn'))
         => Stored' /\ Owns(w)'
  PROVE  IInv'
<1>1. next \in Points /\ "undo" \in Points
  BY DEF Applying, ObjectKinds, Points
<1>2. /\ task[w].pc \notin Outside /\ Stored /\ Kind(w) = "apply" /\ task[w].at \in Stamp
      /\ task \in [Worker -> TaskSet] /\ Owns(w) /\ task[w].made \in Makings
      /\ "audit" \notin task[w].made
  BY Knows DEF Applying, ObjectKinds
<1>3. PICK p, n :
        /\ Making(w, p, n) /\ torn \subseteq torn'
        /\ \/ db' = r /\ p \in {next, "undo"} /\ n = task[w].made \cup {thing}
           \/ db' = db /\ p = "undo" /\ n = task[w].made
           \/ /\ db' = r /\ p = "undo" /\ n = task[w].made /\ {thing} # {"audit"}
              /\ {thing} \cap {"case", "event"} # {} => D(w) \in torn'
  BY Writes
<1>4. n \in Makings /\ p \in Points
  BY <1>1, <1>2, <1>3 DEF Makings
<1>5. Making(w, p, n)
  BY <1>3
<1>6. /\ task' \in [Worker -> TaskSet] /\ Others(w) /\ Same(w)
      /\ task'[w].pc = p /\ task'[w].made = n
      /\ task'[w].at = task[w].at /\ task'[w].seen = task[w].seen
  BY <1>2, <1>4, <1>5, Makes
<1>7. p = "undo" => Reached(w)'
  BY <1>6 DEF Reached, Applying, ObjectKinds
<1>8. p \in Applying \cup {"done"}
  BY <1>3 DEF Applying
<1>9. CASE db' = db /\ p = "undo" /\ n = task[w].made
  <2>1. Owns(w)'
    BY <1>2, <1>3, <1>6, <1>9, OwnsKept
  <2>2. Stored'
    BY <1>2, <1>3, <1>9, StoredKept
  <2> QED BY <1>2, <1>3, <1>6, <1>7, <1>8, <1>9, <2>1, <2>2, ApplySteps
<1>10. CASE db' = r /\ p \in {next, "undo"} /\ n = task[w].made \cup {thing}
  <2>1. Stored' /\ Owns(w)' /\ (p = next => Reached(w)')
    BY <1>3, <1>6, <1>10
  <2>2. p \in Applying \ {"undo"} => "audit" \notin task'[w].made
    <3>1. p \in Applying \ {"undo"} => p = next /\ p # "done"
      BY <1>10 DEF Applying, ObjectKinds
    <3> QED BY <1>2, <1>6, <1>10, <3>1
  <2> QED BY <1>2, <1>3, <1>6, <1>7, <1>8, <1>10, <2>1, <2>2, ApplySteps
<1>11. CASE /\ db' = r /\ p = "undo" /\ n = task[w].made /\ {thing} # {"audit"}
            /\ {thing} \cap {"case", "event"} # {} => D(w) \in torn'
  <2>1. thing # "audit" /\ (thing \in {"case", "event"} => D(w) \in torn')
    BY <1>11
  <2>2. Stored' /\ Owns(w)'
    BY <1>3, <1>6, <1>11, <2>1
  <2> QED BY <1>2, <1>3, <1>6, <1>7, <1>8, <1>11, <2>2, ApplySteps
<1> QED BY <1>3, <1>9, <1>10, <1>11

LEMMA ApplyCheckKept ==
  ASSUME IInv, NEW w \in Worker, ApplyCheck(w)
  PROVE  IInv'
<1>1. /\ task[w].pc = "apply" /\ lock' = lock
      /\ answered' = answered /\ torn \subseteq torn' /\ db' = db
      /\ \/ /\ \E at \in Stamp : Seeing(w, "plan", at, db.case)
            /\ db.case.spec = D(w) /\ IsCurrent(D(w))
         \/ task' = [task EXCEPT ![w].pc = "refused"]
  BY DEF ApplyCheck, At, Go, Seeing
<1>2. /\ task[w].pc \notin Outside /\ Stored /\ Kind(w) = "apply"
      /\ task \in [Worker -> TaskSet] /\ task[w].made = {} /\ db.case \in Cases
  BY <1>1, Knows, DbFields DEF Stored
<1>3. Stored'
  BY <1>1, <1>2, StoredKept
<1>4. CASE task' = [task EXCEPT ![w].pc = "refused"]
  <2>1. "refused" \in Points
    BY DEF Points
  <2>2. /\ task' \in [Worker -> TaskSet] /\ Others(w) /\ Same(w)
        /\ task'[w].pc = "refused" /\ task'[w].made = task[w].made
    BY <1>2, <1>4, <2>1, Goes
  <2> QED BY <1>1, <1>2, <1>3, <2>2, Quits
<1>5. ASSUME NEW at \in Stamp, Seeing(w, "plan", at, db.case),
             db.case.spec = D(w), IsCurrent(D(w))
      PROVE  IInv'
  <2>1. "plan" \in Points /\ "plan" \in Applying
    BY DEF Points, Applying, ObjectKinds
  <2>2. /\ task' \in [Worker -> TaskSet] /\ Others(w) /\ Same(w)
        /\ task'[w].pc = "plan" /\ task'[w].made = {}
        /\ task'[w].at = at /\ task'[w].seen = db.case
    BY <1>2, <1>5, <2>1, Sees
  <2>3. Owns(w)'
    BY <1>1, <1>2, <1>5, <2>2 DEF Owns, D, Same
  <2>4. Reached(w)'
    BY <1>1, <1>5, <2>2, ReachedKept DEF Reached, Found
  <2> QED BY <1>1, <1>2, <1>3, <2>1, <2>2, <2>3, <2>4, ApplySteps
<1> QED BY <1>1, <1>4, <1>5

\* Where an object or the claim is missing nothing is presented as applied.
LEMMA Missing ==
  ASSUME Stored, NEW d \in Draft,
         db.manifests[d] = None \/ \E kind \in ObjectKinds : Object(kind, d) \notin db.objects
  PROVE  Free(d) /\ d \notin answered
<1>1. \A at \in Stamp : ~Backed(d, at)
  BY NoneAssumption DEF Backed
<1>2. \A i \in Positions(d, {"result"}) : db.events[i].at \in Stamp
  BY DbFields DEF Positions, Stored, Events, EventSet
<1>3. \A a \in db.audits : a.kind = "applied" => a.at \in Stamp
  BY DbFields DEF Stored, AuditSet
<1>4. d \notin answered
  <2>1. db.manifests[d] \in Stamp \cup {None}
    BY DbFields DEF Stored
  <2> QED BY <1>1, <2>1 DEF Stored, DbInv, SuccessStands
<1>5. d \notin torn => db.case.results # d /\ ~HasResult(d) /\ ~HasAudit(d)
  BY <1>1, <1>2, <1>3 DEF Stored, DbInv, ResultsBacked, HasResult, HasAudit
<1> QED BY <1>4, <1>5 DEF Unapplied, Free

\* What presents a draft as applied is the case, the timeline and the audits.
LEMMA UnappliedKept ==
  ASSUME db'.case = db.case, db'.events = db.events, db'.audits = db.audits,
         answered' = answered /\ torn \subseteq torn'
  PROVE  \A e : /\ HasResult(e)' <=> HasResult(e)
                /\ HasAudit(e)' <=> HasAudit(e)
                /\ Unapplied(e)' <=> Unapplied(e)
                /\ Free(e) => Free(e)'
                /\ Positions(e, {"result"})' = Positions(e, {"result"})
BY SameTimeline DEF HasResult, HasAudit, Unapplied, Free

LEMMA AuditedKept ==
  ASSUME NEW w \in Worker, Same(w), task'[w].at = task[w].at, db'.audits = db.audits
  PROVE  D(w)' = D(w) /\ TheAudit(w)' = TheAudit(w) /\ Audited(w)' = Audited(w)
<1>1. D(w)' = D(w) /\ Decides(w)' = Decides(w)
  BY DEF D, Decides, Same
<1>2. TheAudit(w)' = TheAudit(w)
  BY <1>1 DEF TheAudit, Same
<1> QED BY <1>1, <1>2 DEF Audited

\* An object or the claim is made for a draft that is not presented as applied.
LEMMA OwnsMore ==
  ASSUME NEW w \in Worker, Owns(w), Same(w), NEW thing \in ObjectKinds \cup {"manifest"},
         task'[w].made = task[w].made \cup {thing},
         task'[w].seen = task[w].seen, task'[w].at = task[w].at,
         db'.case = db.case, db'.events = db.events, db'.audits = db.audits,
         answered' = answered /\ torn \subseteq torn',
         Free(D(w)), D(w) \notin answered, thing = "recipe" => \A e \in Draft : Free(e)
  PROVE  Owns(w)'
<1>1. D(w)' = D(w) /\ TheAudit(w)' = TheAudit(w) /\ Audited(w)' = Audited(w)
  BY AuditedKept
<1>2. \A e : /\ HasResult(e)' <=> HasResult(e)
             /\ HasAudit(e)' <=> HasAudit(e)
             /\ Free(e) => Free(e)'
             /\ Positions(e, {"result"})' = Positions(e, {"result"})
  BY UnappliedKept
<1>3. thing \notin {"case", "event", "audit"}
  BY DEF ObjectKinds
<1>4. "recipe" \in task'[w].made => \A e \in Draft \ {D(w)} : Free(e)
  BY DEF Owns
<1>5. /\ "case" \in task'[w].made <=> "case" \in task[w].made
      /\ "event" \in task'[w].made <=> "event" \in task[w].made
      /\ "audit" \in task'[w].made <=> "audit" \in task[w].made
  BY <1>3
<1> QED BY <1>1, <1>2, <1>4, <1>5 DEF Owns, Unapplied, Free

\* One that was made without its being known is nothing it owns.
LEMMA OwnsAsBefore ==
  ASSUME NEW w \in Worker, Owns(w), Same(w), task'[w].made = task[w].made,
         task'[w].seen = task[w].seen, task'[w].at = task[w].at,
         db'.case = db.case, db'.events = db.events, db'.audits = db.audits,
         answered' = answered, torn \subseteq torn'
  PROVE  Owns(w)'
<1>1. D(w)' = D(w) /\ TheAudit(w)' = TheAudit(w) /\ Audited(w)' = Audited(w)
  BY AuditedKept
<1>2. \A e : /\ HasResult(e)' <=> HasResult(e)
             /\ HasAudit(e)' <=> HasAudit(e)
             /\ Free(e) => Free(e)'
             /\ Positions(e, {"result"})' = Positions(e, {"result"})
  BY UnappliedKept
<1> QED BY <1>1, <1>2 DEF Owns

LEMMA InsertObjectKept ==
  ASSUME IInv, NEW w \in Worker, NEW kind \in ObjectKinds, NEW next,
         \/ kind = "plan" /\ next = "list"
         \/ kind = "list" /\ next = "recipe"
         \/ kind = "recipe" /\ next = "manifest",
         InsertObject(w, kind, next)
  PROVE  IInv'
<1>1. /\ task[w].pc = kind /\ UNCHANGED <<lock, answered>>
      /\ IF Object(kind, D(w)) \in db.objects THEN Go(w, next)
         ELSE Attempt(w, [db EXCEPT !.objects = @ \cup {Object(kind, D(w))}], {kind}, next)
  BY DEF InsertObject, At
<1>2. /\ kind \in Applying \ {"undo"} /\ next \in Applying \cup {"done"} /\ kind \in Things
      /\ kind # "apply"
  BY DEF ObjectKinds, Applying, Things
<1>3. /\ Stored /\ D(w) \in Draft /\ Owns(w) /\ Reached(w)
  BY <1>1, <1>2, Knows
<1>4. /\ IsCurrent(D(w))
      /\ \A k \in Found(kind) : Object(k, D(w)) \in db.objects
      /\ Found(next) = Found(kind) \cup {kind}
  BY <1>1, <1>3 DEF Reached, Applying, ObjectKinds, Found
<1>5. CASE Object(kind, D(w)) \in db.objects
  <2>1. Go(w, next) /\ db' = db
    BY <1>1, <1>5 DEF Go
  <2>2. ASSUME Same(w), task'[w].pc = next
        PROVE  Reached(w)'
    <3>1. D(w)' = D(w) /\ (IsCurrent(D(w))' <=> IsCurrent(D(w)))
      BY <2>1, <2>2, ReachedKept
    <3>2. \A k \in Found(next) : Object(k, D(w)) \in db'.objects
      BY <1>4, <1>5, <2>1
    <3> QED BY <1>4, <2>2, <3>1, <3>2 DEF Reached, Object
  <2> QED BY <1>1, <1>2, <2>1, <2>2, ApplyGoes
<1>6. CASE Object(kind, D(w)) \notin db.objects
  <2>1. PICK r : r = [db EXCEPT !.objects = @ \cup {Object(kind, D(w))}]
    OBVIOUS
  <2>2. Attempt(w, r, {kind}, next)
    BY <1>1, <1>6, <2>1
  <2>3. ASSUME db' = r, Same(w), task'[w].made = task[w].made \cup {kind},
               task'[w].at = task[w].at, task'[w].seen = task[w].seen, torn \subseteq torn'
        PROVE  Stored' /\ Owns(w)' /\ (task'[w].pc = next => Reached(w)')
    <3>1. Stored'
      BY <1>1, <1>3, <2>1, <2>3, ObjectMade
    <3>2. /\ db'.case = db.case /\ db'.events = db.events /\ db'.audits = db.audits
          /\ db'.drafts = db.drafts /\ db'.objects = db.objects \cup {Object(kind, D(w))}
      BY <1>3, <2>1, <2>3 DEF Stored, DbSet
    <3>3. Free(D(w)) /\ D(w) \notin answered
      BY <1>3, <1>6, Missing
    <3>4. kind = "recipe" => \A e \in Draft : Free(e)
      <4>1. \A e \in Draft : Object("recipe", e) = Object("recipe", D(w))
        BY DEF Object
      <4> QED BY <1>3, <1>6, <4>1, Missing
    <3>5. Owns(w)'
      BY <1>1, <1>3, <2>3, <3>2, <3>3, <3>4, OwnsMore
    <3>6. ASSUME task'[w].pc = next PROVE Reached(w)'
      <4>1. D(w)' = D(w)
        BY <2>3 DEF D, Same
      <4>2. IsCurrent(D(w))'
        BY <1>4, <3>2, <4>1, SameCurrent
      <4>3. \A k \in Found(next) : Object(k, D(w)) \in db'.objects
        BY <1>4, <3>2
      <4> QED BY <3>6, <4>1, <4>2, <4>3 DEF Reached, Object
    <3> QED BY <3>1, <3>5, <3>6
  <2>4. task[w].pc \in Applying \ {"undo"}
    BY <1>1, <1>2
  <2>5. UNCHANGED <<lock, answered>>
    BY <1>1
  <2>6. (db' = r /\ Same(w) /\ task'[w].made = task[w].made \cup {kind}
          /\ task'[w].at = task[w].at /\ task'[w].seen = task[w].seen /\ torn \subseteq torn')
        => Stored' /\ Owns(w)' /\ (task'[w].pc = next => Reached(w)')
    BY <2>3
  <2>7. ASSUME db' = r, Same(w), task'[w].made = task[w].made,
               task'[w].at = task[w].at, task'[w].seen = task[w].seen, torn \subseteq torn'
        PROVE  Stored' /\ Owns(w)'
    <3>1. Stored'
      BY <1>1, <1>3, <2>1, <2>7, ObjectMade
    <3>2. db'.case = db.case /\ db'.events = db.events /\ db'.audits = db.audits
      BY <1>3, <2>1, <2>7 DEF Stored, DbSet
    <3> QED BY <1>1, <1>3, <2>7, <3>1, <3>2, OwnsAsBefore
  <2>8. (db' = r /\ Same(w) /\ task'[w].made = task[w].made /\ kind # "audit"
          /\ task'[w].at = task[w].at /\ task'[w].seen = task[w].seen /\ torn \subseteq torn'
          /\ (kind \in {"case", "event"} => D(w) \in torn'))
        => Stored' /\ Owns(w)'
    BY <2>7
  <2>9. kind = "audit" => next = "done"
    BY DEF ObjectKinds
  <2> QED BY <1>2, <2>2, <2>4, <2>5, <2>6, <2>8, <2>9, ApplyAttempts
<1> QED BY <1>5, <1>6

LEMMA ManifestKept ==
  ASSUME IInv, NEW w \in Worker, Manifest(w)
  PROVE  IInv'
<1>1. /\ task[w].pc = "manifest" /\ UNCHANGED <<lock, answered>>
      /\ IF db.manifests[D(w)] # None
         THEN Stamping(w, "results", db.manifests[D(w)]) /\ db' = db /\ torn' = torn
         ELSE Attempt(w, [db EXCEPT !.manifests[D(w)] = task[w].at], {"manifest"}, "results")
  BY DEF Manifest, At, Stamping
<1>2. /\ "manifest" \in Applying \ {"undo"} /\ "results" \in Applying \cup {"done"}
      /\ "manifest" \in Things /\ "results" \in Points
      /\ "manifest" \in ObjectKinds \cup {"manifest"}
  BY DEF Applying, Things, Points
<1>3. /\ task[w].pc \notin Outside /\ Kind(w) = "apply" /\ Stored /\ D(w) \in Draft
      /\ Owns(w) /\ Reached(w) /\ task[w].at \in Stamp /\ task \in [Worker -> TaskSet]
      /\ "audit" \notin task[w].made
  BY <1>1, <1>2, Knows
<1>4. /\ IsCurrent(D(w))
      /\ \A k \in ObjectKinds : Object(k, D(w)) \in db.objects
  BY <1>1, <1>3 DEF Reached, Applying, ObjectKinds, Found
<1>5. CASE db.manifests[D(w)] # None
  <2>1. PICK at \in Stamp : at = db.manifests[D(w)]
    BY <1>3, <1>5, DbFields DEF Stored
  <2>2. Stamping(w, "results", at) /\ db' = db /\ torn' = torn /\ at \in Stamp \cup {None}
    BY <1>1, <1>5, <2>1
  <2>3. /\ task' \in [Worker -> TaskSet] /\ Others(w) /\ Same(w)
        /\ task'[w].pc = "results" /\ task'[w].made = task[w].made
        /\ task'[w].at = at /\ task'[w].seen = task[w].seen
    BY <1>2, <1>3, <2>2, Stamps
  <2>5. Owns(w)'
    BY <1>1, <1>3, <2>2, <2>3, OwnsKept
  <2>6. Reached(w)'
    <3>1. D(w)' = D(w) /\ IsCurrent(D(w))'
      BY <1>4, <2>2, <2>3, ReachedKept
    <3> QED BY <1>4, <2>1, <2>2, <2>3, <3>1 DEF Reached, Object, Found
  <2>7. Stored'
    BY <1>1, <1>3, <2>2, StoredKept
  <2> QED BY <1>1, <1>2, <1>3, <2>3, <2>5, <2>6, <2>7, ApplySteps
<1>6. CASE db.manifests[D(w)] = None
  <2>1. PICK r : r = [db EXCEPT !.manifests[D(w)] = task[w].at]
    OBVIOUS
  <2>2. Attempt(w, r, {"manifest"}, "results")
    BY <1>1, <1>6, <2>1
  <2>3. ASSUME db' = r, Same(w), task'[w].made = task[w].made \cup {"manifest"},
               task'[w].at = task[w].at, task'[w].seen = task[w].seen, torn \subseteq torn'
        PROVE  Stored' /\ Owns(w)' /\ (task'[w].pc = "results" => Reached(w)')
    <3>1. Stored' /\ db'.manifests[D(w)] = task[w].at
      BY <1>1, <1>3, <1>6, <2>1, <2>3, ManifestMade
    <3>2. /\ db'.case = db.case /\ db'.events = db.events /\ db'.audits = db.audits
          /\ db'.drafts = db.drafts /\ db'.objects = db.objects
      BY <1>3, <2>1, <2>3 DEF Stored, DbSet
    <3>3. Free(D(w)) /\ D(w) \notin answered
      BY <1>3, <1>6, Missing
    <3>4. Owns(w)'
      BY <1>1, <1>2, <1>3, <2>3, <3>2, <3>3, OwnsMore
    <3>5. ASSUME task'[w].pc = "results" PROVE Reached(w)'
      <4>1. D(w)' = D(w)
        BY <2>3 DEF D, Same
      <4>2. IsCurrent(D(w))'
        BY <1>4, <3>2, <4>1, SameCurrent
      <4> QED BY <1>4, <2>3, <3>1, <3>2, <3>5, <4>1, <4>2 DEF Reached, Object, Found
    <3> QED BY <3>1, <3>4, <3>5
  <2>4. task[w].pc \in Applying \ {"undo"}
    BY <1>1, <1>2
  <2>5. UNCHANGED <<lock, answered>>
    BY <1>1
  <2>6. (db' = r /\ Same(w) /\ task'[w].made = task[w].made \cup {"manifest"}
          /\ task'[w].at = task[w].at /\ task'[w].seen = task[w].seen /\ torn \subseteq torn')
        => Stored' /\ Owns(w)' /\ (task'[w].pc = "results" => Reached(w)')
    BY <2>3
  <2>7. ASSUME db' = r, Same(w), task'[w].made = task[w].made,
               task'[w].at = task[w].at, task'[w].seen = task[w].seen, torn \subseteq torn'
        PROVE  Stored' /\ Owns(w)'
    <3>1. Stored'
      BY <1>1, <1>3, <1>6, <2>1, <2>7, ManifestMade
    <3>2. db'.case = db.case /\ db'.events = db.events /\ db'.audits = db.audits
      BY <1>3, <2>1, <2>7 DEF Stored, DbSet
    <3> QED BY <1>1, <1>3, <2>7, <3>1, <3>2, OwnsAsBefore
  <2> QED BY <1>2, <2>2, <2>4, <2>5, <2>6, <2>7, ApplyAttempts
<1> QED BY <1>5, <1>6

LEMMA LinkResultsKept ==
  ASSUME IInv, NEW w \in Worker, LinkResults(w)
  PROVE  IInv'
<1>1. /\ task[w].pc = "results" /\ UNCHANGED <<lock, answered>>
      /\ IF db.case.results = D(w) THEN Go(w, "resultEvent")
         ELSE Attempt(w, WithCase(db.case.spec, D(w)), {"case"}, "resultEvent")
  BY DEF LinkResults, At
<1>2. /\ "results" \in Applying \ {"undo"} /\ "resultEvent" \in Applying \cup {"done"}
      /\ "case" \in Things
  BY DEF Applying, Things
<1>3. /\ Kind(w) = "apply" /\ Stored /\ D(w) \in Draft /\ Owns(w) /\ Reached(w)
      /\ task[w].at \in Stamp
  BY <1>1, <1>2, Knows
<1>4. /\ \A k \in ObjectKinds : Object(k, D(w)) \in db.objects
      /\ db.manifests[D(w)] = task[w].at
  BY <1>1, <1>3 DEF Reached, Applying, ObjectKinds, Found
<1>5. CASE db.case.results = D(w)
  <2>1. Go(w, "resultEvent") /\ db' = db
    BY <1>1, <1>5 DEF Go
  <2>2. ASSUME Same(w), task'[w].pc = "resultEvent", task'[w].at = task[w].at
        PROVE  Reached(w)'
    <3>1. D(w)' = D(w)
      BY <2>2 DEF D, Same
    <3> QED BY <1>4, <1>5, <2>1, <2>2, <3>1 DEF Reached, Object, Found
  <2> QED BY <1>1, <1>2, <2>1, <2>2, ApplyGoes
<1>6. CASE db.case.results # D(w)
  <2>1. PICK c : c = [spec |-> db.case.spec, results |-> D(w), version |-> db.case.version + 1]
    OBVIOUS
  <2>2. PICK r : r = [db EXCEPT !.case = c]
    OBVIOUS
  <2>3. Attempt(w, r, {"case"}, "resultEvent")
    BY <1>1, <1>6, <2>1, <2>2 DEF WithCase
  <2>4. db.case \in Cases /\ db.case.spec = D(w) /\ c \in Cases
    BY <1>3, <2>1, DbFields DEF Stored, Owns, Cases
  <2>5. Backed(D(w), task[w].at)
    BY <1>4 DEF Backed
  <2>6. db.case.results = None /\ "case" \notin task[w].made
    <3>1. db.case.results = None
      BY <1>3, <1>6, <2>4 DEF Stored, DbInv, ResultsBacked, Cases
    <3> QED BY <1>3, <1>6, <3>1 DEF Owns
  <2>7. ASSUME db' = r, Same(w), task'[w].made = task[w].made \cup {"case"},
               task'[w].at = task[w].at, task'[w].seen = task[w].seen, torn \subseteq torn'
        PROVE  Stored' /\ Owns(w)' /\ (task'[w].pc = "resultEvent" => Reached(w)')
    <3>1. Stored'
      BY <1>1, <1>3, <2>1, <2>2, <2>4, <2>5, <2>7, ResultsLinked
    <3>2. /\ db'.case = c /\ db'.events = db.events /\ db'.audits = db.audits
          /\ db'.objects = db.objects /\ db'.manifests = db.manifests
      BY <1>3, <2>2, <2>7 DEF Stored, DbSet
    <3>3. /\ D(w)' = D(w) /\ TheAudit(w)' = TheAudit(w) /\ Audited(w)' = Audited(w)
      BY <2>7, <3>2, AuditedKept
    <3>4. \A e : /\ HasResult(e)' <=> HasResult(e)
                 /\ HasAudit(e)' <=> HasAudit(e)
                 /\ Positions(e, {"result"})' = Positions(e, {"result"})
      BY <3>2, SameTimeline DEF HasResult, HasAudit
    <3>5. \A e \in Draft \ {D(w)} : Free(e) => Free(e)'
      BY <1>1, <2>1, <2>7, <3>2, <3>4 DEF Unapplied, Free
    <3>6. task[w].seen \in Cases /\ task[w].seen.spec = D(w) /\ task[w].seen.results = None
      BY <1>3, <1>6, <2>6 DEF Owns
    <3>7. Owns(w)'
      BY <1>1, <1>3, <2>1, <2>4, <2>7, <3>2, <3>3, <3>4, <3>5, <3>6 DEF Owns
    <3>8. ASSUME task'[w].pc = "resultEvent" PROVE Reached(w)'
      BY <1>4, <2>1, <2>7, <3>2, <3>3, <3>8 DEF Reached, Object, Found
    <3> QED BY <3>1, <3>7, <3>8
  <2>8. task[w].pc \in Applying \ {"undo"}
    BY <1>1, <1>2
  <2>9. UNCHANGED <<lock, answered>>
    BY <1>1
  <2>10. (db' = r /\ Same(w) /\ task'[w].made = task[w].made \cup {"case"}
           /\ task'[w].at = task[w].at /\ task'[w].seen = task[w].seen /\ torn \subseteq torn')
         => Stored' /\ Owns(w)' /\ (task'[w].pc = "resultEvent" => Reached(w)')
    BY <2>7
  <2>11. ASSUME db' = r, Same(w), task'[w].made = task[w].made,
                task'[w].at = task[w].at, task'[w].seen = task[w].seen, torn \subseteq torn',
                D(w) \in torn'
         PROVE  Stored' /\ Owns(w)'
    <3>1. Stored'
      BY <1>1, <1>3, <2>1, <2>2, <2>4, <2>5, <2>11, ResultsLinked
    <3>2. /\ db'.case = c /\ db'.events = db.events /\ db'.audits = db.audits
      BY <1>3, <2>2, <2>11 DEF Stored, DbSet
    <3>3. /\ D(w)' = D(w) /\ TheAudit(w)' = TheAudit(w) /\ Audited(w)' = Audited(w)
      BY <2>11, <3>2, AuditedKept
    <3>4. \A e : /\ HasResult(e)' <=> HasResult(e)
                 /\ HasAudit(e)' <=> HasAudit(e)
                 /\ Positions(e, {"result"})' = Positions(e, {"result"})
      BY <3>2, SameTimeline DEF HasResult, HasAudit
    <3>5. \A e \in Draft \ {D(w)} : Free(e) => Free(e)'
      BY <1>1, <2>1, <2>11, <3>2, <3>4 DEF Unapplied, Free
    <3>6. task[w].seen \in Cases /\ task[w].seen.spec = D(w)
      BY <1>3 DEF Owns
    <3>7. Owns(w)'
      BY <1>1, <1>3, <2>1, <2>4, <2>6, <2>11, <3>2, <3>3, <3>4, <3>5, <3>6 DEF Owns
    <3> QED BY <3>1, <3>7
  <2>12. (db' = r /\ Same(w) /\ task'[w].made = task[w].made /\ "case" # "audit"
           /\ task'[w].at = task[w].at /\ task'[w].seen = task[w].seen /\ torn \subseteq torn'
           /\ ("case" \in {"case", "event"} => D(w) \in torn'))
         => Stored' /\ Owns(w)'
    BY <2>11
  <2> QED BY <1>2, <2>3, <2>8, <2>9, <2>10, <2>12, ApplyAttempts
<1> QED BY <1>5, <1>6

LEMMA ResultEventKept ==
  ASSUME IInv, NEW w \in Worker, ResultEvent(w)
  PROVE  IInv'
<1>1. /\ task[w].pc = "resultEvent" /\ UNCHANGED <<lock, answered>>
      /\ \/ /\ ~HasResult(D(w))
            /\ Attempt(w, WithEvent("result", D(w), task[w].at), {"event"}, "applyAudit")
         \/ HasResult(D(w)) /\ Agree(D(w), "result", task[w].at) /\ Go(w, "applyAudit")
         \/ Go(w, "undo")
  BY DEF ResultEvent, At, HasResult
<1>2. /\ "resultEvent" \in Applying \ {"undo"} /\ "applyAudit" \in Applying \cup {"done"}
      /\ "undo" \in Applying /\ "event" \in Things
  BY DEF Applying, Things
<1>3. /\ Kind(w) = "apply" /\ Stored /\ D(w) \in Draft /\ Owns(w) /\ Reached(w)
      /\ task[w].at \in Stamp
  BY <1>1, <1>2, Knows
<1>4. /\ \A k \in ObjectKinds : Object(k, D(w)) \in db.objects
      /\ db.manifests[D(w)] = task[w].at /\ db.case.results = D(w)
  BY <1>1, <1>3 DEF Reached, Applying, ObjectKinds, Found
<1>5. CASE Go(w, "undo")
  <2>1. task'[w].pc = "undo" => Reached(w)'
    BY DEF Reached, Applying, ObjectKinds
  <2> QED BY <1>1, <1>2, <1>5, <2>1, ApplyGoes
<1>6. CASE HasResult(D(w)) /\ Agree(D(w), "result", task[w].at) /\ Go(w, "applyAudit")
  <2>1. db' = db
    BY <1>6 DEF Go
  <2>2. ASSUME Same(w), task'[w].pc = "applyAudit", task'[w].at = task[w].at
        PROVE  Reached(w)'
    <3>1. D(w)' = D(w) /\ HasResult(D(w))' /\ Agree(D(w), "result", task[w].at)'
      BY <1>6, <2>1, <2>2, ReachedKept
    <3> QED BY <1>4, <2>1, <2>2, <3>1 DEF Reached, Object, Found
  <2> QED BY <1>1, <1>2, <1>6, <2>2, ApplyGoes
<1>7. CASE /\ ~HasResult(D(w))
           /\ Attempt(w, WithEvent("result", D(w), task[w].at), {"event"}, "applyAudit")
  <2>1. PICK r : r = WithEvent("result", D(w), task[w].at)
    OBVIOUS
  <2>2. Attempt(w, r, {"event"}, "applyAudit")
    BY <1>7, <2>1
  <2>3. Backed(D(w), task[w].at)
    BY <1>4 DEF Backed
  <2>4. D(w) \notin answered
    BY <1>3, <1>7 DEF Stored, DbInv, SuccessStands, HasResult
  <2>5. ASSUME db' = r, Same(w), task'[w].made = task[w].made \cup {"event"},
               task'[w].at = task[w].at, task'[w].seen = task[w].seen, torn \subseteq torn'
        PROVE  Stored' /\ Owns(w)' /\ (task'[w].pc = "applyAudit" => Reached(w)')
    <3>1. /\ Stored' /\ Len(db'.events) = Len(db.events) + 1
          /\ \A e : Positions(e, {"result"})' =
                      Positions(e, {"result"})
                        \cup IF e = D(w) THEN {Len(db.events) + 1} ELSE {}
      <4>1. db' = [db EXCEPT !.events =
                     Append(@, [kind |-> "result", draft |-> D(w), at |-> task[w].at])]
        BY <2>1, <2>5 DEF WithEvent
      <4> QED BY <1>1, <1>3, <2>3, <2>5, <4>1, ResultAdded
    <3>2. /\ db'.case = db.case /\ db'.audits = db.audits
          /\ db'.objects = db.objects /\ db'.manifests = db.manifests
      BY <1>3, <2>1, <2>5 DEF Stored, DbSet, WithEvent
    <3>3. /\ D(w)' = D(w) /\ TheAudit(w)' = TheAudit(w) /\ Audited(w)' = Audited(w)
      BY <2>5, <3>2, AuditedKept
    <3>4. /\ Positions(D(w), {"result"})' = {Len(db'.events)} /\ HasResult(D(w))'
          /\ \A e : HasAudit(e)' <=> HasAudit(e)
      <4>1. Positions(D(w), {"result"}) = {}
        BY <1>7 DEF HasResult
      <4>2. Positions(D(w), {"result"})' = {Len(db'.events)}
        BY <3>1, <3>3, <4>1
      <4>3. HasResult(D(w))'
        BY <3>3, <4>2 DEF HasResult
      <4>4. \A e : HasAudit(e)' <=> HasAudit(e)
        BY <3>2 DEF HasAudit
      <4> QED BY <4>2, <4>3, <4>4
    <3>5. \A e \in Draft \ {D(w)} : Free(e) => Free(e)'
      BY <1>1, <2>5, <3>1, <3>2, <3>4 DEF Unapplied, Free, HasResult
    <3>6. Owns(w)'
      BY <1>1, <1>3, <2>4, <2>5, <3>2, <3>3, <3>4, <3>5 DEF Owns
    <3>7. ASSUME task'[w].pc = "applyAudit" PROVE Reached(w)'
      <4>1. Agree(D(w), "result", task[w].at)'
        BY <1>3, <2>1, <2>5, <3>1, <3>3, <3>4 DEF Agree, Stored, DbSet, WithEvent, Events
      <4> QED BY <1>4, <2>5, <3>2, <3>3, <3>4, <3>7, <4>1 DEF Reached, Object, Found
    <3> QED BY <3>1, <3>6, <3>7
  <2>6. task[w].pc \in Applying \ {"undo"}
    BY <1>1, <1>2
  <2>7. UNCHANGED <<lock, answered>>
    BY <1>1
  <2>8. (db' = r /\ Same(w) /\ task'[w].made = task[w].made \cup {"event"}
           /\ task'[w].at = task[w].at /\ task'[w].seen = task[w].seen /\ torn \subseteq torn')
         => Stored' /\ Owns(w)' /\ (task'[w].pc = "applyAudit" => Reached(w)')
    BY <2>5
  <2>9. ASSUME db' = r, Same(w), task'[w].made = task[w].made,
               task'[w].at = task[w].at, task'[w].seen = task[w].seen, torn \subseteq torn',
               D(w) \in torn'
        PROVE  Stored' /\ Owns(w)'
    <3>1. /\ Stored' /\ Len(db'.events) = Len(db.events) + 1
          /\ \A e : Positions(e, {"result"})' =
                      Positions(e, {"result"})
                        \cup IF e = D(w) THEN {Len(db.events) + 1} ELSE {}
      <4>1. db' = [db EXCEPT !.events =
                     Append(@, [kind |-> "result", draft |-> D(w), at |-> task[w].at])]
        BY <2>1, <2>9 DEF WithEvent
      <4> QED BY <1>1, <1>3, <2>3, <2>9, <4>1, ResultAdded
    <3>2. db'.case = db.case /\ db'.audits = db.audits
      BY <1>3, <2>1, <2>9 DEF Stored, DbSet, WithEvent
    <3>3. /\ D(w)' = D(w) /\ TheAudit(w)' = TheAudit(w) /\ Audited(w)' = Audited(w)
      BY <2>9, <3>2, AuditedKept
    <3>4. "event" \notin task[w].made
      BY <1>3, <1>7 DEF Owns, HasResult
    <3>5. \A e \in Draft \ {D(w)} : Free(e) => Free(e)'
      BY <1>1, <2>9, <3>1, <3>2 DEF Unapplied, Free, HasResult, HasAudit
    <3>6. Owns(w)'
      BY <1>1, <1>3, <2>9, <3>2, <3>3, <3>4, <3>5 DEF Owns
    <3> QED BY <3>1, <3>6
  <2>10. (db' = r /\ Same(w) /\ task'[w].made = task[w].made /\ "event" # "audit"
           /\ task'[w].at = task[w].at /\ task'[w].seen = task[w].seen /\ torn \subseteq torn'
           /\ ("event" \in {"case", "event"} => D(w) \in torn'))
         => Stored' /\ Owns(w)'
    BY <2>9
  <2> QED BY <1>2, <2>2, <2>6, <2>7, <2>8, <2>10, ApplyAttempts
<1> QED BY <1>1, <1>5, <1>6, <1>7

LEMMA ApplyAuditKept ==
  ASSUME IInv, NEW w \in Worker, ApplyAudit(w)
  PROVE  IInv'
<1>1. /\ task[w].pc = "applyAudit" /\ UNCHANGED <<lock, answered>>
      /\ \/ Audited(w) = {} /\ Attempt(w, WithAudit(w), {"audit"}, "done")
         \/ Audited(w) = {TheAudit(w)} /\ Go(w, "done")
         \/ Go(w, "undo")
  BY DEF ApplyAudit, At
<1>2. /\ "applyAudit" \in Applying \ {"undo"} /\ "done" \in Applying \cup {"done"}
      /\ "undo" \in Applying /\ "audit" \in Things
  BY DEF Applying, Things
<1>3. /\ Kind(w) = "apply" /\ Stored /\ D(w) \in Draft /\ Owns(w) /\ Reached(w)
      /\ task[w].at \in Stamp
  BY <1>1, <1>2, Knows
<1>4. /\ \A k \in ObjectKinds : Object(k, D(w)) \in db.objects
      /\ db.manifests[D(w)] = task[w].at /\ db.case.results = D(w) /\ HasResult(D(w))
      /\ Agree(D(w), "result", task[w].at)
  BY <1>1, <1>3 DEF Reached, Applying, ObjectKinds, Found
<1>5. TheAudit(w) = [kind |-> "applied", draft |-> D(w), at |-> task[w].at]
  BY <1>3 DEF TheAudit, Decides, Kind
<1>6. Audited(w) = {a \in db.audits : a.kind = "applied" /\ a.draft = D(w)}
  BY <1>5 DEF Audited
<1>7. CASE Go(w, "undo")
  <2>1. task'[w].pc = "undo" => Reached(w)'
    BY DEF Reached, Applying, ObjectKinds
  <2> QED BY <1>1, <1>2, <1>7, <2>1, ApplyGoes
<1>8. CASE Audited(w) = {TheAudit(w)} /\ Go(w, "done")
  <2>1. db' = db
    BY <1>8 DEF Go
  <2>3. ASSUME Same(w), task'[w].pc = "done", task'[w].at = task[w].at
        PROVE  Reached(w)'
    <3>1. /\ D(w)' = D(w) /\ HasResult(D(w))' /\ Agree(D(w), "result", task[w].at)'
          /\ Audited(w)' = Audited(w)
      BY <1>4, <2>1, <2>3, ReachedKept
    <3>2. TheAudit(w)' = TheAudit(w)
      BY <2>1, <2>3, AuditedKept
    <3> QED BY <1>4, <1>8, <2>1, <2>3, <3>1, <3>2 DEF Reached, Object, Found
  <2> QED BY <1>1, <1>2, <1>8, <2>3, ApplyGoes
<1>9. CASE Audited(w) = {} /\ Attempt(w, WithAudit(w), {"audit"}, "done")
  <2>1. PICK r : r = WithAudit(w)
    OBVIOUS
  <2>2. Attempt(w, r, {"audit"}, "done")
    BY <1>9, <2>1
  <2>3. Backed(D(w), task[w].at)
    BY <1>4 DEF Backed
  <2>4. ~HasAudit(D(w)) /\ D(w) \notin answered
    BY <1>3, <1>6, <1>9 DEF Stored, DbInv, SuccessStands, HasAudit
  <2>5. ASSUME db' = r, Same(w), task'[w].made = task[w].made \cup {"audit"},
               task'[w].at = task[w].at, task'[w].seen = task[w].seen, torn \subseteq torn'
        PROVE  Stored' /\ Owns(w)' /\ (task'[w].pc = "done" => Reached(w)')
    <3>1. Stored'
      <4>1. db' = [db EXCEPT !.audits =
                     @ \cup {[kind |-> "applied", draft |-> D(w), at |-> task[w].at]}]
        BY <1>5, <2>1, <2>5 DEF WithAudit
      <4> QED BY <1>1, <1>3, <2>3, <2>5, <4>1, ApplicationAudited
    <3>2. /\ db'.case = db.case /\ db'.audits = db.audits \cup {TheAudit(w)}
          /\ db'.objects = db.objects /\ db'.manifests = db.manifests
          /\ db'.events = db.events
      BY <1>3, <2>1, <2>5 DEF Stored, DbSet, WithAudit
    <3>3. D(w)' = D(w) /\ Decides(w)' = Decides(w)
      BY <2>5 DEF D, Decides, Same
    <3>4. TheAudit(w)' = TheAudit(w)
      BY <2>5, <3>3 DEF TheAudit, Same
    <3>5. Audited(w)' = {TheAudit(w)}
      BY <1>5, <1>6, <1>9, <3>2, <3>3, <3>4 DEF Audited
    <3>6. /\ HasAudit(D(w))'
          /\ \A e : e # D(w) => (HasAudit(e)' <=> HasAudit(e))
          /\ \A e : HasResult(e)' <=> HasResult(e)
          /\ \A e : Positions(e, {"result"})' = Positions(e, {"result"})
      <4>1. HasAudit(D(w))'
        BY <1>5, <3>2, <3>3 DEF HasAudit
      <4>2. \A e : e # D(w) => (HasAudit(e)' <=> HasAudit(e))
        BY <1>5, <3>2 DEF HasAudit
      <4>3. \A e : Positions(e, {"result"})' = Positions(e, {"result"})
        BY <3>2, SameTimeline
      <4>4. \A e : HasResult(e)' <=> HasResult(e)
        BY <4>3 DEF HasResult
      <4> QED BY <4>1, <4>2, <4>3, <4>4
    <3>7. \A e \in Draft \ {D(w)} : Free(e) => Free(e)'
      BY <1>1, <2>5, <3>2, <3>6 DEF Unapplied, Free
    <3>8. Owns(w)'
      BY <1>1, <1>3, <2>4, <2>5, <3>2, <3>3, <3>4, <3>5, <3>6, <3>7 DEF Owns
    <3>9. ASSUME task'[w].pc = "done" PROVE Reached(w)'
      <4>1. \A e, at : Agree(e, "result", at) => Agree(e, "result", at)'
        <5>1. \A e : Positions(e, {"result"})' = Positions(e, {"result"})
          BY <3>2, SameTimeline
        <5> QED BY <3>2, <5>1 DEF Agree
      <4> QED BY <1>4, <2>5, <3>2, <3>3, <3>4, <3>5, <3>6, <3>9, <4>1 DEF Reached, Object, Found
    <3> QED BY <3>1, <3>8, <3>9
  <2>6. task[w].pc \in Applying \ {"undo"}
    BY <1>1, <1>2
  <2>7. UNCHANGED <<lock, answered>>
    BY <1>1
  <2>8. (db' = r /\ Same(w) /\ task'[w].made = task[w].made \cup {"audit"}
           /\ task'[w].at = task[w].at /\ task'[w].seen = task[w].seen /\ torn \subseteq torn')
         => Stored' /\ Owns(w)' /\ (task'[w].pc = "done" => Reached(w)')
    BY <2>5
  <2>9. (db' = r /\ Same(w) /\ task'[w].made = task[w].made /\ "audit" # "audit"
           /\ task'[w].at = task[w].at /\ task'[w].seen = task[w].seen /\ torn \subseteq torn'
           /\ ("audit" \in {"case", "event"} => D(w) \in torn'))
        => Stored' /\ Owns(w)'
    OBVIOUS
  <2> QED BY <1>2, <2>2, <2>6, <2>7, <2>8, <2>9, ApplyAttempts
<1> QED BY <1>1, <1>7, <1>8, <1>9

-------------------------------------------------------------------------------
(* Undoing *)

\* What is undone next is what no other thing comes before.
Foremost(w, thing) ==
  thing \in task[w].made /\ \A other \in task[w].made : Rank(thing) <= Rank(other)

\* Undoing one thing leaves nothing that presents a draft without its evidence.
LEMMA Taken ==
  ASSUME Stored, answered' = answered, torn \subseteq torn',
         NEW w \in Worker, Owns(w), Kind(w) = "apply",
         D(w) \in Draft, task[w].made \in Makings,
         NEW thing \in Things, Foremost(w, thing), db' = Without(w, thing)
  PROVE  Stored'
<1> DEFINE d == D(w)
           made == task[w].made
<1>1. \A other \in made : Rank(thing) <= Rank(other)
  BY DEF Foremost
<1>2. /\ thing \in made
      /\ thing # "case" => made \ {"case"} # {}
  BY DEF Foremost
<1>3. CASE thing = "case"
  <2>1. db' = [db EXCEPT !.case = task[w].seen]
    BY <1>3 DEF Without, ObjectKinds
  <2>2. /\ task[w].seen \in Cases /\ task[w].seen.spec = db.case.spec
        /\ task[w].seen.results = None
    BY <1>2, <1>3 DEF Owns
  <2> QED BY <2>1, <2>2, CaseWritten
<1>4. CASE thing = "audit"
  <2>1. db' = [db EXCEPT !.audits = @ \ {TheAudit(w)}]
    BY <1>4 DEF Without, ObjectKinds
  <2>2. d \notin answered /\ TheAudit(w).draft = d
    BY <1>2, <1>4 DEF Owns, TheAudit
  <2> QED BY <2>1, <2>2, AuditTaken
<1>5. CASE thing = "event"
  <2>1. Positions(d, {"result"}) = {Len(db.events)} /\ d \notin answered
    BY <1>2, <1>5 DEF Owns
  <2>2. (CHOOSE i \in Positions(d, {"result"}) : TRUE) = Len(db.events)
    BY <2>1
  <2>3. db' = [db EXCEPT !.events = RemoveAt(@, Len(db.events))]
    BY <1>5, <2>2 DEF Without, ObjectKinds
  <2> QED BY <2>1, <2>3, ResultTaken
<1>6. CASE thing \in ObjectKinds \cup {"manifest"}
  <2>1. "case" \notin made /\ "audit" \notin made /\ "event" \notin made
    BY <1>1, <1>6, Ranks DEF ObjectKinds
  <2>2. made \cap {"plan", "list", "recipe", "manifest"} # {} /\ made \ {"case"} # {}
    BY <1>2, <1>6 DEF ObjectKinds
  <2>3. Free(d)
    BY <2>1, <2>2 DEF Owns, Unapplied, Free
  <2>4. CASE thing = "manifest"
    <3>1. db' = [db EXCEPT !.manifests[d] = None]
      BY <2>4 DEF Without, ObjectKinds
    <3> QED BY <2>3, <3>1, ManifestTaken
  <2>5. CASE thing \in ObjectKinds
    <3>1. PICK o : o = Object(thing, d)
      OBVIOUS
    <3>2. db' = [db EXCEPT !.objects = @ \ {o}]
      BY <2>5, <3>1 DEF Without, ObjectKinds
    <3>3. ASSUME NEW kind \in ObjectKinds, NEW e \in Draft, Object(kind, e) = o
          PROVE  Free(e)
      <4>1. CASE thing = "recipe"
        BY <1>2, <2>3, <4>1 DEF Owns
      <4>2. CASE thing # "recipe"
        <5>1. kind = thing /\ e = d
          BY <3>1, <3>3, <4>2, DraftNat DEF Object
        <5> QED BY <2>3, <5>1
      <4> QED BY <4>1, <4>2
    <3>4. Stored /\ answered' = answered /\ torn \subseteq torn'
      OBVIOUS
    <3> QED BY <3>2, <3>3, <3>4, ObjectTaken
  <2> QED BY <1>6, <2>4, <2>5
<1> QED BY <1>3, <1>4, <1>5, <1>6 DEF Things, ObjectKinds

\* And what it still owns nobody relies on.
LEMMA OwnsLess ==
  ASSUME Stored, answered' = answered, torn \subseteq torn',
         NEW w \in Worker, Owns(w), Kind(w) = "apply",
         D(w) \in Draft, task[w].made \in Makings,
         NEW thing \in Things, Foremost(w, thing), db' = Without(w, thing),
         Same(w), task'[w].made = task[w].made \ {thing},
         task'[w].seen = task[w].seen, task'[w].at = task[w].at
  PROVE  Owns(w)'
<1> DEFINE d == D(w)
           made == task[w].made
<1>1. \A other \in made : Rank(thing) <= Rank(other)
  BY DEF Foremost
<1>2. thing \in made
  BY DEF Foremost
<1>3. D(w)' = D(w) /\ Decides(w)' = Decides(w)
  BY DEF D, Decides, Same
<1>4. TheAudit(w)' = TheAudit(w)
  BY <1>3 DEF TheAudit, Same
<1>5. TheAudit(w).kind = "applied" /\ TheAudit(w).draft = d
  BY DEF TheAudit, Decides, Kind
<1>6. CASE thing = "case"
  <2>1. db' = [db EXCEPT !.case = task[w].seen]
    BY <1>6 DEF Without, ObjectKinds
  <2>2. /\ db'.case = task[w].seen /\ db'.audits = db.audits
        /\ db'.events = db.events
    BY <2>1 DEF Stored, DbSet
  <2>3. Audited(w)' = Audited(w)
    BY <1>3, <1>4, <2>2 DEF Audited
  <2>4. \A e : /\ HasResult(e)' <=> HasResult(e)
               /\ HasAudit(e)' <=> HasAudit(e)
               /\ Positions(e, {"result"})' = Positions(e, {"result"})
    BY <2>2, SameTimeline DEF HasResult, HasAudit
  <2>5. /\ task[w].seen \in Cases /\ task[w].seen.spec = d /\ task[w].seen.results = None
    BY <1>2, <1>6 DEF Owns
  <2>6. \A e \in Draft : Free(e) => Free(e)'
    BY <2>2, <2>4, <2>5, NoneAssumption DEF Unapplied, Free
  <2>7. d # None
    BY NoneAssumption
  <2> QED BY <1>2, <1>3, <1>4, <1>6, <2>2, <2>3, <2>4, <2>5, <2>6, <2>7 DEF Owns
<1>7. CASE thing = "audit"
  <2>1. db' = [db EXCEPT !.audits = @ \ {TheAudit(w)}]
    BY <1>7 DEF Without, ObjectKinds
  <2>2. /\ db'.case = db.case /\ db'.audits = db.audits \ {TheAudit(w)}
        /\ db'.events = db.events
    BY <2>1 DEF Stored, DbSet
  <2>3. Audited(w) = {TheAudit(w)}
    BY <1>2, <1>7 DEF Owns
  <2>4. \A e : /\ HasResult(e)' <=> HasResult(e)
               /\ Positions(e, {"result"})' = Positions(e, {"result"})
    BY <2>2, SameTimeline DEF HasResult
  <2>5. ~HasAudit(d)' /\ \A e : HasAudit(e)' => HasAudit(e)
    BY <1>3, <1>5, <2>2, <2>3 DEF HasAudit, Audited
  <2>6. \A e \in Draft : Free(e) => Free(e)'
    BY <2>2, <2>4, <2>5 DEF Unapplied, Free
  <2> QED BY <1>2, <1>3, <1>7, <2>2, <2>4, <2>5, <2>6 DEF Owns
<1>8. CASE thing = "event"
  <2>1. Positions(d, {"result"}) = {Len(db.events)} /\ d \notin answered
    BY <1>2, <1>8 DEF Owns
  <2>2. (CHOOSE i \in Positions(d, {"result"}) : TRUE) = Len(db.events)
    BY <2>1
  <2>3. db' = [db EXCEPT !.events = RemoveAt(@, Len(db.events))]
    BY <1>8, <2>2 DEF Without, ObjectKinds
  <2>4. \A e : Positions(e, {"result"})' = IF e = d THEN {} ELSE Positions(e, {"result"})
    BY <2>1, <2>3, ResultTaken
  <2>5. db'.case = db.case /\ db'.audits = db.audits
    BY <2>3 DEF Stored, DbSet
  <2>6. \A e : HasAudit(e)' <=> HasAudit(e)
    BY <2>5 DEF HasAudit
  <2>7. ~HasResult(d)' /\ \A e : HasResult(e)' => HasResult(e)
    BY <1>3, <2>4 DEF HasResult
  <2>8. \A e \in Draft : Free(e) => Free(e)'
    BY <2>5, <2>6, <2>7 DEF Unapplied, Free
  <2>9. "audit" \notin made
    BY <1>1, <1>8, Ranks
  <2> QED BY <1>2, <1>3, <1>8, <2>5, <2>6, <2>7, <2>8, <2>9 DEF Owns
<1>9. CASE thing \in ObjectKinds \cup {"manifest"}
  <2>1. "case" \notin made /\ "audit" \notin made /\ "event" \notin made
    BY <1>1, <1>9, Ranks DEF ObjectKinds
  <2>2. db'.case = db.case /\ db'.events = db.events /\ db'.audits = db.audits
    <3>1. CASE thing = "manifest"
      BY <3>1 DEF Without, ObjectKinds, Stored, DbSet
    <3>2. CASE thing \in ObjectKinds
      BY <3>2 DEF Without, ObjectKinds, Stored, DbSet
    <3> QED BY <1>9, <3>1, <3>2
  <2>3. \A e : /\ HasResult(e)' <=> HasResult(e)
               /\ HasAudit(e)' <=> HasAudit(e)
               /\ Free(e) => Free(e)'
    BY <2>2, UnappliedKept
  <2> QED BY <1>3, <2>1, <2>2, <2>3 DEF Owns
<1> QED BY <1>6, <1>7, <1>8, <1>9 DEF Things, ObjectKinds

LEMMA UndoKept ==
  ASSUME IInv, NEW w \in Worker, Undo(w)
  PROVE  IInv'
<1>1. PICK thing \in task[w].made :
        /\ task[w].pc = "undo" /\ lock' = lock
        /\ answered' = answered /\ torn \subseteq torn'
        /\ Foremost(w, thing)
        /\ \/ db' = Without(w, thing) /\ Dropping(w, task[w].made \ {thing})
           \/ db' \in {db, Without(w, thing)} /\ Making(w, "refused", {})
  BY DEF Undo, At, Foremost, Dropping, Making
<1>2. /\ task[w].pc \notin Outside /\ task[w].pc # "idle" /\ "undo" \in Applying
      /\ "refused" \in Points /\ {} \in Makings
  BY <1>1 DEF Outside, Applying, Points, Makings
<1>3. /\ Stored /\ Known(w) /\ task \in [Worker -> TaskSet]
      /\ task[w].made \subseteq Things /\ task[w].made \in Makings /\ D(w) \in Draft
      /\ Kind(w) \in {"decide", "prepare", "apply", "continue"}
      /\ Kind(w) = "decide" => task[w].job.verdict \in Verdict
  BY <1>2, Owner
<1>4. thing \in Things /\ task[w].made \ {thing} \in Makings
  BY <1>1, <1>3 DEF Makings
<1>5. Kind(w) = "apply" => Owns(w) /\ task[w].at \in Stamp
  BY <1>1, <1>2, <1>3 DEF Known, ApplyKnown
<1>6. db' = Without(w, thing) => Stored'
  <2>1. CASE Kind(w) = "apply"
    BY <1>1, <1>3, <1>4, <1>5, <2>1, Taken
  <2>2. CASE Kind(w) # "apply"
    <3>1. task[w].made \subseteq {"audit"} /\ task[w].made # {} => Kind(w) = "decide"
      BY <1>2, <1>3, <2>2 DEF Known, JobKnown
    <3>2. thing = "audit" /\ Kind(w) = "decide"
      BY <1>1, <1>2, <1>3, <2>2, <3>1 DEF Known, JobKnown
    <3>3. PICK A : A = db.audits \ {TheAudit(w)}
      OBVIOUS
    <3>4. TheAudit(w).kind # "applied"
      BY <1>3, <3>2 DEF TheAudit, Decides, Kind, Verdict
    <3>5. A \in SUBSET AuditSet /\ \A a : a.kind = "applied" => (a \in A <=> a \in db.audits)
      BY <1>3, <3>3, <3>4, DbFields DEF Stored
    <3>6. Without(w, thing) = [db EXCEPT !.audits = A]
      BY <3>2, <3>3 DEF Without, ObjectKinds
    <3> QED BY <1>1, <1>3, <3>5, <3>6, AuditsChanged
  <2> QED BY <2>1, <2>2
<1>7. CASE db' \in {db, Without(w, thing)} /\ Making(w, "refused", {})
  <2>1. /\ task' \in [Worker -> TaskSet] /\ Others(w) /\ Same(w)
        /\ task'[w].pc = "refused" /\ task'[w].made = {}
    BY <1>2, <1>3, <1>7, Makes
  <2>2. Stored'
    BY <1>1, <1>3, <1>6, <1>7, StoredKept
  <2> QED BY <1>1, <1>2, <2>1, <2>2, Quits
<1>8. CASE db' = Without(w, thing) /\ Dropping(w, task[w].made \ {thing})
  <2>1. PICK m \in Makings : m = task[w].made \ {thing}
    BY <1>4
  <2>2. Dropping(w, m)
    BY <1>8, <2>1
  <2>3. /\ task' \in [Worker -> TaskSet] /\ Others(w) /\ Same(w)
        /\ task'[w].pc = "undo" /\ task'[w].made = task[w].made \ {thing}
        /\ task'[w].at = task[w].at /\ task'[w].seen = task[w].seen
    BY <1>1, <1>3, <2>1, <2>2, Drops
  <2>4. Stored'
    BY <1>6, <1>8
  <2>5. CASE Kind(w) # "apply"
    BY <1>1, <1>2, <2>3, <2>4, <2>5, Quits
  <2>6. CASE Kind(w) = "apply"
    <3>1. Owns(w)'
      BY <1>1, <1>3, <1>4, <1>5, <1>8, <2>3, <2>6, OwnsLess
    <3>2. Reached(w)'
      BY <2>3 DEF Reached, Applying, ObjectKinds
    <3> QED BY <1>1, <1>2, <1>5, <2>3, <2>4, <2>6, <3>1, <3>2, ApplySteps
  <2> QED BY <2>5, <2>6
<1> QED BY <1>1, <1>7, <1>8

LEMMA UndoneKept ==
  ASSUME IInv, NEW w \in Worker, Undone(w)
  PROVE  IInv'
<1>1. /\ task[w].pc = "undo" /\ lock' = lock
      /\ answered' = answered /\ torn \subseteq torn' /\ db' = db
      /\ task' = [task EXCEPT ![w].pc = "refused"]
  BY DEF Undone, At, Go
<1>2. task[w].pc \notin Outside /\ "refused" \in Points
  BY <1>1 DEF Outside, Points
<1>3. Stored /\ task \in [Worker -> TaskSet]
  BY <1>2, Owner
<1>4. /\ task' \in [Worker -> TaskSet] /\ Others(w) /\ Same(w)
      /\ task'[w].pc = "refused" /\ task'[w].made = task[w].made
  BY <1>1, <1>2, <1>3, Goes
<1>5. Stored'
  BY <1>1, <1>3, StoredKept
<1> QED BY <1>1, <1>2, <1>4, <1>5, Quits

-------------------------------------------------------------------------------
(* Requests come and go *)

\* A request that is over knows nothing.
LEMMA Nothing ==
  ASSUME NEW w \in Worker, task'[w].pc = "idle"
  PROVE  Known(w)'
<1>1. JobKnown(w)'
  BY DEF JobKnown, ObjectKinds
<1>2. PrepareKnown(w)' /\ DecideKnown(w)'
  BY DEF PrepareKnown, DecideKnown
<1> QED BY <1>1, <1>2 DEF Known

\* What another request knows does not depend on how often continuations are
\* audited.
LEMMA Unmoved ==
  ASSUME NEW v \in Worker, Known(v), task'[v] = task[v], answered' = answered, torn \subseteq torn',
         db \in DbSet, NEW A, db' = [db EXCEPT !.audits = A],
         \A a : a.kind = "applied" => (a \in A <=> a \in db.audits)
  PROVE  Known(v)'
<1>1. /\ db'.events = db.events
      /\ db'.drafts = db.drafts /\ db'.prepared = db.prepared
      /\ db'.aggregates = db.aggregates /\ db'.approvals = db.approvals
      /\ db'.specs = db.specs /\ db'.objects = db.objects /\ db'.manifests = db.manifests
      /\ db'.audits = A /\ db'.case = db.case
  BY DEF DbSet
<1>2. /\ D(v)' = D(v) /\ Kind(v)' = Kind(v) /\ Decides(v)' = Decides(v)
  BY DEF D, Kind, Decides
<1>3. JobKnown(v)' /\ PrepareKnown(v)' /\ DecideKnown(v)'
  BY <1>1, <1>2 DEF Known, JobKnown, PrepareKnown, DecideKnown
<1>4. \A e : /\ HasResult(e)' <=> HasResult(e)
             /\ HasAudit(e)' <=> HasAudit(e)
             /\ Positions(e, {"result"})' = Positions(e, {"result"})
  BY <1>1, SameTimeline DEF HasResult, HasAudit
<1>5. \A e : Free(e) => Free(e)'
  BY <1>1, <1>4 DEF Unapplied, Free
<1>6. TheAudit(v)' = TheAudit(v)
  BY <1>2 DEF TheAudit
<1>7. Kind(v) = "apply" => Audited(v)' = Audited(v)
  <2>1. Kind(v) = "apply" => TheAudit(v).kind = "applied"
    BY DEF TheAudit, Decides, Kind
  <2> QED BY <1>1, <1>2, <1>6, <2>1 DEF Audited
<1>8. Kind(v) = "apply" /\ Owns(v) => Owns(v)'
  BY <1>1, <1>2, <1>4, <1>5, <1>6, <1>7 DEF Owns
<1>9. Kind(v) = "apply" /\ Reached(v) => Reached(v)'
  <2>1. \A e : IsCurrent(e)' <=> IsCurrent(e)
    BY <1>1, SameCurrent
  <2>2. \A e, at : Agree(e, "result", at)' <=> Agree(e, "result", at)
    BY <1>1, SameTimeline DEF Agree
  <2> QED BY <1>1, <1>2, <1>4, <1>6, <1>7, <2>1, <2>2 DEF Reached, Object
<1>10. task'[v].pc # "idle" => ApplyKnown(v)'
  BY <1>2, <1>8, <1>9 DEF Known, ApplyKnown
<1> QED BY <1>3, <1>10 DEF Known

\* A step of a request outside the critical section.
LEMMA Bystands ==
  ASSUME IInv, NEW w \in Worker, lock # w, Others(w), task' \in [Worker -> TaskSet],
         Known(w)', lock' = lock, task'[w].pc \in Outside,
         answered' = answered, torn \subseteq torn',
         NEW A \in SUBSET AuditSet, db' = [db EXCEPT !.audits = A],
         \A a : a.kind = "applied" => (a \in A <=> a \in db.audits)
  PROVE  IInv'
<1>1. Stored
  BY DEF IInv, Stored, Shape
<1>2. Stored'
  BY <1>1, AuditsChanged
<1>3. ASSUME NEW v \in Worker \ {w} PROVE Known(v)'
  BY <1>1, <1>3, Unmoved DEF Others, IInv, Stored
<1> QED BY <1>2, <1>3, OutsiderSteps

\* And one that writes nothing.
LEMMA Waits ==
  ASSUME IInv, NEW w \in Worker, lock # w, Others(w), task' \in [Worker -> TaskSet],
         Known(w)', lock' = lock, task'[w].pc \in Outside,
         answered' = answered, torn \subseteq torn', db' = db
  PROVE  IInv'
<1>1. db \in DbSet
  BY DEF IInv, Shape
<1>2. PICK A \in SUBSET AuditSet : A = db.audits
  BY <1>1, DbFields
<1>3. db' = [db EXCEPT !.audits = A]
  BY <1>1, <1>2 DEF DbSet
<1> QED BY <1>2, <1>3, Bystands

LEMMA BeginKept ==
  ASSUME IInv, NEW w \in Worker, NEW job \in Job, Begin(w, job)
  PROVE  IInv'
<1>1. /\ task[w].pc = "idle" /\ Admitted(job)
      /\ db' = db /\ lock' = lock /\ answered' = answered /\ torn \subseteq torn'
  BY DEF Begin, At
<1>2. PICK route, at, seen :
        /\ task' = [task EXCEPT ![w] = [pc |-> "wait", job |-> job, route |-> route, at |-> at,
                                        seen |-> seen, made |-> {}]]
        /\ route \in {"commit", "recover", "repair", None}
        /\ at \in {None, db.manifests[job.draft]}
        /\ seen \in {None, db.case}
  BY DEF Begin
<1>3. db \in DbSet /\ task \in [Worker -> TaskSet] /\ lock # w
  BY <1>1 DEF IInv, Shape, LockHeld, Outside
<1>4. job.draft \in Draft /\ job.kind \in {"decide", "prepare", "apply", "continue"}
  BY DEF Job
<1>5. at \in Stamp \cup {None} /\ seen \in Cases \cup {None}
  BY <1>2, <1>3, <1>4, DbFields
<1>6. PICK t : t = [pc |-> "wait", job |-> job, route |-> route, at |-> at, seen |-> seen,
                    made |-> {}]
  OBVIOUS
<1>7. t \in TaskSet /\ t.pc = "wait" /\ t.job = job /\ t.made = {}
  BY <1>2, <1>5, <1>6 DEF TaskSet, Points, Makings
<1>8. task' \in [Worker -> TaskSet] /\ Others(w) /\ task'[w] = t
  BY <1>2, <1>3, <1>6, <1>7 DEF Others
<1>9. job.kind \in {"prepare", "continue"} => job.draft + 1 \in Draft
  BY <1>1 DEF Admitted
<1>10. Known(w)'
  <2>1. JobKnown(w)'
    BY <1>7, <1>8, <1>9 DEF JobKnown, Kind, D, ObjectKinds
  <2>2. PrepareKnown(w)' /\ DecideKnown(w)'
    BY <1>7, <1>8 DEF PrepareKnown, DecideKnown
  <2>3. ApplyKnown(w)'
    BY <1>7, <1>8 DEF ApplyKnown, Reached, Applying, ObjectKinds
  <2> QED BY <2>1, <2>2, <2>3 DEF Known
<1>11. task'[w].pc \in Outside
  BY <1>7, <1>8 DEF Outside
<1> QED BY <1>1, <1>3, <1>8, <1>10, <1>11, Waits

LEMMA EnterKept ==
  ASSUME IInv, NEW w \in Worker, Enter(w)
  PROVE  IInv'
<1>1. /\ task[w].pc = "wait" /\ lock = None /\ lock' = w /\ db' = db
      /\ answered' = answered /\ torn \subseteq torn'
  BY DEF Enter, At, Go
<1>2. task' = [task EXCEPT ![w].pc = Kind(w)]
  BY DEF Enter, Go, Kind
<1>3. /\ task \in [Worker -> TaskSet] /\ Stored /\ Known(w)
  BY DEF IInv, Shape, Stored, TaskSet
<1>4. /\ task[w].job \in Job /\ task[w].made = {}
      /\ Kind(w) \in {"prepare", "continue"} => D(w) + 1 \in Draft
  BY <1>1, <1>3 DEF Known, JobKnown
<1>5. Kind(w) \in {"decide", "prepare", "apply", "continue"}
  BY <1>4 DEF Kind, Job
<1>6. Kind(w) \in Points
  BY <1>5 DEF Points
<1>7. /\ task' \in [Worker -> TaskSet] /\ Others(w) /\ Same(w)
      /\ task'[w].pc = Kind(w) /\ task'[w].made = {}
  BY <1>2, <1>3, <1>4, <1>6, Goes
<1>8. D(w)' = D(w) /\ Kind(w)' = Kind(w)
  BY <1>7 DEF D, Kind, Same
<1>9. Known(w)'
  <2>1. JobKnown(w)'
    BY <1>4, <1>5, <1>7, <1>8 DEF JobKnown, Same, ObjectKinds
  <2>2. PrepareKnown(w)' /\ DecideKnown(w)'
    BY <1>5, <1>7, <1>8 DEF PrepareKnown, DecideKnown
  <2>3. ApplyKnown(w)'
    BY <1>5, <1>7, <1>8 DEF ApplyKnown, Reached, Applying, ObjectKinds
  <2> QED BY <2>1, <2>2, <2>3 DEF Known
<1>10. Stored'
  BY <1>1, <1>3, StoredKept
<1>11. \A v \in Worker \ {w} : task[v].pc \in Outside /\ task'[v] = task[v]
  BY <1>1, <1>7, NoneAssumption DEF IInv, LockHeld, Others
<1>12. \A v \in Worker : Known(v)'
  BY <1>9, <1>11, Ignorant DEF IInv
<1>13. LockHeld'
  BY <1>1, <1>5, <1>7, <1>11 DEF LockHeld, Outside
<1> QED BY <1>7, <1>10, <1>12, <1>13 DEF IInv, Shape, Stored

LEMMA TimeOutKept ==
  ASSUME IInv, NEW w \in Worker, TimeOut(w)
  PROVE  IInv'
<1>1. /\ task[w].pc = "wait" /\ task' = [task EXCEPT ![w] = Idle]
      /\ db' = db /\ lock' = lock /\ answered' = answered /\ torn \subseteq torn'
  BY DEF TimeOut, At
<1>2. task \in [Worker -> TaskSet] /\ lock # w
  BY <1>1 DEF IInv, Shape, LockHeld, Outside
<1>3. task' \in [Worker -> TaskSet] /\ Others(w) /\ task'[w].pc = "idle"
  BY <1>1, <1>2, Rests
<1>4. Known(w)' /\ task'[w].pc \in Outside
  BY <1>3, Nothing DEF Outside
<1> QED BY <1>1, <1>2, <1>3, <1>4, Waits

LEMMA RefuseKept ==
  ASSUME IInv, NEW w \in Worker, Refuse(w)
  PROVE  IInv'
<1>1. /\ task[w].pc = "refused" /\ task' = [task EXCEPT ![w] = Idle]
      /\ db' = db /\ lock' = None /\ answered' = answered /\ torn \subseteq torn'
  BY DEF Refuse, At
<1>2. task \in [Worker -> TaskSet] /\ lock = w /\ Stored
  <2>1. task[w].pc \notin Outside
    BY <1>1 DEF Outside
  <2> QED BY <2>1, Owner
<1>3. task' \in [Worker -> TaskSet] /\ Others(w) /\ task'[w].pc = "idle"
  BY <1>1, <1>2, Rests
<1>4. Known(w)' /\ task'[w].pc \in Outside
  BY <1>3, Nothing DEF Outside
<1>5. Stored'
  BY <1>1, <1>2, StoredKept
<1> QED BY <1>1, <1>2, <1>3, <1>4, <1>5, OwnerSteps

\* What is answered as applied is there.
LEMMA SucceedKept ==
  ASSUME IInv, NEW w \in Worker, Succeed(w)
  PROVE  IInv'
<1>1. /\ task[w].pc = "done" /\ lock' = None /\ db' = db
      /\ task' = [task EXCEPT ![w] = IF Kind(w) = "continue" THEN [task[w] EXCEPT !.pc = "log"]
                                     ELSE Idle]
      /\ answered' = IF Kind(w) = "apply" THEN answered \cup {D(w)} ELSE answered
      /\ torn' = torn
  BY DEF Succeed, At, Kind
<1>2. task[w].pc \notin Outside
  BY <1>1 DEF Outside
<1>3. /\ lock = w /\ Stored /\ Known(w) /\ task \in [Worker -> TaskSet] /\ D(w) \in Draft
      /\ task[w].job \in Job
      /\ Kind(w) \in {"prepare", "continue"} => D(w) + 1 \in Draft
  BY <1>2, Owner
<1>4. Stored'
  <2>1. CASE Kind(w) # "apply"
    BY <1>1, <1>3, <2>1, StoredKept
  <2>2. CASE Kind(w) = "apply"
    <3>1. Reached(w) /\ task[w].at \in Stamp
      BY <1>1, <1>3, <2>2 DEF Known, ApplyKnown
    <3>2. /\ HasResult(D(w)) /\ Backed(D(w), task[w].at) /\ db.manifests[D(w)] = task[w].at
          /\ task[w].at # None /\ db.case.results = D(w)
          /\ Agree(D(w), "result", task[w].at) /\ Audited(w) = {TheAudit(w)}
      BY <1>1, <3>1, NoneAssumption DEF Reached, Backed, Found
    <3>7. /\ \A a \in db.audits : a.kind = "applied" /\ a.draft = D(w) => a.at = task[w].at
          /\ HasAudit(D(w))
      <4>1. TheAudit(w) = [kind |-> "applied", draft |-> D(w), at |-> task[w].at]
        BY <2>2 DEF TheAudit, Decides, Kind
      <4>2. Audited(w) = {a \in db.audits : a.kind = "applied" /\ a.draft = D(w)}
        BY <4>1 DEF Audited
      <4> QED BY <3>2, <4>1, <4>2 DEF HasAudit
    <3>3. \A e, s : Backed(e, s)' <=> Backed(e, s)
      BY <1>1 DEF Backed
    <3>4. \A e, k : Positions(e, k)' = Positions(e, k)
      BY <1>1, SameTimeline
    <3>5. SuccessStands'
      <4>1. ASSUME NEW e \in answered'
            PROVE  /\ Positions(e, {"result"}) # {}
                   /\ \E a \in db.audits : a.kind = "applied" /\ a.draft = e
                   /\ Backed(e, db.manifests[e]) /\ db.manifests[e] # None
        <5>1. CASE e \in answered
          BY <1>3, <5>1 DEF Stored, DbInv, SuccessStands
        <5>2. CASE e = D(w)
          BY <3>2, <3>7, <5>2 DEF HasResult, HasAudit
        <5> QED BY <1>1, <4>1, <5>1, <5>2
      <4> QED BY <1>1, <3>3, <3>4, <4>1 DEF SuccessStands
    <3>6. ResultsBacked' /\ Decided'
      <4>1. Decided' /\ \A e \in Draft : db'.case.results = e => db'.case.spec = e
        BY <1>1, <1>3 DEF Stored, DbInv, ResultsBacked, Decided
      <4>2. ASSUME NEW e \in Draft, e \notin torn \ answered'
            PROVE  /\ db.case.results = e => \E at \in Stamp : Backed(e, at)
                   /\ \A i \in Positions(e, {"result"}) : Backed(e, db.events[i].at)
                   /\ \A a \in db.audits : a.kind = "applied" /\ a.draft = e => Backed(e, a.at)
        <5>1. CASE e = D(w)
          BY <3>1, <3>2, <3>7, <5>1 DEF Agree
        <5>2. CASE e # D(w)
          <6>1. e \notin torn \ answered
            BY <1>1, <2>2, <4>2, <5>2
          <6> QED BY <1>3, <6>1 DEF Stored, DbInv, ResultsBacked
        <5> QED BY <5>1, <5>2
      <4>3. \A e \in Draft : e \notin torn' \ answered' =>
              /\ db'.case.results = e => \E at \in Stamp : Backed(e, at)'
              /\ \A i \in Positions(e, {"result"})' : Backed(e, db.events[i].at)'
              /\ \A a \in db'.audits : a.kind = "applied" /\ a.draft = e => Backed(e, a.at)'
        BY <1>1, <3>3, <3>4, <4>2
      <4> QED BY <4>1, <4>3 DEF ResultsBacked
    <3> QED BY <1>1, <1>3, <3>5, <3>6 DEF Stored, DbInv
  <2> QED BY <2>1, <2>2
<1>5. CASE Kind(w) # "continue"
  <2>1. task' = [task EXCEPT ![w] = Idle]
    BY <1>1, <1>5
  <2>2. task' \in [Worker -> TaskSet] /\ Others(w) /\ task'[w].pc = "idle"
    BY <1>3, <2>1, Rests
  <2>3. Known(w)' /\ task'[w].pc \in Outside
    BY <2>2, Nothing DEF Outside
  <2> QED BY <1>1, <1>3, <1>4, <2>2, <2>3, OwnerSteps
<1>6. CASE Kind(w) = "continue"
  <2>1. task' = [task EXCEPT ![w].pc = "log"] /\ "log" \in Points
    BY <1>1, <1>3, <1>6 DEF Points
  <2>2. /\ task' \in [Worker -> TaskSet] /\ Others(w) /\ Same(w)
        /\ task'[w].pc = "log" /\ task'[w].made = task[w].made
    BY <1>3, <2>1, Goes
  <2>3. D(w)' = D(w) /\ Kind(w)' = Kind(w)
    BY <2>2 DEF D, Kind, Same
  <2>4. JobKnown(w)'
    BY <1>1, <1>3, <1>6, <2>2, <2>3 DEF Known, JobKnown, Same, ObjectKinds
  <2>5. PrepareKnown(w)' /\ DecideKnown(w)' /\ ApplyKnown(w)'
    BY <1>6, <2>2, <2>3 DEF PrepareKnown, DecideKnown, ApplyKnown
  <2>6. Known(w)' /\ task'[w].pc \in Outside
    BY <2>2, <2>4, <2>5 DEF Known, Outside
  <2> QED BY <1>1, <1>3, <1>4, <2>2, <2>6, OwnerSteps
<1> QED BY <1>5, <1>6

LEMMA LogContinuationKept ==
  ASSUME IInv, NEW w \in Worker, LogContinuation(w)
  PROVE  IInv'
<1>1. PICK audit : audit = [kind |-> "continued", draft |-> D(w) + 1, at |-> None]
  OBVIOUS
<1>2. /\ task[w].pc = "log" /\ task' = [task EXCEPT ![w] = Idle]
      /\ db' = [db EXCEPT !.audits = @ \cup {audit}] /\ lock' = lock
      /\ answered' = answered /\ torn \subseteq torn'
  BY <1>1 DEF LogContinuation, At
<1>3. /\ task \in [Worker -> TaskSet] /\ lock # w /\ Known(w) /\ db \in DbSet
  BY <1>2 DEF IInv, Shape, LockHeld, Outside
<1>4. D(w) + 1 \in Draft
  BY <1>2, <1>3 DEF Known, JobKnown
<1>5. audit \in AuditSet /\ audit.kind # "applied"
  BY <1>1, <1>4 DEF AuditSet
<1>6. task' \in [Worker -> TaskSet] /\ Others(w) /\ task'[w].pc = "idle"
  BY <1>2, <1>3, Rests
<1>7. Known(w)' /\ task'[w].pc \in Outside
  BY <1>6, Nothing DEF Outside
<1>8. PICK A : A = db.audits \cup {audit}
  OBVIOUS
<1>9. A \in SUBSET AuditSet /\ \A a : a.kind = "applied" => (a \in A <=> a \in db.audits)
  BY <1>3, <1>5, <1>8, DbFields
<1>10. db' = [db EXCEPT !.audits = A]
  BY <1>2, <1>8
<1> QED BY <1>2, <1>3, <1>6, <1>7, <1>9, <1>10, Bystands

\* A crash leaves what was written; the lock passes on.
LEMMA CrashKept ==
  ASSUME IInv, NEW w \in Worker, Crash(w)
  PROVE  IInv'
<1>1. /\ task' = [task EXCEPT ![w] = Idle] /\ db' = db
      /\ answered' = answered /\ torn \subseteq torn'
      /\ lock' = IF lock = w THEN None ELSE lock
  BY DEF Crash
<1>2. task \in [Worker -> TaskSet] /\ Stored
  BY DEF IInv, Shape, Stored
<1>3. task' \in [Worker -> TaskSet] /\ Others(w) /\ task'[w].pc = "idle"
  BY <1>1, <1>2, Rests
<1>4. Known(w)' /\ task'[w].pc \in Outside
  BY <1>3, Nothing DEF Outside
<1>5. Stored'
  BY <1>1, <1>2, StoredKept
<1>6. CASE lock = w
  BY <1>1, <1>3, <1>4, <1>5, <1>6, OwnerSteps
<1>7. CASE lock # w
  BY <1>1, <1>3, <1>4, <1>7, Waits
<1> QED BY <1>6, <1>7

-------------------------------------------------------------------------------
(* Every step *)

LEMMA InitInv == Init => IInv
<1> SUFFICES ASSUME Init PROVE IInv
  OBVIOUS
<1>1. /\ \A w \in Worker : task[w] = Idle
      /\ task \in [Worker -> TaskSet] /\ answered = {} /\ lock = None
  BY IdleTask DEF Init
<1>2. 1 \in Draft
  BY DraftsAssumption DEF Draft
<1>3. PICK ev : ev = [kind |-> "draft", draft |-> 1, at |-> None]
  OBVIOUS
<1>4. ev \in EventSet /\ ev.kind = "draft"
  BY <1>2, <1>3 DEF EventSet
<1>5. /\ db.drafts \in [Draft -> DraftStatus] /\ db.prepared = {}
      /\ \A d \in Draft : db.drafts[d] \notin Verdict
      /\ db.events = << ev >>
      /\ db.aggregates = [d \in Draft |-> None]
      /\ db.approvals = {} /\ db.specs = {} /\ db.objects = {}
      /\ db.manifests = [d \in Draft |-> None] /\ db.audits = {}
      /\ db.case = [spec |-> None, results |-> None, version |-> 1]
  BY <1>3 DEF Init, DraftStatus, Verdict
<1>6. db.events \in Events /\ \A d : ~HasResult(d)
  <2>1. << ev >> \in Seq(EventSet) /\ DOMAIN << ev >> = 1 .. 1 /\ << ev >>[1] = ev
    BY <1>4
  <2>2. \A i \in 1 .. 1 : i = 1
    OBVIOUS
  <2> QED BY <1>4, <1>5, <2>1, <2>2 DEF Events, HasResult, Positions
<1>7. db \in DbSet
  <2>1. db.case \in Cases
    BY <1>5 DEF Cases
  <2>2. db = [drafts |-> db.drafts, prepared |-> db.prepared, events |-> db.events,
              aggregates |-> db.aggregates, approvals |-> db.approvals, specs |-> db.specs,
              objects |-> db.objects, manifests |-> db.manifests, audits |-> db.audits,
              case |-> db.case]
    BY DEF Init
  <2> QED BY <1>5, <1>6, <2>1, <2>2 DEF DbSet
<1>8. Decided
  BY <1>5, NoneAssumption DEF Decided
<1>9. ResultsBacked /\ SuccessStands
  BY <1>1, <1>5, <1>6, NoneAssumption DEF ResultsBacked, SuccessStands, HasResult
<1>10. \A w \in Worker : Known(w)
  BY <1>1 DEF Known, JobKnown, PrepareKnown, DecideKnown, Idle, ObjectKinds
<1>11. LockHeld
  BY <1>1, NoneAssumption DEF LockHeld, Idle, Outside
<1> QED BY <1>1, <1>7, <1>8, <1>9, <1>10, <1>11 DEF IInv, Shape, DbInv

LEMMA StepInv ==
  ASSUME IInv, [Next]_vars
  PROVE  IInv'
<1>1. ASSUME NEW w \in Worker, NEW job \in Job, Begin(w, job) PROVE IInv'
  BY <1>1, BeginKept
<1>2. ASSUME NEW w \in Worker, Serve(w) PROVE IInv'
  <2>1. CASE Enter(w) \/ Refuse(w) \/ Succeed(w) \/ LogContinuation(w)
    BY <2>1, EnterKept, RefuseKept, SucceedKept, LogContinuationKept
  <2>2. CASE PrepareCheck(w) \/ InsertDraft(w) \/ Supersede(w) \/ DraftEvent(w) \/ Reopen(w)
    BY <2>2, PrepareCheckKept, InsertDraftKept, SupersedeKept, DraftEventKept, ReopenKept
  <2>3. CASE ContinueCheck(w)
    BY <2>3, ContinueCheckKept
  <2>4. CASE DecideCheck(w) \/ DecisionAudit(w) \/ Aggregate(w) \/ ApprovalRow(w) \/ SpecRow(w)
    BY <2>4, DecideCheckKept, DecisionAuditKept, AggregateKept, ApprovalRowKept, SpecRowKept
  <2>5. CASE DecidedDraft(w) \/ ReviewEvent(w) \/ LinkSpec(w) \/ ApprovalEvent(w)
    BY <2>5, DecidedDraftKept, ReviewEventKept, LinkSpecKept, ApprovalEventKept
  <2>6. CASE ApplyCheck(w) \/ Manifest(w) \/ LinkResults(w) \/ ResultEvent(w) \/ ApplyAudit(w)
    BY <2>6, ApplyCheckKept, ManifestKept, LinkResultsKept, ResultEventKept, ApplyAuditKept
  <2>7. CASE \/ InsertObject(w, "plan", "list") \/ InsertObject(w, "list", "recipe")
             \/ InsertObject(w, "recipe", "manifest")
    BY <2>7, InsertObjectKept DEF ObjectKinds
  <2>8. CASE Undo(w) \/ Undone(w)
    BY <2>8, UndoKept, UndoneKept
  <2> QED BY <1>2, <2>1, <2>2, <2>3, <2>4, <2>5, <2>6, <2>7, <2>8 DEF Serve
<1>3. ASSUME NEW w \in Worker, TimeOut(w) PROVE IInv'
  BY <1>3, TimeOutKept
<1>4. ASSUME NEW w \in Worker, Crash(w) PROVE IInv'
  BY <1>4, CrashKept
<1>5. CASE UNCHANGED vars
  <2>1. /\ db' = db /\ lock' = lock /\ task' = task
        /\ answered' = answered /\ torn \subseteq torn'
    BY <1>5 DEF vars
  <2>2. db \in DbSet /\ Stored
    BY DEF IInv, Shape, Stored
  <2>3. Stored'
    BY <2>1, <2>2, StoredKept
  <2>4. db' = [db EXCEPT !.audits = db.audits]
    BY <2>1, <2>2 DEF DbSet
  <2>5. \A v \in Worker : Known(v)'
    BY <2>1, <2>2, <2>4, Unmoved DEF IInv
  <2>6. LockHeld'
    BY <2>1 DEF IInv, LockHeld
  <2> QED BY <2>1, <2>3, <2>5, <2>6 DEF IInv, Shape, Stored
<1> QED BY <1>1, <1>2, <1>3, <1>4, <1>5 DEF Next

\* Only LinkResults completes a case, and the draft is current.
LEMMA NoRevivalStep ==
  ASSUME IInv, Next, NEW d \in Draft,
         db'.case.results = d, db.case.results # d
  PROVE  IsCurrent(d)
<1>1. db \in DbSet /\ d # None
  BY NoneAssumption DEF IInv, Shape
<1>2. \A w, r, m, next : Attempt(w, r, m, next) => db' \in {db, r}
  BY DEF Attempt
<1>3. \A w, point, h, r, next : Ensure(w, point, h, r, next) => db' \in {db, r}
  BY <1>2 DEF Ensure, Go
<1>4. \A k, e, at : WithEvent(k, e, at).case = db.case
  BY <1>1 DEF WithEvent, DbSet
<1>5. \A w : WithAudit(w).case = db.case
  BY <1>1 DEF WithAudit, DbSet
<1>6. \A s, r : WithCase(s, r).case.results = r
  BY <1>1 DEF WithCase, DbSet
<1>7. ASSUME NEW w \in Worker, Serve(w)
      PROVE  IsCurrent(d)
  <2>1. CASE \/ Enter(w) \/ Refuse(w) \/ Succeed(w) \/ LogContinuation(w)
             \/ PrepareCheck(w) \/ ContinueCheck(w) \/ DecideCheck(w) \/ ApplyCheck(w) \/ Undone(w)
    BY <1>1, <2>1
       DEF Enter, Refuse, Succeed, LogContinuation, PrepareCheck, ContinueCheck, DecideCheck,
           ApplyCheck, Undone, Go, DbSet
  <2>2. CASE InsertDraft(w)
    <3>1. \/ db' = db
          \/ db' = [db EXCEPT !.drafts[D(w) + 1] = "pending", !.prepared = @ \cup {D(w) + 1}]
          \/ db' = [db EXCEPT !.drafts[D(w) + 1] = "pending"]
      BY <1>2, <2>2 DEF InsertDraft
    <3>2. db'.case = db.case
      BY <1>1, <3>1 DEF DbSet
    <3> QED BY <3>2
  <2>3. CASE Supersede(w)
    BY <1>1, <1>2, <2>3 DEF Supersede, DbSet
  <2>4. CASE DraftEvent(w) \/ ReviewEvent(w) \/ ApprovalEvent(w)
    BY <1>1, <1>3, <1>4, <2>4 DEF DraftEvent, ReviewEvent, ApprovalEvent
  <2>5. CASE Reopen(w) \/ LinkSpec(w)
    BY <1>1, <1>3, <1>6, <2>5 DEF Reopen, LinkSpec
  <2>6. CASE DecisionAudit(w)
    BY <1>1, <1>5, <2>6 DEF DecisionAudit, Go
  <2>7. CASE Aggregate(w)
    BY <1>1, <1>3, <2>7 DEF Aggregate, DbSet
  <2>8. CASE ApprovalRow(w) \/ SpecRow(w)
    BY <1>1, <1>3, <2>8 DEF ApprovalRow, SpecRow, DbSet
  <2>9. CASE DecidedDraft(w)
    <3>1. db' = db \/ db' = [db EXCEPT !.drafts[D(w)] = task[w].job.verdict]
      BY <1>3, <2>9 DEF DecidedDraft
    <3>2. db'.case = db.case
      BY <1>1, <3>1 DEF DbSet
    <3> QED BY <3>2
  <2>10. CASE Manifest(w)
    BY <1>1, <1>2, <2>10 DEF Manifest, DbSet
  <2>11. CASE LinkResults(w)
    <3>1. task[w].pc = "results" /\ d = D(w)
      BY <1>1, <1>2, <1>6, <2>11 DEF LinkResults, At, Go
    <3>2. Reached(w)
      BY <3>1, Knows DEF Applying
    <3> QED BY <3>1, <3>2 DEF Reached
  <2>12. CASE ResultEvent(w)
    <3>1. \/ Attempt(w, WithEvent("result", D(w), task[w].at), {"event"}, "applyAudit")
          \/ db' = db
      BY <2>12 DEF ResultEvent, Go
    <3> QED BY <1>2, <1>4, <3>1
  <2>13. CASE ApplyAudit(w)
    BY <1>1, <1>2, <1>5, <2>13 DEF ApplyAudit, Go
  <2>14. CASE \/ InsertObject(w, "plan", "list") \/ InsertObject(w, "list", "recipe")
              \/ InsertObject(w, "recipe", "manifest")
    BY <1>1, <1>2, <2>14 DEF InsertObject, Go, DbSet
  <2>15. CASE Undo(w)
    <3>1. PICK thing \in task[w].made : task[w].pc = "undo" /\ db' \in {db, Without(w, thing)}
      BY <2>15 DEF Undo, At
    <3>2. /\ Known(w) /\ task[w].made \subseteq Things
          /\ Kind(w) \in {"decide", "prepare", "apply", "continue"}
      BY <3>1, Owner DEF Outside
    <3>3. CASE thing = "case"
      <4>1. Kind(w) = "apply"
        BY <3>1, <3>2, <3>3 DEF Known, JobKnown
      <4>2. task[w].seen.results = None
        BY <3>1, <3>2, <3>3, <4>1 DEF Known, ApplyKnown, Owns, Applying
      <4> QED BY <1>1, <3>1, <3>3, <4>2 DEF Without, ObjectKinds, DbSet
    <3>4. CASE thing # "case"
      <4>1. Without(w, thing).case = db.case
        <5>1. CASE thing = "audit"
          BY <1>1, <5>1 DEF Without, ObjectKinds, DbSet
        <5>2. CASE thing = "event"
          BY <1>1, <5>2 DEF Without, ObjectKinds, DbSet
        <5>3. CASE thing \in ObjectKinds
          BY <1>1, <5>3 DEF Without, ObjectKinds, DbSet
        <5>4. CASE thing = "manifest"
          BY <1>1, <5>4 DEF Without, ObjectKinds, DbSet
        <5> QED BY <3>2, <3>4, <5>1, <5>2, <5>3, <5>4 DEF Things, ObjectKinds
      <4> QED BY <3>1, <4>1
    <3> QED BY <3>3, <3>4
  <2> QED BY <1>7, <2>1, <2>2, <2>3, <2>4, <2>5, <2>6, <2>7, <2>8, <2>9, <2>10, <2>11, <2>12,
             <2>13, <2>14, <2>15 DEF Serve
<1>8. ASSUME NEW w \in Worker, (\E job \in Job : Begin(w, job)) \/ TimeOut(w) \/ Crash(w)
      PROVE  IsCurrent(d)
  BY <1>8 DEF Begin, TimeOut, Crash
<1> QED BY <1>7, <1>8 DEF Next

\* Every state that can be reached keeps the inductive invariant.
THEOREM Invariant == Spec => []IInv
<1>1. IInv /\ [Next]_vars => IInv'
  BY StepInv
<1> QED BY InitInv, <1>1, PTL DEF Spec

\* Whatever presents a draft as applied finds what it applied, however an
\* application, its rollback or a crash in either is cut short (approval-routes.ts,
\* /v1/production/specs/:specId/apply and rollbackApplyState).  A draft whose link or
\* event was stored by a call that failed as its read-back did (torn) is excepted until
\* its application is answered with success, but not from being the linked one.
THEOREM Backing == Spec => []ResultsBacked
<1>1. IInv => ResultsBacked
  BY DEF IInv, DbInv
<1> QED BY <1>1, Invariant, PTL

\* What was answered as applied keeps its event, audit, plan, list, recipe and claim.
THEOREM Standing == Spec => []SuccessStands
<1>1. IInv => SuccessStands
  BY DEF IInv, DbInv
<1> QED BY <1>1, Invariant, PTL

\* A decided draft is not superseded, and a case is linked to approved ones only.
THEOREM Deciders == Spec => []DecidedStays
<1>1. IInv => DecidedStays
  BY DEF IInv, DbInv, Decided, DecidedStays
<1> QED BY <1>1, Invariant, PTL

\* Results that a continuation took from the case do not come back.
THEOREM Revival == Spec => NoRevival
<1>1. IInv /\ [Next]_vars =>
        [ \A d \in Draft : db'.case.results = d /\ db.case.results # d => IsCurrent(d) ]_db
  BY NoRevivalStep DEF vars
<1> QED BY <1>1, Invariant, PTL DEF Spec, NoRevival

===============================================================================
