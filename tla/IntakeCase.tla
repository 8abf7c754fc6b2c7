------------------------------ MODULE IntakeCase ------------------------------
(***************************************************************************)
(* The intake service over its file storage: original documents, requests, *)
(* the event specs made from them, and the soft archive of a request with  *)
(* its specs; with the decision on a clarification draft, by which the     *)
(* production service replaces a spec.                                     *)
(*                                                                         *)
(* A call is one HTTP request and is numbered in the order of arrival; a   *)
(* retry is another call.  One step of a call is one operation of a        *)
(* collection (atomic, see FileRecord), one locked section entered (see    *)
(* OrderedLocks) or one audit event.  A call may fail or its worker die    *)
(* before every step; an operation that takes effect and reports a failure *)
(* differs from a failure of the next step in the archive only.            *)
(***************************************************************************)
EXTENDS Naturals, SequencesExt

CONSTANTS
  Request, EventSpec,  \* the identities in use
  OwnSpec,        \* OwnSpec[r]: the spec that is named after request r
  Lineage,        \* Lineage[s]: the requests among the sources of spec s
  Text,           \* what a caller may write into a request
  Asked,          \* the spec of the clarification draft
  Named,          \* Named[route]: the requests or specs that its calls name
  Stored,         \* sets of requests and specs that earlier calls have stored
  Absent,         \* the value of a record that does not exist
  MaxCalls, MaxFaults

Target == Request \cup EventSpec

Calls == 1..MaxCalls

\* EventRequest, and AcceptedEventSpec with the changes made to it; mark is operationalArchive.
RequestBody == [by : {"upload", "form", "text"}, text : Text, stamp : Nat]
SpecBody == [of : RequestBody, notes : SUBSET Nat]
RequestRecord == [body : RequestBody, mark : Nat]
SpecRecord == [body : SpecBody, mark : Nat]

ASSUME IntakeAssumption ==
  /\ Absent \notin RequestRecord \cup SpecRecord
  /\ Request \cap EventSpec = {} /\ IsFiniteSet(EventSpec)
  /\ OwnSpec \in [Request -> EventSpec]
  /\ Lineage \in [EventSpec -> SUBSET Request]
  /\ Asked \in EventSpec
  /\ \A op \in {"upload", "form", "text", "archive"} : Named[op] \subseteq Request
  /\ \A op \in {"put", "patch"} : Named[op] \subseteq EventSpec
  /\ Stored \subseteq SUBSET Target
  /\ MaxCalls \in Nat /\ MaxFaults \in Nat

VARIABLES
  store,      \* the collections intake/requests and intake/specs
  registered, \* the documents whose storage the audit log announces
  published,  \* the documents whose directory has its final name
  reached,    \* the changes that have been stored in some spec, ever
  draft,      \* the clarification draft
  call,       \* the local state of each call
  torn,       \* archives whose mark is stored where they do not undo it
  shelved,    \* what a finished archive has answered, of what it had locked
  bare,       \* the specs that an archive has marked without their lock
  faults

vars == <<store, registered, published, reached, draft, call, torn, shelved, bare, faults>>
others == <<registered, published, reached, draft, torn, shelved, bare>>

-------------------------------------------------------------------------------
(* Records *)

\* A request: the route it came by, its text, and the call that stamped it (0 where the
\* client supplies the time stamp).  A document has the number of the call that stored it.
Body(by, text, stamp) == [by |-> by, text |-> text, stamp |-> stamp]

\* A spec: the request it was made from, and the changes made to it since.
Made(body) == [of |-> body, notes |-> {}]

\* operationalArchive, by the call that wrote it; 0 while it is undefined.
Active(body) == [body |-> body, mark |-> 0]
Marked(record, k) == [record EXCEPT !.mark = IF @ = 0 THEN k ELSE @]

IsArchived(record) == record # Absent /\ record.mark # 0

\* relatedSpecIds
Related(r) == IF store[r] = Absent THEN {}
              ELSE {s \in EventSpec : store[s] # Absent /\ r \in Lineage[s]}

-------------------------------------------------------------------------------
(* Calls *)

Idle == [op |-> "none", r |-> 0, s |-> 0, text |-> 0, at |-> "idle", target |-> 0,
         value |-> Absent, seen |-> Absent, locks |-> {}, ids |-> {}, todo |-> <<>>,
         changed |-> <<>>, attempt |-> 0]

At(k, point) == call[k].at = point

Goto(k, point) == call' = [call EXCEPT ![k].at = point]

Ended == {"idle", "done", "refused", "failed"}

\* The end of a call releases what it holds.  Of an archive, and of an operator's change,
\* we remember what it was.
End(k, result) ==
  LET told == CASE call[k].op = "archive" -> [Idle EXCEPT !.op = "archive", !.r = call[k].r]
                [] call[k].op = "patch" -> [Idle EXCEPT !.op = "patch"]
                [] OTHER -> Idle
  IN call' = [call EXCEPT ![k] = [told EXCEPT !.at = result]]

Free(k, T) == \A j \in Calls \ {k} : call[j].locks \cap T = {}

Init ==
  /\ \E S \in Stored, c \in Text :
       LET first == Body("form", c, 0)
       IN store = [t \in Target |-> IF t \notin S THEN Absent
                                    ELSE Active(IF t \in Request THEN first ELSE Made(first))]
  /\ registered = {} /\ published = {} /\ reached = {} /\ torn = {} /\ shelved = {} /\ bare = {}
  /\ draft = "pending_review"
  /\ call = [k \in Calls |-> Idle]
  /\ faults = 0

\* The next call arrives: its question and its first step.
Begin(k, question) ==
  /\ At(k, "idle")
  /\ \A j \in 1..(k - 1) : ~At(j, "idle")
  /\ call' = [call EXCEPT ![k] = question]
  /\ UNCHANGED <<store, others, faults>>

BeginUpload(k) ==
  \E r \in Named["upload"], c \in Text :
    Begin(k, [Idle EXCEPT !.op = "upload", !.at = "register", !.r = r, !.s = OwnSpec[r], !.text = c,
                          !.target = r, !.value = Active(Body("upload", c, k))])

BeginForm(k) ==
  \E r \in Named["form"], c \in Text :
    Begin(k, [Idle EXCEPT !.op = "form", !.at = "load", !.r = r, !.s = OwnSpec[r], !.text = c,
                          !.target = r, !.value = Active(Body("form", c, 0))])

BeginText(k) ==
  \E r \in Named["text"], c \in Text :
    Begin(k, [Idle EXCEPT !.op = "text", !.at = "insert_request", !.r = r, !.s = OwnSpec[r], !.text = c,
                          !.value = Active(Body("text", c, k))])

BeginPut(k) ==
  \E s \in Named["put"], c \in Text :
    Begin(k, [Idle EXCEPT !.op = "put", !.at = "get", !.s = s, !.text = c, !.target = s,
                          !.value = Active(Made(Body("form", c, 0)))])

BeginPatch(k) ==
  \E s \in Named["patch"] : Begin(k, [Idle EXCEPT !.op = "patch", !.at = "get", !.s = s, !.target = s])

BeginArchive(k) ==
  \E r \in Named["archive"] : Begin(k, [Idle EXCEPT !.op = "archive", !.at = "related", !.r = r])

\* The draft is read, and must be pending.
BeginDecision(k) ==
  /\ draft = "pending_review"
  /\ \/ Begin(k, [Idle EXCEPT !.op = "approve", !.at = "get", !.s = Asked, !.target = Asked])
     \/ Begin(k, [Idle EXCEPT !.op = "reject", !.at = "decide", !.s = Asked])

-------------------------------------------------------------------------------
(* Original documents *)

\* insertRegisteredSourceDocument: the write-ahead audit event, then the directory, complete
\* under a temporary name, gets the final one.  The name is new with every call.
Register(k) ==
  /\ At(k, "register")
  /\ registered' = registered \cup {k}
  /\ Goto(k, "publish")
  /\ UNCHANGED <<store, published, reached, draft, torn, shelved, bare, faults>>

\* Variation: the request is saved without waiting for its document.
PublishLater(k) ==
  /\ At(k, "publish")
  /\ Goto(k, "load")
  /\ UNCHANGED <<store, others, faults>>

Publish(k) ==
  /\ At(k, "publish")
  /\ published' = published \cup {k}
  /\ Goto(k, "load")
  /\ UNCHANGED <<store, registered, reached, draft, torn, shelved, bare, faults>>

-------------------------------------------------------------------------------
(* saveRecord, for a request without a lock and for a spec under its lock *)

\* After a request comes its spec; after a spec its lock is released.
Saved(k) ==
  IF call[k].target \in Request
  THEN call' = [call EXCEPT ![k].at = "lock", ![k].target = OwnSpec[call[k].r], ![k].attempt = 0,
                            ![k].value = Active(Made(call[k].value.body)), ![k].seen = Absent]
  ELSE call' = [call EXCEPT ![k].at = IF call[k].op = "approve" THEN "decide" ELSE "audit",
                            ![k].locks = {}, ![k].seen = Absent, ![k].attempt = 0]

\* A write.  It may bring back the mark of an archive that was undone since the spec was read.
Write(t, record) ==
  /\ store' = [store EXCEPT ![t] = record]
  /\ reached' = IF t \in EventSpec THEN reached \cup record.body.notes ELSE reached
  /\ torn' = IF IsArchived(record) THEN torn \cup {record.mark} ELSE torn

Keep == UNCHANGED <<store, reached, torn>>

LoadOf(k, existing, value) ==
  IF existing = Absent
  THEN IF call[k].attempt = 0 THEN Goto(k, "insert") ELSE End(k, "refused")
  ELSE IF existing = value THEN Saved(k)
  ELSE IF IsArchived(existing) THEN End(k, "refused")
  ELSE call' = [call EXCEPT ![k].seen = existing, ![k].at = "swap"]

\* Variation: an archive is not looked for.
LoadAny(k) ==
  /\ At(k, "load")
  /\ LET existing == store[call[k].target]
     IN IF IsArchived(existing)
        THEN call' = [call EXCEPT ![k].seen = existing, ![k].at = "swap"]
        ELSE LoadOf(k, existing, call[k].value)
  /\ UNCHANGED <<store, others, faults>>

Load(k) ==
  /\ At(k, "load")
  /\ LoadOf(k, store[call[k].target], call[k].value)
  /\ UNCHANGED <<store, others, faults>>

Insert(k) ==
  /\ At(k, "insert")
  /\ IF store[call[k].target] = Absent
     THEN Write(call[k].target, call[k].value) /\ Saved(k)
     ELSE Keep /\ call' = [call EXCEPT ![k].at = "load", ![k].attempt = 1]
  /\ UNCHANGED <<registered, published, draft, shelved, bare, faults>>

\* compareAndSetExact.  Variation: its answer is not looked at.
SwapUnchecked(k) ==
  /\ At(k, "swap")
  /\ IF store[call[k].target] = call[k].seen
     THEN Write(call[k].target, call[k].value) ELSE Keep
  /\ Saved(k)
  /\ UNCHANGED <<registered, published, draft, shelved, bare, faults>>

Swap(k) ==
  /\ At(k, "swap")
  /\ IF store[call[k].target] = call[k].seen
     THEN Write(call[k].target, call[k].value) /\ Saved(k)
     ELSE Keep /\ End(k, "refused")
  /\ UNCHANGED <<registered, published, draft, shelved, bare, faults>>

-------------------------------------------------------------------------------
(* Changes of a spec *)

\* A change is made to what is read here, before the lock.  The answer of an operator spreads
\* the spec it has read, its archive state included.
Get(k) ==
  /\ At(k, "get")
  /\ LET existing == store[call[k].s]
         note == IF call[k].op = "approve" THEN 0 ELSE k
     IN IF call[k].op = "put"
        THEN IF existing = Absent THEN Goto(k, "lock")
             ELSE End(k, IF existing = call[k].value THEN "done" ELSE "refused")
        ELSE IF existing = Absent THEN End(k, "refused")
        ELSE call' = [call EXCEPT ![k].seen = existing, ![k].at = "lock",
                        ![k].value = [existing EXCEPT !.body.notes = @ \cup {note}]]
  /\ UNCHANGED <<store, others, faults>>

\* withSpecCriticalSection
Lock(k) ==
  /\ At(k, "lock")
  /\ Free(k, {call[k].target})
  /\ call' = [call EXCEPT ![k].locks = {call[k].target},
                          ![k].at = CASE call[k].op \in {"text", "put"} -> "insert_spec"
                                      [] call[k].op = "approve" -> "replace"
                                      [] OTHER -> "load"]
  /\ UNCHANGED <<store, others, faults>>

\* replaceSpec: same content, archived or compare and set with what the caller has seen.
Replace(k) ==
  /\ At(k, "replace")
  /\ LET existing == store[call[k].s]
     IN IF existing = call[k].value THEN Saved(k)
        ELSE IF existing = Absent \/ IsArchived(existing) THEN End(k, "refused")
        ELSE Goto(k, "swap")
  /\ UNCHANGED <<store, others, faults>>

\* insertSpec; an existing spec is looked at afterwards, without the lock.
InsertSpec(k) ==
  /\ At(k, "insert_spec")
  /\ IF store[call[k].s] = Absent THEN Write(call[k].s, call[k].value) ELSE Keep
  /\ IF store[call[k].s] = Absent /\ call[k].op = "put" THEN End(k, "done")
     ELSE call' = [call EXCEPT ![k].locks = {}, ![k].at = "observe"]
  /\ UNCHANGED <<registered, published, draft, shelved, bare, faults>>

Observe(k) ==
  /\ At(k, "observe")
  /\ IF store[call[k].s] # call[k].value THEN End(k, "refused")
     ELSE IF call[k].op = "put" THEN End(k, "done") ELSE Goto(k, "audit")
  /\ UNCHANGED <<store, others, faults>>

-------------------------------------------------------------------------------
(* The text source of an offer *)

InsertRequest(k) ==
  /\ At(k, "insert_request")
  /\ IF store[call[k].r] = Absent THEN Write(call[k].r, call[k].value) ELSE Keep
  /\ Goto(k, "check_request")
  /\ UNCHANGED <<registered, published, draft, shelved, bare, faults>>

\* Variation: the time stamps are compared too.
SameSourceStamped(existing, k) == existing = Active(Body("text", call[k].text, k))

\* The stored request must be the proposed one, but for its time stamp.
SameSource(existing, k) ==
  existing = Active([Body("text", call[k].text, k) EXCEPT !.stamp = existing.body.stamp])

CheckRequest(k) ==
  /\ At(k, "check_request")
  /\ LET existing == store[call[k].r]
     IN IF SameSource(existing, k)
        THEN call' = [call EXCEPT ![k].at = "lock", ![k].target = call[k].s,
                                  ![k].value = Active(Made(existing.body))]
        ELSE End(k, "refused")
  /\ UNCHANGED <<store, others, faults>>

-------------------------------------------------------------------------------
(* The soft archive of a request and its specs *)

\* The specs are looked up before the lock, whose targets they are.
Relate(k) ==
  /\ At(k, "related")
  /\ call' = [call EXCEPT ![k].ids = Related(call[k].r), ![k].at = "lock_all"]
  /\ UNCHANGED <<store, others, faults>>

LockAll(k) ==
  /\ At(k, "lock_all")
  /\ Free(k, {call[k].r} \cup call[k].ids)
  /\ call' = [call EXCEPT ![k].locks = {call[k].r} \cup call[k].ids, ![k].at = "check"]
  /\ UNCHANGED <<store, others, faults>>

\* Another set of specs under the lock: it is left, three times at most.
Check(k) ==
  /\ At(k, "check")
  /\ IF Related(call[k].r) = call[k].ids THEN Goto(k, "read")
     ELSE IF call[k].attempt = 2 THEN End(k, "failed")
     ELSE call' = [call EXCEPT ![k].locks = {}, ![k].attempt = @ + 1, ![k].at = "related"]
  /\ UNCHANGED <<store, others, faults>>

\* Those of T that are not archived yet, in the order in which a collection lists them.
Open(T) == SetToSeqs({t \in T : ~IsArchived(store[t])})

\* A change to come, with the record as it was read.
Changes(ts) == [i \in DOMAIN ts |-> [target |-> ts[i], before |-> store[ts[i]]]]

\* Variation: the request is archived last.
PlansRequestLast(r) == {Changes(ss \o rs) : rs \in Open({r}), ss \in Open(Related(r))}

Plans(r) == {Changes(rs \o ss) : rs \in Open({r}), ss \in Open(Related(r))}

\* The specs are listed once more; one that has come in between is archived without its lock.
Read(k) ==
  /\ At(k, "read")
  /\ IF store[call[k].r] = Absent THEN End(k, "refused")
     ELSE \E plan \in Plans(call[k].r) :
            call' = [call EXCEPT ![k].todo = plan,
                                 ![k].at = IF plan = <<>> THEN "audit" ELSE "apply",
                                 ![k].locks = IF plan = <<>> THEN {} ELSE @]
  /\ UNCHANGED <<store, others, faults>>

Applied(k) ==
  call' = [call EXCEPT ![k].changed = Append(@, Head(call[k].todo)), ![k].todo = Tail(@),
                       ![k].at = IF Len(call[k].todo) = 1 THEN "audit" ELSE "apply",
                       ![k].locks = IF Len(call[k].todo) = 1 THEN {} ELSE @]

\* A change that takes effect and fails is not among those that are undone.
Apply(k) ==
  /\ At(k, "apply")
  /\ LET t == Head(call[k].todo).target
         before == Head(call[k].todo).before
     IN IF store[t] = before
        THEN /\ store' = [store EXCEPT ![t] = Marked(before, k)]
             /\ bare' = bare \cup ({t} \ call[k].locks)
             /\ \/ Applied(k) /\ UNCHANGED <<faults, torn>>
                \/ /\ faults < MaxFaults /\ faults' = faults + 1
                   /\ Goto(k, "undo")
                   /\ torn' = torn \cup {k}
        ELSE Goto(k, "undo") /\ UNCHANGED <<store, faults, torn, bare>>
  /\ UNCHANGED <<registered, published, reached, draft, shelved>>

\* The last change first; a change that cannot be taken back ends the call.
Undo(k) ==
  /\ At(k, "undo")
  /\ IF call[k].changed = <<>> THEN UNCHANGED store /\ End(k, "failed")
     ELSE LET change == Last(call[k].changed)
          IN IF store[change.target] = Marked(change.before, k)
             THEN /\ store' = [store EXCEPT ![change.target] = change.before]
                  /\ call' = [call EXCEPT ![k].changed = Front(@)]
             ELSE UNCHANGED store /\ End(k, "failed")
  /\ UNCHANGED <<others, faults>>

-------------------------------------------------------------------------------
(* The end of a call *)

\* The draft is saved with its decision, whatever it holds by now.
Decide(k) ==
  /\ At(k, "decide")
  /\ draft' = IF call[k].op = "approve" THEN "approved" ELSE "rejected"
  /\ Goto(k, "audit")
  /\ UNCHANGED <<store, registered, published, reached, shelved, torn, bare, faults>>

\* The audit event of the call, and its answer.
Audit(k) ==
  /\ At(k, "audit")
  /\ shelved' = IF call[k].op = "archive" THEN shelved \cup {call[k].r} \cup call[k].ids ELSE shelved
  /\ End(k, "done")
  /\ UNCHANGED <<store, registered, published, reached, draft, torn, bare, faults>>

\* An operation fails without effect, or the worker dies: an archive that is not cut
\* short undoes what it has changed.
Fail(k) ==
  /\ call[k].at \notin Ended
  /\ faults < MaxFaults
  /\ faults' = faults + 1
  /\ End(k, "failed") \/ (At(k, "apply") /\ Goto(k, "undo"))
  /\ UNCHANGED <<store, others>>

Serve(k) ==
  \/ Register(k) \/ Publish(k)
  \/ Load(k) \/ Insert(k) \/ Swap(k)
  \/ Get(k) \/ Lock(k) \/ Replace(k) \/ InsertSpec(k) \/ Observe(k)
  \/ InsertRequest(k) \/ CheckRequest(k)
  \/ Relate(k) \/ LockAll(k) \/ Check(k) \/ Read(k) \/ Apply(k) \/ Undo(k)
  \/ Decide(k) \/ Audit(k)

Next ==
  \E k \in Calls :
    \/ BeginUpload(k) \/ BeginForm(k) \/ BeginText(k) \/ BeginPut(k) \/ BeginPatch(k)
    \/ BeginArchive(k) \/ BeginDecision(k)
    \/ Serve(k) \/ Fail(k)

Spec == Init /\ [][Next]_vars

-------------------------------------------------------------------------------
(* Properties *)

\* What an archive has reported stays archived, and an archived record changes only when the
\* archive that marked it, still unanswered, undoes its own mark: archiving is monotonic
\* whatever is saved, replaced, archived or undone at the same time.  Only a spec that once
\* came between the two lists of an archive, which marked it without its lock, may lose a mark
\* that another archive has reported.
ArchiveStands ==
  [][\A t \in Target : IsArchived(store[t]) /\ store'[t] # store[t]
       => /\ t \notin shelved \/ t \in bare
          /\ At(store[t].mark, "undo")
          /\ store'[t] = Active(store[t].body)]_vars

\* A spec carries the mark of an archive only if that archive's request is archived too, or
\* the archive still runs: a failed archive takes the request back last.
MarksBacked ==
  \A s \in EventSpec : IsArchived(store[s]) =>
    LET k == store[s].mark
    IN k \in torn \/ call[k].at \notin Ended \/ IsArchived(store[call[k].r])

\* A request that came with a document has that document, and no document is stored that
\* the audit log has not announced, wherever a call was cut short.
EvidenceKept ==
  /\ published \subseteq registered
  /\ \A r \in Request : store[r] # Absent /\ store[r].body.by = "upload"
                          => store[r].body.stamp \in published

\* A change that was answered, and the questions of an approved draft, have reached the
\* stored spec.
AnsweredReached ==
  /\ \A k \in Calls : call[k].op = "patch" /\ At(k, "done") => k \in reached
  /\ draft = "approved" => 0 \in reached

\* "Partial source/spec insertion is safe to repair on retry": a text source is refused only
\* if something else than this text, or a change made to it, is stored.
RetryAccepted ==
  [][\A k \in Calls : call[k].op = "text" /\ call[k].at # "refused" /\ call'[k].at = "refused"
       => LET r == call[k].r
          IN \/ store[r] # Active(Body("text", call[k].text, store[r].body.stamp))
             \/ store[OwnSpec[r]] # Active(Made(store[r].body))]_vars
===============================================================================
