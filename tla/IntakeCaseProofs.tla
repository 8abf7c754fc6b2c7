--------------------------- MODULE IntakeCaseProofs ---------------------------
(***************************************************************************)
(* Proofs about IntakeCase, for any number of calls, failures, requests    *)
(* and specs: a request has the document it came with, what was answered   *)
(* has been stored, a text source is refused for a reason only, and what   *)
(* is archived stays so, with its request.                                 *)
(***************************************************************************)
EXTENDS IntakeCase, SequenceTheorems, FiniteSetTheorems, TLAPS

-----------------------------------------------------------------------------
(* The inductive invariant *)

Record == RequestRecord \cup SpecRecord

\* A record as it may be stored: a request with its document, a spec with changes that
\* are counted as stored.
Sound(t, record) ==
  /\ t \in Request => /\ record \in RequestRecord
                      /\ record.body.by = "upload" => record.body.stamp \in published
  /\ t \in EventSpec => record \in SpecRecord /\ record.body.notes \subseteq reached

\* What an archive has read before its marks may be stored again.
Change == {c \in [target : Target, before : Record] : Sound(c.target, c.before)}

Operation ==
  {"none", "upload", "form", "text", "put", "patch", "archive", "approve", "reject"}

Point ==
  {"idle", "register", "publish", "load", "insert", "swap", "get", "lock", "replace",
   "insert_spec", "observe", "insert_request", "check_request", "related", "lock_all", "check",
   "read", "apply", "undo", "decide", "audit", "done", "refused", "failed"}

CallRecord ==
  [op : Operation, r : Request \cup {0}, s : EventSpec \cup {0}, text : Text \cup {0}, at : Point,
   target : Target \cup {0}, value : Record \cup {Absent}, seen : Record \cup {Absent},
   locks : SUBSET Target, ids : SUBSET EventSpec, todo : Seq(Change), changed : Seq(Change),
   attempt : Nat]

\* A call on its way to a request, and on its way to a spec.
Uploading(k, c) ==
  /\ c.at \in {"register", "publish"} =>
       /\ c.op = "upload" /\ c.r \in Request /\ c.target \in Request
       /\ c.value \in RequestRecord /\ c.value.body.by = "upload" /\ c.value.body.stamp = k
  /\ c.at = "publish" => k \in registered

Saving(k, c) ==
  /\ c.at \in {"load", "insert", "swap"} =>
       /\ c.target \in Target /\ c.op \in {"upload", "form", "patch", "approve"}
       /\ c.target \in Request => /\ c.op \in {"upload", "form"} /\ c.r \in Request
                                  /\ Sound(c.target, c.value) /\ c.value.body.by # "text"
       /\ c.target \in EventSpec => c.value \in SpecRecord
  /\ c.at \in {"load", "insert"} => c.op # "approve"
  /\ c.at \in {"lock", "replace"} => c.target \in EventSpec /\ c.value \in SpecRecord
  /\ c.at = "lock" => c.op \in {"upload", "form", "text", "put", "patch", "approve"}
  /\ c.at = "lock" /\ c.op \in {"text", "put", "approve"} => c.s = c.target
  /\ c.at = "replace" => c.op = "approve" /\ c.s = c.target
  /\ c.at = "get" => c.op \in {"put", "patch", "approve"} /\ c.s \in EventSpec /\ c.target = c.s
  /\ c.at = "get" /\ c.op = "put" => c.value \in SpecRecord
  /\ c.at \in {"insert_spec", "observe"} =>
       c.op \in {"text", "put"} /\ c.s \in EventSpec /\ c.value \in SpecRecord
  /\ c.at \in {"related", "lock_all", "check", "read", "apply", "undo"} =>
       c.op = "archive" /\ c.r \in Request
  /\ c.at = "apply" => c.todo # <<>>
  /\ c.at = "decide" => c.op \in {"approve", "reject"}

\* The change of an answer is in what it will store, or has been stored.
Answering(k, c) ==
  /\ c.op = "patch" /\ c.at \in {"lock", "load", "insert", "swap"} =>
       c.target \in EventSpec /\ k \in c.value.body.notes
  /\ c.op = "patch" /\ c.at \in {"audit", "done"} => k \in reached
  /\ c.op = "approve" /\ c.at \in {"lock", "replace", "swap"} =>
       c.target \in EventSpec /\ 0 \in c.value.body.notes
  /\ c.op = "approve" /\ c.at = "decide" => 0 \in reached

\* The spec of a text source is made from the request that is stored, unless another route
\* has written that request since.
Sourcing(k, c) ==
  /\ c.at \in {"insert_request", "check_request"} =>
       c.op = "text" /\ c.r \in Request /\ c.s = OwnSpec[c.r] /\ c.text \in Text
  /\ c.at = "insert_request" => c.value = Active(Body("text", c.text, k))
  /\ c.at = "check_request" => store[c.r] # Absent
  /\ c.op = "text" /\ c.at \in {"lock", "insert_spec", "observe"} =>
       /\ c.r \in Request /\ c.s = OwnSpec[c.r]
       /\ c.value = Active(Made(c.value.body.of))
       /\ store[c.r] # Absent
       /\ store[c.r].body.by = "text" => store[c.r].body = c.value.body.of

CallSound(k) ==
  /\ call[k] \in CallRecord
  /\ Uploading(k, call[k]) /\ Saving(k, call[k]) /\ Answering(k, call[k]) /\ Sourcing(k, call[k])

StoreSound ==
  /\ store \in [Target -> Record \cup {Absent}]
  /\ \A t \in Target : store[t] # Absent => Sound(t, store[t])

IInv ==
  /\ StoreSound
  /\ call \in [Calls -> CallRecord]
  /\ \A k \in Calls : CallSound(k)
  /\ published \subseteq registered
  /\ reached \subseteq Nat
  /\ draft = "approved" => 0 \in reached

-----------------------------------------------------------------------------
(* What every step keeps *)

\* Evidence and stored changes only grow, and the text of a source stays until another route
\* writes its request.
Growing ==
  /\ registered \subseteq registered' /\ published \subseteq published'
  /\ reached \subseteq reached' /\ reached' \subseteq Nat
  /\ \A r \in Request : store[r] # Absent =>
       /\ store'[r] # Absent
       /\ store'[r].body.by = "text" => store'[r].body = store[r].body

LEMMA SoundKept ==
  ASSUME Growing, NEW t, NEW record, Sound(t, record)
  PROVE  Sound(t, record)'
BY DEF Growing, Sound

LEMMA ChangeKept == Growing => Change \subseteq Change'
BY SoundKept DEF Change, Sound, Growing

LEMMA RecordKept == Growing => CallRecord \subseteq CallRecord'
<1> SUFFICES ASSUME Growing, NEW c \in CallRecord PROVE c \in CallRecord'
  OBVIOUS
<1>1. c.todo \in Seq(Change') /\ c.changed \in Seq(Change')
  BY ChangeKept, SeqMonotonic DEF CallRecord
<1> QED BY <1>1 DEF CallRecord

\* A call that takes no part in a step stays sound.
LEMMA OthersSound ==
  ASSUME IInv, Growing, NEW k \in Calls, call'[k] = call[k]
  PROVE  CallSound(k)'
<1>1. call'[k] \in CallRecord'
  BY RecordKept DEF IInv
<1>2. Uploading(k, call[k])' /\ Saving(k, call[k])'
  BY SoundKept DEF IInv, CallSound, Uploading, Saving, Growing
<1>3. Answering(k, call[k])'
  BY DEF IInv, CallSound, Answering, Growing
<1>4. Sourcing(k, call[k])'
  BY DEF IInv, CallSound, Sourcing, Growing
<1> QED BY <1>1, <1>2, <1>3, <1>4 DEF CallSound

\* The invariant after a step of call k, from what the step is to be shown to do.
LEMMA OneCall ==
  ASSUME IInv, NEW k \in Calls, NEW c, call' = [call EXCEPT ![k] = c],
         Growing, StoreSound', published' \subseteq registered',
         draft' = "approved" => 0 \in reached',
         CallSound(k)'
  PROVE  IInv'
<1>1. \A j \in Calls : CallSound(j)'
  BY OthersSound DEF IInv
<1>2. call' \in [Calls -> CallRecord']
  BY <1>1 DEF CallSound, IInv
<1> QED BY <1>1, <1>2 DEF IInv, Growing

-----------------------------------------------------------------------------
LEMMA InitSound == Init => IInv
<1> SUFFICES ASSUME Init PROVE IInv
  OBVIOUS
<1>1. PICK S \in Stored, c \in Text :
        LET first == Body("form", c, 0)
        IN store = [t \in Target |-> IF t \notin S THEN Absent
                                     ELSE Active(IF t \in Request THEN first ELSE Made(first))]
  BY DEF Init
<1>2. StoreSound
  BY <1>1, IntakeAssumption
  DEF StoreSound, Sound, Record, RequestRecord, SpecRecord, RequestBody, SpecBody, Body, Active, Made, Target
<1>3. Idle \in CallRecord
  <2>1. <<>> \in Seq(Change)
    BY EmptySeq
  <2> QED BY <2>1 DEF Idle, CallRecord, Operation, Point
<1>4. \A k \in Calls : CallSound(k)
  BY <1>3 DEF Init, CallSound, Uploading, Saving, Answering, Sourcing, Idle
<1> QED BY <1>2, <1>3, <1>4 DEF Init, IInv

-----------------------------------------------------------------------------
(* Steps that store nothing *)

LEMMA Quiet ==
  ASSUME IInv, UNCHANGED <<store, registered, published, reached>>
  PROVE  Growing /\ StoreSound' /\ published' \subseteq registered'
BY DEF IInv, Growing, StoreSound, Sound

\* The invariant after a step of call k that changes only what the call remembers.
LEMMA QuietCall ==
  ASSUME IInv, NEW k \in Calls, NEW c \in CallRecord, call' = [call EXCEPT ![k] = c],
         UNCHANGED <<store, registered, published, reached, draft>>,
         Uploading(k, c), Saving(k, c), Answering(k, c), Sourcing(k, c)
  PROVE  IInv'
<1>1. Growing /\ StoreSound' /\ published' \subseteq registered'
  BY Quiet
<1>2. call'[k] = c
  BY DEF IInv
<1>3. c \in CallRecord'
  BY <1>1, RecordKept
<1>4. CallSound(k)'
  <2>1. Uploading(k, c)' /\ Answering(k, c)' /\ Sourcing(k, c)'
    BY DEF Uploading, Answering, Sourcing
  <2>2. Saving(k, c)'
    BY DEF Saving, Sound
  <2> QED BY <1>2, <1>3, <2>1, <2>2 DEF CallSound
<1> QED BY <1>1, <1>4, OneCall DEF IInv

\* The end of a call, whatever came before, but for the answer "done" to an operator.
LEMMA EndAfter ==
  ASSUME IInv, NEW k \in Calls, NEW result \in {"done", "refused", "failed"}, End(k, result),
         Growing, StoreSound', published' \subseteq registered', UNCHANGED draft,
         result = "done" /\ call[k].op = "patch" => k \in reached
  PROVE  IInv'
<1> DEFINE told == CASE call[k].op = "archive" -> [Idle EXCEPT !.op = "archive", !.r = call[k].r]
                     [] call[k].op = "patch" -> [Idle EXCEPT !.op = "patch"]
                     [] OTHER -> Idle
           c == [told EXCEPT !.at = result]
<1>1. call' = [call EXCEPT ![k] = c]
  BY DEF End
<1>2. <<>> \in Seq(Change)
  BY EmptySeq
<1>3. call[k] \in CallRecord
  BY DEF IInv
<1>4. c \in CallRecord
  <2>1. [Idle EXCEPT !.op = "archive", !.r = call[k].r] \in CallRecord
    BY <1>2, <1>3 DEF Idle, CallRecord, Operation, Point
  <2>2. [Idle EXCEPT !.op = "patch"] \in CallRecord /\ Idle \in CallRecord
    BY <1>2 DEF Idle, CallRecord, Operation, Point
  <2>3. told \in CallRecord
    BY <2>1, <2>2
  <2>4. \A d \in CallRecord : [d EXCEPT !.at = result] \in CallRecord
    BY DEF CallRecord, Point
  <2> QED BY <2>3, <2>4
<1>5. c.at = result /\ (c.op = "patch" => call[k].op = "patch") /\ c.op # "approve" /\ c.op # "text"
  BY <1>3 DEF Idle, CallRecord
<1>6. call'[k] = c /\ call'[k] \in CallRecord' /\ (result = "done" /\ c.op = "patch" => k \in reached')
  BY <1>1, <1>4, <1>5, RecordKept DEF IInv, Growing
<1>7. CallSound(k)'
  BY <1>5, <1>6 DEF CallSound, Uploading, Saving, Answering, Sourcing
<1> QED BY <1>1, <1>7, OneCall DEF IInv, Growing

LEMMA EndSound ==
  ASSUME IInv, NEW k \in Calls, NEW result \in {"done", "refused", "failed"}, End(k, result),
         UNCHANGED <<store, registered, published, reached, draft>>,
         result = "done" /\ call[k].op = "patch" => k \in reached
  PROVE  IInv'
BY Quiet, EndAfter

\* A call goes on and remembers what it did.
LEMMA GotoSound ==
  ASSUME IInv, NEW k \in Calls, NEW point \in Point, Goto(k, point),
         UNCHANGED <<store, registered, published, reached, draft>>,
         LET c == [call[k] EXCEPT !.at = point]
         IN Uploading(k, c) /\ Saving(k, c) /\ Answering(k, c) /\ Sourcing(k, c)
  PROVE  IInv'
<1> DEFINE c == [call[k] EXCEPT !.at = point]
<1>1. call' = [call EXCEPT ![k] = c]
  BY DEF Goto
<1>2. c \in CallRecord
  BY DEF IInv, CallRecord
<1> QED BY <1>1, <1>2, QuietCall

-----------------------------------------------------------------------------
(* The beginning of a call *)

LEMMA IdleRecord == Idle \in CallRecord
<1>1. <<>> \in Seq(Change)
  BY EmptySeq
<1> QED BY <1>1 DEF Idle, CallRecord, Operation, Point

LEMMA TargetsApart ==
  /\ Request \subseteq Target /\ EventSpec \subseteq Target
  /\ \A t \in Request : t \notin EventSpec
  /\ \A r \in Request : OwnSpec[r] \in EventSpec
BY IntakeAssumption DEF Target

LEMMA BeginSound ==
  ASSUME IInv, NEW k \in Calls,
         \/ BeginUpload(k) \/ BeginForm(k) \/ BeginText(k) \/ BeginPut(k) \/ BeginPatch(k)
         \/ BeginArchive(k) \/ BeginDecision(k)
  PROVE  IInv'
<1> USE IdleRecord, TargetsApart
<1>1. \A by \in {"upload", "form", "text"}, c \in Text, stamp \in Nat :
        /\ Active(Body(by, c, stamp)) \in RequestRecord
        /\ Active(Made(Body(by, c, stamp))) \in SpecRecord
  BY DEF Active, Made, Body, RequestRecord, SpecRecord, RequestBody, SpecBody
<1>2. k \in Nat
  BY DEF Calls
<1>3. CASE BeginUpload(k)
  <2>1. PICK r \in Request, c \in Text :
          Begin(k, [Idle EXCEPT !.op = "upload", !.at = "register", !.r = r, !.s = OwnSpec[r], !.text = c,
                          !.target = r, !.value = Active(Body("upload", c, k))])
    BY <1>3, IntakeAssumption DEF BeginUpload
  <2> DEFINE q == [Idle EXCEPT !.op = "upload", !.at = "register", !.r = r, !.s = OwnSpec[r], !.text = c,
                          !.target = r, !.value = Active(Body("upload", c, k))]
  <2>2. q \in CallRecord
    BY <1>1, <1>2 DEF CallRecord, Operation, Point, Record
  <2>3. Uploading(k, q) /\ Saving(k, q) /\ Answering(k, q) /\ Sourcing(k, q)
    BY <1>1, <1>2 DEF Uploading, Saving, Answering, Sourcing, Idle, Active, Body
  <2> QED BY <2>1, <2>2, <2>3, QuietCall DEF Begin, others
<1>4. CASE BeginForm(k)
  <2>1. PICK r \in Request, c \in Text :
          Begin(k, [Idle EXCEPT !.op = "form", !.at = "load", !.r = r, !.s = OwnSpec[r], !.text = c,
                          !.target = r, !.value = Active(Body("form", c, 0))])
    BY <1>4, IntakeAssumption DEF BeginForm
  <2> DEFINE q == [Idle EXCEPT !.op = "form", !.at = "load", !.r = r, !.s = OwnSpec[r], !.text = c,
                          !.target = r, !.value = Active(Body("form", c, 0))]
  <2>2. q \in CallRecord
    BY <1>1, <1>2 DEF CallRecord, Operation, Point, Record
  <2>3. Uploading(k, q) /\ Saving(k, q) /\ Answering(k, q) /\ Sourcing(k, q)
    BY <1>1, <1>2 DEF Uploading, Saving, Answering, Sourcing, Idle, Active, Body, Sound
  <2> QED BY <2>1, <2>2, <2>3, QuietCall DEF Begin, others
<1>5. CASE BeginText(k)
  <2>1. PICK r \in Request, c \in Text :
          Begin(k, [Idle EXCEPT !.op = "text", !.at = "insert_request", !.r = r, !.s = OwnSpec[r], !.text = c,
                          !.value = Active(Body("text", c, k))])
    BY <1>5, IntakeAssumption DEF BeginText
  <2> DEFINE q == [Idle EXCEPT !.op = "text", !.at = "insert_request", !.r = r, !.s = OwnSpec[r], !.text = c,
                          !.value = Active(Body("text", c, k))]
  <2>2. q \in CallRecord
    BY <1>1, <1>2 DEF CallRecord, Operation, Point, Record
  <2>3. Uploading(k, q) /\ Saving(k, q) /\ Answering(k, q) /\ Sourcing(k, q)
    BY DEF Uploading, Saving, Answering, Sourcing, Idle
  <2> QED BY <2>1, <2>2, <2>3, QuietCall DEF Begin, others
<1>6. CASE BeginPut(k)
  <2>1. PICK s \in EventSpec, c \in Text :
          Begin(k, [Idle EXCEPT !.op = "put", !.at = "get", !.s = s, !.text = c, !.target = s,
                          !.value = Active(Made(Body("form", c, 0)))])
    BY <1>6, IntakeAssumption DEF BeginPut
  <2> DEFINE q == [Idle EXCEPT !.op = "put", !.at = "get", !.s = s, !.text = c, !.target = s,
                          !.value = Active(Made(Body("form", c, 0)))]
  <2>2. q \in CallRecord
    BY <1>1, <1>2 DEF CallRecord, Operation, Point, Record
  <2>3. Uploading(k, q) /\ Saving(k, q) /\ Answering(k, q) /\ Sourcing(k, q)
    BY <1>1 DEF Uploading, Saving, Answering, Sourcing, Idle
  <2> QED BY <2>1, <2>2, <2>3, QuietCall DEF Begin, others
<1>7. CASE BeginPatch(k)
  <2>1. PICK s \in EventSpec :
          Begin(k, [Idle EXCEPT !.op = "patch", !.at = "get", !.s = s, !.target = s])
    BY <1>7, IntakeAssumption DEF BeginPatch
  <2> DEFINE q == [Idle EXCEPT !.op = "patch", !.at = "get", !.s = s, !.target = s]
  <2>2. q \in CallRecord
    BY DEF CallRecord, Operation, Point
  <2>3. Uploading(k, q) /\ Saving(k, q) /\ Answering(k, q) /\ Sourcing(k, q)
    BY DEF Uploading, Saving, Answering, Sourcing, Idle
  <2> QED BY <2>1, <2>2, <2>3, QuietCall DEF Begin, others
<1>8. CASE BeginArchive(k)
  <2>1. PICK r \in Request :
          Begin(k, [Idle EXCEPT !.op = "archive", !.at = "related", !.r = r])
    BY <1>8, IntakeAssumption DEF BeginArchive
  <2> DEFINE q == [Idle EXCEPT !.op = "archive", !.at = "related", !.r = r]
  <2>2. q \in CallRecord
    BY DEF CallRecord, Operation, Point
  <2>3. Uploading(k, q) /\ Saving(k, q) /\ Answering(k, q) /\ Sourcing(k, q)
    BY DEF Uploading, Saving, Answering, Sourcing, Idle
  <2> QED BY <2>1, <2>2, <2>3, QuietCall DEF Begin, others
<1>9. CASE BeginDecision(k)
  <2> DEFINE a == [Idle EXCEPT !.op = "approve", !.at = "get", !.s = Asked, !.target = Asked]
             b == [Idle EXCEPT !.op = "reject", !.at = "decide", !.s = Asked]
  <2>1. Asked \in EventSpec
    BY IntakeAssumption
  <2>2. a \in CallRecord
    BY <2>1 DEF CallRecord, Operation, Point
  <2>5. b \in CallRecord
    BY <2>1 DEF CallRecord, Operation, Point
  <2>3. Uploading(k, a) /\ Saving(k, a) /\ Answering(k, a) /\ Sourcing(k, a)
    BY <2>1 DEF Uploading, Saving, Answering, Sourcing, Idle
  <2>4. Uploading(k, b) /\ Saving(k, b) /\ Answering(k, b) /\ Sourcing(k, b)
    BY DEF Uploading, Saving, Answering, Sourcing, Idle
  <2> QED BY <1>9, <2>2, <2>3, <2>4, <2>5, QuietCall DEF BeginDecision, Begin, others
<1> QED BY <1>3, <1>4, <1>5, <1>6, <1>7, <1>8, <1>9

-----------------------------------------------------------------------------
(* Steps that read or lock *)

\* What Saved leaves of a call, when the record is stored.
LEMMA SavedSound ==
  ASSUME IInv, NEW k \in Calls, Saved(k), Growing, StoreSound',
         published' \subseteq registered', UNCHANGED draft,
         call[k].target \in Target, call[k].op \in {"upload", "form", "patch", "approve"},
         call[k].target \in Request => call[k].op \in {"upload", "form"} /\ call[k].r \in Request
                                       /\ call[k].value \in RequestRecord,
         call[k].op = "patch" => k \in reached',
         call[k].op = "approve" => 0 \in reached'
  PROVE  IInv'
<1> DEFINE onward == [call[k] EXCEPT !.at = "lock", !.target = OwnSpec[call[k].r], !.attempt = 0,
                            !.value = Active(Made(call[k].value.body)), !.seen = Absent]
           last == [call[k] EXCEPT !.at = IF call[k].op = "approve" THEN "decide" ELSE "audit",
                            !.locks = {}, !.seen = Absent, !.attempt = 0]
<1>1. call[k] \in CallRecord
  BY DEF IInv
<1>2. CASE call[k].target \in Request
  <2>1. call' = [call EXCEPT ![k] = onward]
    BY <1>2 DEF Saved
  <2>2. Active(Made(call[k].value.body)) \in SpecRecord
    BY <1>2 DEF Active, Made, SpecRecord, SpecBody, RequestRecord
  <2>3. onward \in CallRecord
    BY <1>1, <1>2, <2>2, TargetsApart DEF CallRecord, Point, Record
  <2>4. call'[k] = onward /\ call'[k] \in CallRecord'
    BY <2>1, <2>3, RecordKept DEF IInv
  <2>5. /\ onward.at = "lock" /\ onward.op \in {"upload", "form"} /\ onward.target \in EventSpec
        /\ onward.value \in SpecRecord
    BY <1>1, <1>2, <2>2, TargetsApart DEF CallRecord
  <2>6. CallSound(k)'
    BY <2>4, <2>5 DEF CallSound, Uploading, Saving, Answering, Sourcing
  <2> QED BY <2>1, <2>6, OneCall DEF IInv, Growing
<1>3. CASE call[k].target \notin Request
  <2>1. call' = [call EXCEPT ![k] = last]
    BY <1>3 DEF Saved
  <2>2. (IF call[k].op = "approve" THEN "decide" ELSE "audit") \in Point
    BY DEF Point
  <2>3. last \in CallRecord
    BY <1>1, <2>2 DEF CallRecord
  <2>4. call'[k] = last /\ call'[k] \in CallRecord'
    BY <2>1, <2>3, RecordKept DEF IInv
  <2>5. /\ last.op = call[k].op
        /\ last.at = IF call[k].op = "approve" THEN "decide" ELSE "audit"
    BY <1>1 DEF CallRecord
  <2>6. CallSound(k)'
    BY <2>4, <2>5 DEF CallSound, Uploading, Saving, Answering, Sourcing
  <2> QED BY <2>1, <2>6, OneCall DEF IInv, Growing
<1> QED BY <1>2, <1>3

\* What a record read from a collection is.
LEMMA StoredRecord ==
  ASSUME IInv, NEW t \in Target
  PROVE  /\ store[t] \in Record \cup {Absent}
         /\ store[t] # Absent => Sound(t, store[t])
BY DEF IInv, StoreSound

LEMMA LoadSound == ASSUME IInv, NEW k \in Calls, Load(k) PROVE IInv'
<1> DEFINE existing == store[call[k].target]
<1>1. /\ call[k] \in CallRecord /\ call[k].at = "load" /\ CallSound(k)
      /\ UNCHANGED <<store, registered, published, reached, draft>>
  BY DEF IInv, Load, At, others
<1>2. /\ Saving(k, call[k]) /\ Answering(k, call[k]) /\ call[k].target \in Target
      /\ call[k].op \in {"upload", "form", "patch"}
  BY <1>1 DEF CallSound, Saving
<1>3. existing \in Record \cup {Absent} /\ (existing # Absent => Sound(call[k].target, existing))
  BY <1>2, StoredRecord
<1>4. CASE existing = Absent /\ call[k].attempt = 0
  <2>1. Goto(k, "insert")
    BY <1>4 DEF Load, LoadOf
  <2> DEFINE c == [call[k] EXCEPT !.at = "insert"]
  <2>2. /\ c.at = "insert" /\ c.op = call[k].op /\ c.r = call[k].r /\ c.target = call[k].target
        /\ c.value = call[k].value
    BY <1>1 DEF CallRecord
  <2>3. Uploading(k, c) /\ Saving(k, c) /\ Answering(k, c) /\ Sourcing(k, c)
    BY <1>1, <1>2, <2>2 DEF Uploading, Saving, Answering, Sourcing
  <2> QED BY <1>1, <2>1, <2>3, GotoSound DEF Point
<1>5. CASE End(k, "refused")
  BY <1>1, <1>5, EndSound
<1>6. CASE existing # Absent /\ existing = call[k].value
  <2>1. Saved(k)
    BY <1>6 DEF Load, LoadOf
  <2>2. call[k].op = "patch" => k \in reached
    BY <1>1, <1>2, <1>3, <1>6, TargetsApart DEF Answering, Sound
  <2>3. call[k].target \in Request => call[k].op \in {"upload", "form"} /\ call[k].r \in Request
                                       /\ call[k].value \in RequestRecord
    BY <1>1, <1>2 DEF Saving, Sound
  <2> QED BY <1>1, <1>2, <2>1, <2>2, <2>3, SavedSound, Quiet
<1>7. CASE existing # Absent /\ call' = [call EXCEPT ![k].seen = existing, ![k].at = "swap"]
  <2> DEFINE c == [call[k] EXCEPT !.seen = existing, !.at = "swap"]
  <2>1. c \in CallRecord
    BY <1>1, <1>3 DEF CallRecord, Point
  <2>2. /\ c.at = "swap" /\ c.op = call[k].op /\ c.r = call[k].r /\ c.target = call[k].target
        /\ c.value = call[k].value
    BY <1>1 DEF CallRecord
  <2>3. Uploading(k, c) /\ Saving(k, c) /\ Answering(k, c) /\ Sourcing(k, c)
    BY <1>1, <1>2, <2>2 DEF Uploading, Saving, Answering, Sourcing
  <2>4. call' = [call EXCEPT ![k] = c]
    BY <1>7
  <2> QED BY <1>1, <2>1, <2>3, <2>4, QuietCall
<1> QED BY <1>4, <1>5, <1>6, <1>7 DEF Load, LoadOf

LEMMA GetSound == ASSUME IInv, NEW k \in Calls, Get(k) PROVE IInv'
<1> DEFINE existing == store[call[k].s]
           note == IF call[k].op = "approve" THEN 0 ELSE k
           value == [existing EXCEPT !.body.notes = @ \cup {note}]
<1>1. /\ call[k] \in CallRecord /\ call[k].at = "get" /\ Saving(k, call[k])
      /\ UNCHANGED <<store, registered, published, reached, draft>>
  BY DEF IInv, CallSound, Get, At, others
<1>2. /\ call[k].op \in {"put", "patch", "approve"} /\ call[k].s \in EventSpec
      /\ call[k].target = call[k].s /\ (call[k].op = "put" => call[k].value \in SpecRecord)
  BY <1>1 DEF Saving
<1>3. existing # Absent => existing \in SpecRecord
  BY <1>2, StoredRecord, TargetsApart DEF Sound
<1>4. CASE call[k].op = "put" /\ Goto(k, "lock")
  <2> DEFINE c == [call[k] EXCEPT !.at = "lock"]
  <2>1. /\ c.at = "lock" /\ c.op = "put" /\ c.s = call[k].s /\ c.target = call[k].target
        /\ c.value = call[k].value
    BY <1>1, <1>4 DEF CallRecord
  <2>2. Uploading(k, c) /\ Saving(k, c) /\ Answering(k, c) /\ Sourcing(k, c)
    BY <1>2, <2>1 DEF Uploading, Saving, Answering, Sourcing
  <2> QED BY <1>1, <1>4, <2>2, GotoSound DEF Point
<1>5. CASE call[k].op = "put" /\ (End(k, "done") \/ End(k, "refused"))
  BY <1>1, <1>5, EndSound
<1>6. CASE End(k, "refused")
  BY <1>1, <1>6, EndSound
<1>7. CASE /\ call[k].op # "put" /\ existing # Absent
           /\ call' = [call EXCEPT ![k].seen = existing, ![k].at = "lock", ![k].value = value]
  <2> DEFINE c == [call[k] EXCEPT !.seen = existing, !.at = "lock", !.value = value]
  <2>1. note \in Nat /\ (call[k].op = "patch" => note = k) /\ (call[k].op = "approve" => note = 0)
    BY DEF Calls
  <2>2. value \in SpecRecord /\ note \in value.body.notes
    BY <1>3, <1>7, <2>1 DEF SpecRecord, SpecBody
  <2>3. existing \in Record
    BY <1>3, <1>7 DEF Record
  <2>4. c \in CallRecord
    <3>1. value \in Record \cup {Absent} /\ existing \in Record \cup {Absent} /\ "lock" \in Point
      BY <2>2, <2>3 DEF Record, Point
    <3> HIDE DEF value, existing
    <3> QED BY <1>1, <3>1 DEF CallRecord
  <2>5. /\ c.at = "lock" /\ c.op = call[k].op /\ c.s = call[k].s /\ c.target = call[k].target
        /\ c.value = value
    BY <1>1 DEF CallRecord
  <2>6. Uploading(k, c) /\ Saving(k, c) /\ Answering(k, c) /\ Sourcing(k, c)
    BY <1>2, <1>7, <2>1, <2>2, <2>5 DEF Uploading, Saving, Answering, Sourcing
  <2>7. call' = [call EXCEPT ![k] = c]
    BY <1>7
  <2> QED BY <1>1, <2>4, <2>6, <2>7, QuietCall
<1> QED BY <1>2, <1>4, <1>5, <1>6, <1>7 DEF Get

LEMMA LockSound == ASSUME IInv, NEW k \in Calls, Lock(k) PROVE IInv'
<1> DEFINE next == CASE call[k].op \in {"text", "put"} -> "insert_spec"
                     [] call[k].op = "approve" -> "replace"
                     [] OTHER -> "load"
           c == [call[k] EXCEPT !.locks = {call[k].target}, !.at = next]
<1>1. /\ call[k] \in CallRecord /\ call[k].at = "lock" /\ CallSound(k)
      /\ UNCHANGED <<store, registered, published, reached, draft>>
      /\ call' = [call EXCEPT ![k] = c]
  BY DEF IInv, Lock, At, others
<1>2. /\ Saving(k, call[k]) /\ Answering(k, call[k]) /\ Sourcing(k, call[k])
      /\ call[k].target \in EventSpec /\ call[k].value \in SpecRecord
      /\ call[k].op \in {"upload", "form", "text", "put", "patch", "approve"}
  BY <1>1 DEF CallSound, Saving
<1>3. next \in {"insert_spec", "replace", "load"}
  OBVIOUS
<1>4. c \in CallRecord
  BY <1>1, <1>2, <1>3, TargetsApart DEF CallRecord, Point
<1>5. /\ c.at = next /\ c.op = call[k].op /\ c.r = call[k].r /\ c.s = call[k].s
      /\ c.target = call[k].target /\ c.value = call[k].value
  BY <1>1 DEF CallRecord
<1>6. Uploading(k, c)
  BY <1>3, <1>5 DEF Uploading
<1>7. Saving(k, c)
  BY <1>1, <1>2, <1>3, <1>5, TargetsApart DEF Saving
<1>8. Answering(k, c)
  BY <1>1, <1>2, <1>3, <1>5 DEF Answering
<1>9. Sourcing(k, c)
  BY <1>1, <1>2, <1>3, <1>5 DEF Sourcing
<1> QED BY <1>1, <1>4, <1>6, <1>7, <1>8, <1>9, QuietCall

LEMMA ReplaceSound == ASSUME IInv, NEW k \in Calls, Replace(k) PROVE IInv'
<1> DEFINE existing == store[call[k].s]
<1>1. /\ call[k] \in CallRecord /\ call[k].at = "replace" /\ CallSound(k)
      /\ UNCHANGED <<store, registered, published, reached, draft>>
  BY DEF IInv, Replace, At, others
<1>2. /\ Saving(k, call[k]) /\ Answering(k, call[k])
      /\ call[k].op = "approve" /\ call[k].s = call[k].target
      /\ call[k].target \in EventSpec /\ call[k].value \in SpecRecord
      /\ 0 \in call[k].value.body.notes
  BY <1>1 DEF CallSound, Saving, Answering
<1>3. CASE existing = call[k].value
  <2>1. Saved(k) /\ existing # Absent
    BY <1>2, <1>3, IntakeAssumption DEF Replace
  <2>2. 0 \in reached
    BY <1>2, <1>3, <2>1, StoredRecord, TargetsApart DEF Sound
  <2> QED BY <1>1, <1>2, <2>1, <2>2, SavedSound, Quiet, TargetsApart
<1>4. CASE End(k, "refused")
  BY <1>1, <1>4, EndSound
<1>5. CASE Goto(k, "swap")
  <2> DEFINE c == [call[k] EXCEPT !.at = "swap"]
  <2>1. /\ c.at = "swap" /\ c.op = "approve" /\ c.target = call[k].target /\ c.value = call[k].value
    BY <1>1, <1>2 DEF CallRecord
  <2>2. Uploading(k, c) /\ Saving(k, c) /\ Answering(k, c) /\ Sourcing(k, c)
    BY <1>2, <2>1, TargetsApart DEF Uploading, Saving, Answering, Sourcing
  <2> QED BY <1>1, <1>5, <2>2, GotoSound DEF Point
<1> QED BY <1>3, <1>4, <1>5 DEF Replace

LEMMA ObserveSound == ASSUME IInv, NEW k \in Calls, Observe(k) PROVE IInv'
<1>1. /\ call[k] \in CallRecord /\ call[k].at = "observe" /\ call[k].op \in {"text", "put"}
      /\ UNCHANGED <<store, registered, published, reached, draft>>
  BY DEF IInv, CallSound, Saving, Observe, At, others
<1>2. CASE End(k, "refused") \/ End(k, "done")
  BY <1>1, <1>2, EndSound
<1>3. CASE Goto(k, "audit")
  <2> DEFINE c == [call[k] EXCEPT !.at = "audit"]
  <2>1. c.at = "audit" /\ c.op = call[k].op
    BY <1>1 DEF CallRecord
  <2>2. Uploading(k, c) /\ Saving(k, c) /\ Answering(k, c) /\ Sourcing(k, c)
    BY <1>1, <2>1 DEF Uploading, Saving, Answering, Sourcing
  <2> QED BY <1>1, <1>3, <2>2, GotoSound DEF Point
<1> QED BY <1>2, <1>3 DEF Observe

LEMMA CheckRequestSound == ASSUME IInv, NEW k \in Calls, CheckRequest(k) PROVE IInv'
<1> DEFINE existing == store[call[k].r]
           c == [call[k] EXCEPT !.at = "lock", !.target = call[k].s, !.value = Active(Made(existing.body))]
<1>1. /\ call[k] \in CallRecord /\ call[k].at = "check_request" /\ Sourcing(k, call[k])
      /\ UNCHANGED <<store, registered, published, reached, draft>>
  BY DEF IInv, CallSound, CheckRequest, At, others
<1>2. /\ call[k].op = "text" /\ call[k].r \in Request /\ call[k].s = OwnSpec[call[k].r]
      /\ call[k].s \in EventSpec
  BY <1>1, TargetsApart DEF Sourcing
<1>3. CASE SameSource(existing, k)
  <2>1. existing = Active(Body("text", call[k].text, existing.body.stamp))
    BY <1>3 DEF SameSource, Body
  <2>2. existing \in Record \cup {Absent} /\ (existing # Absent => existing \in RequestRecord)
    BY <1>2, StoredRecord, TargetsApart DEF Sound
  <2>3. existing # Absent
    BY <1>1 DEF Sourcing
  <2>4. Active(Made(existing.body)) \in SpecRecord
    BY <2>2, <2>3 DEF Active, Made, SpecRecord, SpecBody, RequestRecord
  <2>5. c \in CallRecord
    BY <1>1, <1>2, <2>4, TargetsApart DEF CallRecord, Point, Record
  <2>6. /\ c.at = "lock" /\ c.op = "text" /\ c.r = call[k].r /\ c.s = call[k].s
        /\ c.target = call[k].s /\ c.value = Active(Made(existing.body))
    BY <1>1, <1>2 DEF CallRecord
  <2>7. c.value.body.of = existing.body
    BY <2>6 DEF Active, Made
  <2>8. Uploading(k, c) /\ Saving(k, c) /\ Answering(k, c) /\ Sourcing(k, c)
    BY <1>2, <2>3, <2>4, <2>6, <2>7 DEF Uploading, Saving, Answering, Sourcing
  <2>9. call' = [call EXCEPT ![k] = c]
    BY <1>3 DEF CheckRequest
  <2> QED BY <1>1, <2>5, <2>8, <2>9, QuietCall
<1>4. CASE End(k, "refused")
  BY <1>1, <1>4, EndSound, <1>2
<1> QED BY <1>3, <1>4 DEF CheckRequest

-----------------------------------------------------------------------------
(* Steps that store something *)

LEMMA WriteSound ==
  ASSUME IInv, NEW t \in Target, NEW record \in Record, Write(t, record),
         UNCHANGED <<registered, published>>,
         t \in Request => Sound(t, record),
         t \in EventSpec => record \in SpecRecord,
         t \in Request /\ store[t] # Absent => record.body.by # "text"
  PROVE  /\ Growing /\ StoreSound' /\ published' \subseteq registered'
         /\ t \in EventSpec => record.body.notes \subseteq reached'
         /\ store'[t] # Absent
<1>1. record # Absent
  BY IntakeAssumption DEF Record
<1>2. store' = [store EXCEPT ![t] = record]
  BY DEF Write
<1>3. /\ reached \subseteq reached' /\ reached' \subseteq Nat
      /\ t \in EventSpec => record.body.notes \subseteq reached'
  BY DEF IInv, Write, SpecRecord, SpecBody
<1>4. Growing
  BY <1>1, <1>2, <1>3, TargetsApart DEF Growing, IInv, StoreSound
<1>5. Sound(t, record)'
  BY <1>3, TargetsApart DEF Sound
<1>6. StoreSound'
  BY <1>2, <1>4, <1>5, SoundKept DEF IInv, StoreSound
<1> QED BY <1>1, <1>2, <1>3, <1>4, <1>6 DEF IInv, StoreSound

\* The body of a record stays, and only its mark changes.
LEMMA MarkSound ==
  ASSUME IInv, NEW t \in Target, NEW record \in Record, Sound(t, record),
         store' = [store EXCEPT ![t] = record], record.body = store[t].body,
         UNCHANGED <<registered, published, reached>>
  PROVE  Growing /\ StoreSound' /\ published' \subseteq registered'
<1>1. record # Absent
  BY IntakeAssumption DEF Record
<1>2. Growing
  BY <1>1, TargetsApart DEF Growing, IInv, StoreSound
<1>3. Sound(t, record)'
  BY DEF Sound
<1>4. StoreSound'
  BY <1>2, <1>3, SoundKept DEF IInv, StoreSound
<1> QED BY <1>2, <1>4 DEF IInv

LEMMA RegisterSound == ASSUME IInv, NEW k \in Calls, Register(k) PROVE IInv'
<1> DEFINE c == [call[k] EXCEPT !.at = "publish"]
<1>1. /\ call[k] \in CallRecord /\ call[k].at = "register" /\ Uploading(k, call[k])
      /\ UNCHANGED <<store, published, reached, draft>>
      /\ registered' = registered \cup {k}
      /\ call' = [call EXCEPT ![k] = c]
  BY DEF IInv, CallSound, Register, Goto, At
<1>2. Growing /\ StoreSound' /\ published' \subseteq registered'
  BY <1>1 DEF IInv, Growing, StoreSound, Sound
<1>3. c \in CallRecord /\ c.at = "publish" /\ c.op = call[k].op /\ c.r = call[k].r
      /\ c.target = call[k].target /\ c.value = call[k].value
  BY <1>1 DEF CallRecord, Point
<1>4. call'[k] = c /\ call'[k] \in CallRecord'
  BY <1>1, <1>2, <1>3, RecordKept DEF IInv
<1>5. CallSound(k)'
  BY <1>1, <1>3, <1>4 DEF CallSound, Uploading, Saving, Answering, Sourcing
<1> QED BY <1>1, <1>2, <1>5, OneCall DEF IInv

LEMMA PublishSound == ASSUME IInv, NEW k \in Calls, Publish(k) PROVE IInv'
<1> DEFINE c == [call[k] EXCEPT !.at = "load"]
<1>1. /\ call[k] \in CallRecord /\ call[k].at = "publish" /\ Uploading(k, call[k])
      /\ UNCHANGED <<store, registered, reached, draft>>
      /\ published' = published \cup {k}
      /\ call' = [call EXCEPT ![k] = c]
  BY DEF IInv, CallSound, Publish, Goto, At
<1>2. Growing /\ published' \subseteq registered'
  BY <1>1 DEF IInv, Growing, Uploading
<1>3. StoreSound'
  BY <1>1, <1>2, SoundKept DEF IInv, StoreSound
<1>4. c \in CallRecord /\ c.at = "load" /\ c.op = call[k].op /\ c.r = call[k].r
      /\ c.target = call[k].target /\ c.value = call[k].value
  BY <1>1 DEF CallRecord, Point
<1>5. call'[k] = c /\ call'[k] \in CallRecord'
  BY <1>1, <1>2, <1>4, RecordKept DEF IInv
<1>6. Sound(c.target, c.value)' /\ c.target \in Target
  BY <1>1, <1>4, TargetsApart DEF Sound, Uploading
<1>7. CallSound(k)'
  BY <1>1, <1>4, <1>5, <1>6, TargetsApart DEF CallSound, Uploading, Saving, Answering, Sourcing, Sound
<1> QED BY <1>1, <1>2, <1>3, <1>7, OneCall DEF IInv

LEMMA InsertSound == ASSUME IInv, NEW k \in Calls, Insert(k) PROVE IInv'
<1>1. /\ call[k] \in CallRecord /\ call[k].at = "insert"
      /\ Saving(k, call[k]) /\ Answering(k, call[k])
      /\ UNCHANGED <<registered, published, draft>>
  BY DEF IInv, CallSound, Insert, At
<1>2. /\ call[k].target \in Target /\ call[k].value \in Record
      /\ call[k].target \in Request => Sound(call[k].target, call[k].value)
      /\ call[k].target \in EventSpec => call[k].value \in SpecRecord
      /\ call[k].op \in {"upload", "form", "patch"}
      /\ call[k].target \in Request => call[k].op \in {"upload", "form"} /\ call[k].r \in Request
                                       /\ call[k].value \in RequestRecord
  BY <1>1 DEF Saving, Sound, Record, Target
<1>3. CASE /\ store[call[k].target] = Absent
           /\ Write(call[k].target, call[k].value) /\ Saved(k)
  <2>1. /\ Growing /\ StoreSound' /\ published' \subseteq registered'
        /\ call[k].target \in EventSpec => call[k].value.body.notes \subseteq reached'
    BY <1>1, <1>2, <1>3, WriteSound
  <2>2. call[k].op = "patch" => k \in reached'
    BY <1>1, <2>1 DEF Answering
  <2> QED BY <1>1, <1>2, <1>3, <2>1, <2>2, SavedSound
<1>4. CASE Keep /\ call' = [call EXCEPT ![k].at = "load", ![k].attempt = 1]
  <2> DEFINE c == [call[k] EXCEPT !.at = "load", !.attempt = 1]
  <2>1. c \in CallRecord /\ c.at = "load" /\ c.op = call[k].op /\ c.r = call[k].r
        /\ c.target = call[k].target /\ c.value = call[k].value
    BY <1>1 DEF CallRecord, Point
  <2>2. Uploading(k, c) /\ Saving(k, c) /\ Answering(k, c) /\ Sourcing(k, c)
    BY <1>1, <1>2, <2>1 DEF Uploading, Saving, Answering, Sourcing
  <2>3. call' = [call EXCEPT ![k] = c]
    BY <1>4
  <2> QED BY <1>1, <1>4, <2>1, <2>2, <2>3, QuietCall DEF Keep
<1> QED BY <1>3, <1>4 DEF Insert

LEMMA SwapSound == ASSUME IInv, NEW k \in Calls, Swap(k) PROVE IInv'
<1>1. /\ call[k] \in CallRecord /\ call[k].at = "swap"
      /\ Saving(k, call[k]) /\ Answering(k, call[k])
      /\ UNCHANGED <<registered, published, draft>>
  BY DEF IInv, CallSound, Swap, At
<1>2. /\ call[k].target \in Target /\ call[k].value \in Record
      /\ call[k].target \in Request => Sound(call[k].target, call[k].value)
                                       /\ call[k].value.body.by # "text"
      /\ call[k].target \in EventSpec => call[k].value \in SpecRecord
      /\ call[k].op \in {"upload", "form", "patch", "approve"}
      /\ call[k].target \in Request => call[k].op \in {"upload", "form"} /\ call[k].r \in Request
                                       /\ call[k].value \in RequestRecord
  BY <1>1 DEF Saving, Sound, Record, Target
<1>3. CASE Write(call[k].target, call[k].value) /\ Saved(k)
  <2>1. /\ Growing /\ StoreSound' /\ published' \subseteq registered'
        /\ call[k].target \in EventSpec => call[k].value.body.notes \subseteq reached'
    BY <1>1, <1>2, <1>3, WriteSound
  <2>2. /\ call[k].op = "patch" => k \in reached'
        /\ call[k].op = "approve" => 0 \in reached'
    BY <1>1, <2>1 DEF Answering
  <2> QED BY <1>1, <1>2, <1>3, <2>1, <2>2, SavedSound
<1>4. CASE Keep /\ End(k, "refused")
  BY <1>1, <1>4, EndSound DEF Keep
<1> QED BY <1>3, <1>4 DEF Swap

LEMMA InsertRequestSound == ASSUME IInv, NEW k \in Calls, InsertRequest(k) PROVE IInv'
<1> DEFINE c == [call[k] EXCEPT !.at = "check_request"]
<1>1. /\ call[k] \in CallRecord /\ call[k].at = "insert_request" /\ Sourcing(k, call[k])
      /\ UNCHANGED <<registered, published, draft>>
      /\ call' = [call EXCEPT ![k] = c]
  BY DEF IInv, CallSound, InsertRequest, Goto, At
<1>2. /\ call[k].op = "text" /\ call[k].r \in Request /\ call[k].s = OwnSpec[call[k].r]
      /\ call[k].text \in Text /\ call[k].value = Active(Body("text", call[k].text, k))
  BY <1>1 DEF Sourcing
<1>3. call[k].value \in RequestRecord /\ call[k].value.body.by = "text"
  BY <1>2 DEF Active, Body, RequestRecord, RequestBody, Calls
<1>4. Growing /\ StoreSound' /\ published' \subseteq registered' /\ store'[call[k].r] # Absent
  <2>1. CASE store[call[k].r] = Absent
    <3>1. Write(call[k].r, call[k].value)
      BY <2>1 DEF InsertRequest
    <3>2. Sound(call[k].r, call[k].value)
      BY <1>2, <1>3, TargetsApart DEF Sound
    <3> QED BY <1>1, <1>2, <1>3, <2>1, <3>1, <3>2, WriteSound, TargetsApart DEF Record
  <2>2. CASE store[call[k].r] # Absent
    BY <1>1, <2>2, Quiet DEF InsertRequest, Keep
  <2> QED BY <2>1, <2>2
<1>5. c \in CallRecord /\ c.at = "check_request" /\ c.op = call[k].op /\ c.r = call[k].r
      /\ c.s = call[k].s /\ c.text = call[k].text
  BY <1>1 DEF CallRecord, Point
<1>6. call'[k] = c /\ call'[k] \in CallRecord'
  BY <1>1, <1>4, <1>5, RecordKept DEF IInv
<1>7. CallSound(k)'
  BY <1>2, <1>4, <1>5, <1>6 DEF CallSound, Uploading, Saving, Answering, Sourcing
<1> QED BY <1>1, <1>4, <1>7, OneCall DEF IInv, Growing

LEMMA InsertSpecSound == ASSUME IInv, NEW k \in Calls, InsertSpec(k) PROVE IInv'
<1>1. /\ call[k] \in CallRecord /\ call[k].at = "insert_spec"
      /\ Saving(k, call[k]) /\ Sourcing(k, call[k])
      /\ UNCHANGED <<registered, published, draft>>
  BY DEF IInv, CallSound, InsertSpec, At
<1>2. /\ call[k].op \in {"text", "put"} /\ call[k].s \in EventSpec /\ call[k].s \in Target
      /\ call[k].s \notin Request /\ call[k].value \in SpecRecord
  BY <1>1, TargetsApart DEF Saving
<1>3. Growing /\ StoreSound' /\ published' \subseteq registered'
      /\ \A r \in Request : store'[r] = store[r]
  <2>1. CASE store[call[k].s] = Absent
    <3>1. Write(call[k].s, call[k].value)
      BY <2>1 DEF InsertSpec
    <3>2. \A r \in Request : store'[r] = store[r]
      BY <1>2, <3>1 DEF Write, IInv, StoreSound, Target
    <3> QED BY <1>1, <1>2, <3>1, <3>2, WriteSound DEF Record
  <2>2. CASE store[call[k].s] # Absent
    BY <1>1, <2>2, Quiet DEF InsertSpec, Keep
  <2> QED BY <2>1, <2>2
<1>4. CASE call[k].op = "put" /\ End(k, "done")
  BY <1>1, <1>3, <1>4, EndAfter
<1>5. CASE call' = [call EXCEPT ![k].locks = {}, ![k].at = "observe"]
  <2> DEFINE c == [call[k] EXCEPT !.locks = {}, !.at = "observe"]
  <2>1. c \in CallRecord /\ c.at = "observe" /\ c.op = call[k].op /\ c.r = call[k].r
        /\ c.s = call[k].s /\ c.value = call[k].value
    BY <1>1 DEF CallRecord, Point
  <2>2. call'[k] = c /\ call'[k] \in CallRecord'
    BY <1>3, <1>5, <2>1, RecordKept DEF IInv
  <2>3. Sourcing(k, call[k])'
    BY <1>1, <1>2, <1>3, <2>1, <2>2 DEF Sourcing
  <2>4. CallSound(k)'
    BY <1>2, <2>1, <2>2, <2>3 DEF CallSound, Uploading, Saving, Answering
  <2>5. call' = [call EXCEPT ![k] = c]
    BY <1>5
  <2> QED BY <1>1, <1>3, <2>4, <2>5, OneCall DEF IInv, Growing
<1> QED BY <1>4, <1>5 DEF InsertSpec

-----------------------------------------------------------------------------
(* The archive *)

\* An archive that goes on: its call stays one of an archive, whatever it remembers.
LEMMA ArchiveGoes ==
  ASSUME IInv, NEW k \in Calls, NEW c \in CallRecord, call' = [call EXCEPT ![k] = c],
         Growing, StoreSound', published' \subseteq registered', UNCHANGED draft,
         c.op = "archive", c.r \in Request, c.at = "apply" => c.todo # <<>>,
         c.at \in {"related", "lock_all", "check", "read", "apply", "undo", "audit"}
  PROVE  IInv'
<1>1. call'[k] = c /\ call'[k] \in CallRecord'
  BY RecordKept DEF IInv
<1>2. CallSound(k)'
  BY <1>1 DEF CallSound, Uploading, Saving, Answering, Sourcing
<1> QED BY <1>2, OneCall DEF IInv, Growing

LEMMA RelateSound ==
  ASSUME IInv, NEW k \in Calls, Relate(k) \/ LockAll(k) \/ Check(k)
  PROVE  IInv'
<1>1. /\ call[k] \in CallRecord /\ call[k].op = "archive" /\ call[k].r \in Request
      /\ UNCHANGED <<store, registered, published, reached, draft>>
  BY DEF IInv, CallSound, Saving, Relate, LockAll, Check, At, others
<1>2. Growing /\ StoreSound' /\ published' \subseteq registered'
  BY <1>1, Quiet
<1>3. CASE Relate(k)
  <2> DEFINE c == [call[k] EXCEPT !.ids = Related(call[k].r), !.at = "lock_all"]
  <2>1. Related(call[k].r) \in SUBSET EventSpec
    BY DEF Related
  <2>2. c \in CallRecord /\ c.op = "archive" /\ c.r = call[k].r /\ c.at = "lock_all"
    BY <1>1, <2>1 DEF CallRecord, Point
  <2>3. call' = [call EXCEPT ![k] = c]
    BY <1>3 DEF Relate
  <2> QED BY <1>1, <1>2, <2>2, <2>3, ArchiveGoes
<1>4. CASE LockAll(k)
  <2> DEFINE c == [call[k] EXCEPT !.locks = {call[k].r} \cup call[k].ids, !.at = "check"]
  <2>1. {call[k].r} \cup call[k].ids \in SUBSET Target
    BY <1>1, TargetsApart DEF CallRecord
  <2>2. c \in CallRecord /\ c.op = "archive" /\ c.r = call[k].r /\ c.at = "check"
    BY <1>1, <2>1 DEF CallRecord, Point
  <2>3. call' = [call EXCEPT ![k] = c]
    BY <1>4 DEF LockAll
  <2> QED BY <1>1, <1>2, <2>2, <2>3, ArchiveGoes
<1>5. CASE Check(k)
  <2>1. CASE Goto(k, "read")
    <3> DEFINE c == [call[k] EXCEPT !.at = "read"]
    <3>1. c \in CallRecord /\ c.op = "archive" /\ c.r = call[k].r /\ c.at = "read"
      BY <1>1 DEF CallRecord, Point
    <3> QED BY <1>1, <1>2, <2>1, <3>1, ArchiveGoes DEF Goto
  <2>2. CASE End(k, "failed")
    BY <1>1, <2>2, EndSound
  <2>3. CASE call' = [call EXCEPT ![k].locks = {}, ![k].attempt = @ + 1, ![k].at = "related"]
    <3> DEFINE c == [call[k] EXCEPT !.locks = {}, !.attempt = @ + 1, !.at = "related"]
    <3>1. call[k].attempt + 1 \in Nat /\ {} \in SUBSET Target /\ "related" \in Point
      BY <1>1 DEF CallRecord, Point
    <3>2. c \in CallRecord /\ c.op = "archive" /\ c.r = call[k].r /\ c.at = "related"
      BY <1>1, <3>1 DEF CallRecord
    <3>3. call' = [call EXCEPT ![k] = c]
      BY <2>3
    <3> QED BY <1>1, <1>2, <3>2, <3>3, ArchiveGoes
  <2> QED BY <1>5, <2>1, <2>2, <2>3 DEF Check
<1> QED BY <1>3, <1>4, <1>5

\* The archive plans changes of records as they are stored.
LEMMA OpenSound ==
  ASSUME NEW T \in SUBSET Target, IsFiniteSet(T), NEW ts \in Open(T)
  PROVE  ts \in Seq(T)
<1> DEFINE U == {t \in T : ~IsArchived(store[t])}
<1>1. Cardinality(U) \in Nat
  BY FS_Subset, FS_CardinalityType
<1>2. ts \in [1..Cardinality(U) -> U]
  BY DEF Open, SetToSeqs
<1>3. ts \in [1..Cardinality(U) -> T]
  BY <1>2
<1> HIDE DEF U
<1> QED BY <1>1, <1>3, SeqDef

LEMMA PlanSound ==
  ASSUME IInv, NEW r \in Request, store[r] # Absent, NEW plan \in Plans(r)
  PROVE  plan \in Seq(Change)
<1> DEFINE T == {t \in Target : store[t] # Absent}
<1>1. PICK rs \in Open({r}), ss \in Open(Related(r)) : plan = Changes(rs \o ss)
  BY DEF Plans
<1>2. {r} \in SUBSET T /\ Related(r) \in SUBSET T
  BY TargetsApart DEF Related
<1>3. IsFiniteSet({r}) /\ IsFiniteSet(Related(r))
  <2>1. Related(r) \in SUBSET EventSpec
    BY DEF Related
  <2> QED BY <2>1, FS_Singleton, FS_Subset, IntakeAssumption
<1>4. rs \in Seq(T) /\ ss \in Seq(T)
  <2>1. rs \in Seq({r}) /\ ss \in Seq(Related(r))
    BY <1>1, <1>2, <1>3, OpenSound
  <2> QED BY <1>2, <2>1, SeqMonotonic
<1> DEFINE ts == rs \o ss
<1>5. ts \in Seq(T)
  BY <1>4, ConcatProperties
<1> HIDE DEF ts
<1>6. \A t \in T : [target |-> t, before |-> store[t]] \in Change
  BY StoredRecord DEF Change
<1> HIDE DEF T
<1>7. Len(ts) \in Nat /\ ts \in [1..Len(ts) -> T]
  BY <1>5
<1>8. Changes(ts) \in [1..Len(ts) -> Change]
  BY <1>6, <1>7 DEF Changes
<1>9. Changes(ts) \in Seq(Change)
  BY <1>7, <1>8, SeqDef
<1> QED BY <1>1, <1>9 DEF ts

LEMMA ReadSound == ASSUME IInv, NEW k \in Calls, Read(k) PROVE IInv'
<1>1. /\ call[k] \in CallRecord /\ call[k].op = "archive" /\ call[k].r \in Request
      /\ UNCHANGED <<store, registered, published, reached, draft>>
  BY DEF IInv, CallSound, Saving, Read, At, others
<1>2. CASE End(k, "refused")
  BY <1>1, <1>2, EndSound
<1>3. CASE store[call[k].r] # Absent
  <2>1. PICK plan \in Plans(call[k].r) :
          call' = [call EXCEPT ![k].todo = plan,
                               ![k].at = IF plan = <<>> THEN "audit" ELSE "apply",
                               ![k].locks = IF plan = <<>> THEN {} ELSE @]
    BY <1>3 DEF Read
  <2> DEFINE point == IF plan = <<>> THEN "audit" ELSE "apply"
             held == IF plan = <<>> THEN {} ELSE call[k].locks
             c == [call[k] EXCEPT !.todo = plan, !.at = point, !.locks = held]
  <2>2. point \in Point /\ held \in SUBSET Target /\ plan \in Seq(Change)
    BY <1>1, <1>3, <2>1, PlanSound DEF Point, CallRecord
  <2>3. call' = [call EXCEPT ![k] = c]
    BY <2>1
  <2>4. /\ point \in {"audit", "apply"} /\ (point = "apply" => plan # <<>>)
    OBVIOUS
  <2> HIDE DEF point, held
  <2>5. /\ c \in CallRecord /\ c.op = "archive" /\ c.r = call[k].r /\ c.at = point /\ c.todo = plan
    BY <1>1, <2>2 DEF CallRecord
  <2> QED BY <1>1, <2>3, <2>4, <2>5, Quiet, ArchiveGoes
<1> QED BY <1>2, <1>3 DEF Read

\* A mark, set or taken back, leaves the body of the record.
LEMMA MarkedSound ==
  ASSUME NEW change \in Change, NEW k \in Calls
  PROVE  /\ Marked(change.before, k) \in Record
         /\ Sound(change.target, Marked(change.before, k))
         /\ Marked(change.before, k).body = change.before.body
BY DEF Change, Sound, Marked, Record, RequestRecord, SpecRecord, Calls

LEMMA ApplySound == ASSUME IInv, NEW k \in Calls, Apply(k) PROVE IInv'
<1> DEFINE todo == call[k].todo
           change == Head(todo)
<1>1. /\ call[k] \in CallRecord /\ call[k].op = "archive" /\ call[k].r \in Request
      /\ todo \in Seq(Change) /\ todo # <<>>
      /\ UNCHANGED <<registered, published, reached, draft>>
  BY DEF IInv, CallSound, Saving, Apply, At, CallRecord
<1>2. /\ change \in Change /\ Tail(todo) \in Seq(Change) /\ Len(Tail(todo)) = Len(todo) - 1
  BY <1>1, HeadTailProperties
<1>3. CASE /\ store[change.target] = change.before
           /\ store' = [store EXCEPT ![change.target] = Marked(change.before, k)]
  <2>1. Growing /\ StoreSound' /\ published' \subseteq registered'
    <3>1. change.target \in Target
      BY <1>2 DEF Change
    <3> HIDE DEF change
    <3> QED BY <1>1, <1>2, <1>3, <3>1, MarkedSound, MarkSound
  <2>2. CASE Applied(k)
    <3> DEFINE point == IF Len(todo) = 1 THEN "audit" ELSE "apply"
               held == IF Len(todo) = 1 THEN {} ELSE call[k].locks
               changed == Append(call[k].changed, change)
               rest == Tail(todo)
               c == [call[k] EXCEPT !.changed = changed, !.todo = rest, !.at = point, !.locks = held]
    <3>1. point \in Point /\ held \in SUBSET Target /\ point \in {"audit", "apply"}
      BY <1>1 DEF Point, CallRecord
    <3>2. changed \in Seq(Change)
      BY <1>1, <1>2, AppendProperties DEF CallRecord
    <3>3. point = "apply" => rest # <<>>
      <4>1. Len(<<>>) = 0
        OBVIOUS
      <4>2. rest = <<>> => Len(rest) = 0
        BY <4>1, Zenon
      <4>3. Len(todo) \in Nat
        BY <1>1
      <4> HIDE DEF todo
      <4> QED BY <1>2, <4>2, <4>3
    <3>4. call' = [call EXCEPT ![k] = c]
      BY <2>2 DEF Applied
    <3>5. rest \in Seq(Change)
      BY <1>2
    <3> HIDE DEF point, held, changed, rest
    <3>6. c \in CallRecord /\ c.op = "archive" /\ c.r = call[k].r /\ c.at = point /\ c.todo = rest
      BY <1>1, <3>1, <3>2, <3>5 DEF CallRecord
    <3> QED BY <1>1, <2>1, <3>1, <3>3, <3>4, <3>6, ArchiveGoes
  <2>3. CASE Goto(k, "undo")
    <3> DEFINE c == [call[k] EXCEPT !.at = "undo"]
    <3>1. c \in CallRecord /\ c.op = "archive" /\ c.r = call[k].r /\ c.at = "undo"
      BY <1>1 DEF CallRecord, Point
    <3>2. call' = [call EXCEPT ![k] = c]
      BY <2>3 DEF Goto
    <3> QED BY <1>1, <2>1, <3>1, <3>2, ArchiveGoes
  <2> QED BY <1>3, <2>2, <2>3 DEF Apply
<1>4. CASE store[change.target] # change.before
  <2> DEFINE c == [call[k] EXCEPT !.at = "undo"]
  <2>1. c \in CallRecord /\ c.op = "archive" /\ c.r = call[k].r /\ c.at = "undo"
    BY <1>1 DEF CallRecord, Point
  <2>2. call' = [call EXCEPT ![k] = c] /\ UNCHANGED store
    BY <1>4 DEF Goto, Apply
  <2> QED BY <1>1, <2>1, <2>2, Quiet, ArchiveGoes
<1> QED BY <1>3, <1>4 DEF Apply

LEMMA UndoSound == ASSUME IInv, NEW k \in Calls, Undo(k) PROVE IInv'
<1> DEFINE changed == call[k].changed
           change == Last(changed)
           c == [call[k] EXCEPT !.changed = Front(changed)]
<1>1. /\ call[k] \in CallRecord /\ call[k].at = "undo" /\ call[k].op = "archive"
      /\ call[k].r \in Request /\ changed \in Seq(Change)
      /\ UNCHANGED <<registered, published, reached, draft>>
  BY DEF IInv, CallSound, Saving, Undo, At, CallRecord, others
<1>2. CASE UNCHANGED store /\ End(k, "failed")
  BY <1>1, <1>2, EndSound
<1>3. CASE /\ changed # <<>> /\ store[change.target] = Marked(change.before, k)
           /\ store' = [store EXCEPT ![change.target] = change.before]
           /\ call' = [call EXCEPT ![k].changed = Front(@)]
  <2>1. change \in Change
    BY <1>1, <1>3, EmptySeq, ElementOfSeq DEF Last
  <2>2. Front(changed) \in Seq(Change)
    <3>1. Len(changed) \in Nat /\ \A i \in 1..(Len(changed) - 1) : changed[i] \in Change
      BY <1>1
    <3> QED BY <3>1, SubSeqProperties DEF Front
  <2>3. Growing /\ StoreSound' /\ published' \subseteq registered'
    <3>1. change.target \in Target /\ change.before \in Record /\ Sound(change.target, change.before)
      BY <2>1 DEF Change
    <3>2. change.before.body = store[change.target].body
      BY <1>3, <2>1, MarkedSound
    <3> HIDE DEF change
    <3> QED BY <1>1, <1>3, <3>1, <3>2, MarkSound
  <2>4. call' = [call EXCEPT ![k] = c]
    BY <1>3
  <2>5. c \in CallRecord /\ c.op = "archive" /\ c.r = call[k].r /\ c.at = "undo"
    BY <1>1, <2>2 DEF CallRecord
  <2> QED BY <1>1, <2>3, <2>4, <2>5, ArchiveGoes
<1> QED BY <1>2, <1>3 DEF Undo

-----------------------------------------------------------------------------
(* The end of a call, and every step *)

LEMMA DecideSound == ASSUME IInv, NEW k \in Calls, Decide(k) PROVE IInv'
<1> DEFINE c == [call[k] EXCEPT !.at = "audit"]
<1>1. /\ call[k] \in CallRecord /\ call[k].op \in {"approve", "reject"} /\ Answering(k, call[k])
      /\ call[k].at = "decide"
      /\ UNCHANGED <<store, registered, published, reached>>
      /\ call' = [call EXCEPT ![k] = c]
  BY DEF IInv, CallSound, Saving, Decide, Goto, At
<1>2. draft' = "approved" => 0 \in reached'
  BY <1>1 DEF Decide, Answering
<1>3. Growing /\ StoreSound' /\ published' \subseteq registered'
  BY <1>1, Quiet
<1>4. c \in CallRecord /\ c.at = "audit" /\ c.op = call[k].op
  BY <1>1 DEF CallRecord, Point
<1>5. call'[k] = c /\ call'[k] \in CallRecord'
  BY <1>1, <1>3, <1>4, RecordKept DEF IInv
<1>6. CallSound(k)'
  BY <1>1, <1>4, <1>5 DEF CallSound, Uploading, Saving, Answering, Sourcing
<1> QED BY <1>1, <1>2, <1>3, <1>6, OneCall

LEMMA AuditSound == ASSUME IInv, NEW k \in Calls, Audit(k) PROVE IInv'
<1>1. call[k].op = "patch" => k \in reached
  BY DEF Audit, At, IInv, CallSound, Answering
<1> QED BY <1>1, EndSound DEF Audit

LEMMA FailSound == ASSUME IInv, NEW k \in Calls, Fail(k) PROVE IInv'
<1>1. UNCHANGED <<store, registered, published, reached, draft>>
  BY DEF Fail, others
<1>2. CASE End(k, "failed")
  BY <1>1, <1>2, EndSound
<1>3. CASE At(k, "apply") /\ Goto(k, "undo")
  <2> DEFINE c == [call[k] EXCEPT !.at = "undo"]
  <2>1. call[k] \in CallRecord /\ call[k].op = "archive" /\ call[k].r \in Request
    BY <1>3 DEF IInv, CallSound, Saving, At
  <2>2. c \in CallRecord /\ c.op = "archive" /\ c.r = call[k].r /\ c.at = "undo"
    BY <2>1 DEF CallRecord, Point
  <2>3. call' = [call EXCEPT ![k] = c]
    BY <1>3 DEF Goto
  <2> QED BY <1>1, <2>1, <2>2, <2>3, Quiet, ArchiveGoes
<1> QED BY <1>2, <1>3 DEF Fail

LEMMA StutterSound == ASSUME IInv, UNCHANGED vars PROVE IInv'
<1>1. Growing /\ StoreSound' /\ published' \subseteq registered' /\ UNCHANGED <<call, reached, draft>>
  BY Quiet DEF vars
<1>2. \A k \in Calls : CallSound(k)'
  BY <1>1, OthersSound
<1>3. call' \in [Calls -> CallRecord']
  BY <1>1, <1>2 DEF IInv, CallSound
<1> QED BY <1>1, <1>2, <1>3 DEF IInv

LEMMA StepSound == IInv /\ [Next]_vars => IInv'
<1> SUFFICES ASSUME IInv, [Next]_vars PROVE IInv'
  OBVIOUS
<1>1. CASE UNCHANGED vars
  BY <1>1, StutterSound DEF vars
<1>2. CASE Next
  <2>1. PICK k \in Calls :
          \/ BeginUpload(k) \/ BeginForm(k) \/ BeginText(k) \/ BeginPut(k) \/ BeginPatch(k)
          \/ BeginArchive(k) \/ BeginDecision(k)
          \/ Serve(k) \/ Fail(k)
    BY <1>2 DEF Next
  <2>2. CASE Serve(k)
    BY <2>2, RegisterSound, PublishSound, LoadSound, InsertSound, SwapSound, GetSound, LockSound,
       ReplaceSound, InsertSpecSound, ObserveSound, InsertRequestSound, CheckRequestSound,
       RelateSound, ReadSound, ApplySound, UndoSound, DecideSound, AuditSound
    DEF Serve
  <2> QED BY <2>1, <2>2, BeginSound, FailSound
<1> QED BY <1>1, <1>2

\* In every state the stored records and the calls are what they are taken for, every change
\* that is counted as stored included.
THEOREM IntakeSound == Spec => []IInv
<1>1. Init => IInv
  BY InitSound
<1>2. IInv /\ [Next]_vars => IInv'
  BY StepSound
<1> QED BY <1>1, <1>2, PTL DEF Spec

\* A request that came with a document has it, announced by the audit log, wherever a call
\* of insertRegisteredSourceDocument and saveRecord was cut short.
THEOREM EvidenceIsKept == Spec => []EvidenceKept
<1>1. IInv => EvidenceKept
  BY TargetsApart DEF IInv, StoreSound, Sound, EvidenceKept
<1> QED BY <1>1, IntakeSound, PTL

\* What an operator was answered to have changed, and what an approved clarification draft
\* adds, has been stored in the spec.
THEOREM AnsweredIsReached == Spec => []AnsweredReached
<1>1. IInv => AnsweredReached
  BY DEF IInv, CallSound, Answering, At, AnsweredReached
<1> QED BY <1>1, IntakeSound, PTL

\* The end of a call, seen from any call.
LEMMA EndAt ==
  ASSUME IInv, NEW j \in Calls, NEW result, End(j, result), NEW k \in Calls
  PROVE  IF j = k THEN call'[k].at = result ELSE call'[k] = call[k]
BY DEF End, IInv, Idle

LEMMA GotoAt ==
  ASSUME IInv, NEW j \in Calls, NEW point, Goto(j, point), NEW k \in Calls
  PROVE  IF j = k THEN call'[k].at = point ELSE call'[k] = call[k]
<1>1. call \in [Calls -> CallRecord]
  BY DEF IInv
<1> QED BY <1>1 DEF Goto, CallRecord

\* The steps that may refuse a text source.
LEMMA RefusedBy ==
  ASSUME IInv, Next, NEW k \in Calls, call[k].op = "text", call[k].at # "refused",
         call'[k].at = "refused"
  PROVE  CheckRequest(k) \/ Observe(k)
<1>1. PICK j \in Calls :
        \/ BeginUpload(j) \/ BeginForm(j) \/ BeginText(j) \/ BeginPut(j) \/ BeginPatch(j)
        \/ BeginArchive(j) \/ BeginDecision(j)
        \/ Serve(j) \/ Fail(j)
  BY DEF Next
<1>2. /\ call[k] \in CallRecord /\ call \in [Calls -> CallRecord] /\ Saving(k, call[k])
      /\ Uploading(k, call[k]) /\ Sourcing(k, call[k])
  BY DEF IInv, CallSound
<1>3. CASE \/ BeginUpload(j) \/ BeginForm(j) \/ BeginText(j) \/ BeginPut(j) \/ BeginPatch(j)
           \/ BeginArchive(j) \/ BeginDecision(j)
  <2>1. CASE BeginUpload(j)
    BY <1>2, <2>1 DEF BeginUpload, Begin, Idle
  <2>2. CASE BeginForm(j)
    BY <1>2, <2>2 DEF BeginForm, Begin, Idle
  <2>3. CASE BeginText(j)
    BY <1>2, <2>3 DEF BeginText, Begin, Idle
  <2>4. CASE BeginPut(j)
    BY <1>2, <2>4 DEF BeginPut, Begin, Idle
  <2>5. CASE BeginPatch(j)
    BY <1>2, <2>5 DEF BeginPatch, Begin, Idle
  <2>6. CASE BeginArchive(j)
    BY <1>2, <2>6 DEF BeginArchive, Begin, Idle
  <2>7. CASE BeginDecision(j)
    BY <1>2, <2>7 DEF BeginDecision, Begin, Idle
  <2> QED BY <1>3, <2>1, <2>2, <2>3, <2>4, <2>5, <2>6, <2>7
<1>4. CASE Fail(j)
  <2>1. CASE End(j, "failed")
    BY <1>2, <2>1, EndAt
  <2>2. CASE Goto(j, "undo")
    BY <1>2, <2>2, GotoAt
  <2> QED BY <1>4, <2>1, <2>2 DEF Fail
<1>5. CASE Register(j) \/ Publish(j) \/ InsertRequest(j) \/ Decide(j)
  BY <1>2, <1>5, GotoAt DEF Register, Publish, InsertRequest, Decide
<1>6. CASE Lock(j) \/ Relate(j) \/ LockAll(j)
  <2>1. CASE j = k
    <3>1. CASE Lock(j)
      <4> DEFINE next == CASE call[j].op \in {"text", "put"} -> "insert_spec"
                           [] call[j].op = "approve" -> "replace"
                           [] OTHER -> "load"
      <4>1. next # "refused"
        OBVIOUS
      <4>2. call'[j].at = next
        BY <1>2, <3>1 DEF Lock, CallRecord
      <4> HIDE DEF next
      <4> QED BY <2>1, <4>1, <4>2
    <3>2. CASE Relate(j) \/ LockAll(j)
      BY <1>2, <2>1, <3>2 DEF Relate, LockAll, CallRecord
    <3> QED BY <1>6, <3>1, <3>2
  <2>2. CASE j # k
    BY <1>2, <1>6, <2>2 DEF Lock, Relate, LockAll
  <2> QED BY <2>1, <2>2
<1>7. CASE Load(j) \/ Insert(j) \/ Swap(j) \/ Get(j) \/ Replace(j)
  <2>1. CASE j = k
    BY <1>2, <1>7, <2>1 DEF Load, Insert, Swap, Get, Replace, At, Saving
  <2>2. CASE j # k
    BY <1>2, <1>7, <2>2, EndAt DEF Load, LoadOf, Insert, Swap, Get, Replace, Saved, Goto
  <2> QED BY <2>1, <2>2
<1>8. CASE Check(j) \/ Read(j) \/ Apply(j) \/ Undo(j)
  <2>1. CASE j = k
    BY <1>2, <1>8, <2>1 DEF Check, Read, Apply, Undo, At, Saving
  <2>2. CASE j # k
    BY <1>2, <1>8, <2>2, EndAt DEF Check, Read, Apply, Undo, Applied, Goto
  <2> QED BY <2>1, <2>2
<1>9. CASE Audit(j)
  BY <1>2, <1>9, EndAt DEF Audit
<1>10. CASE InsertSpec(j)
  <2>1. CASE End(j, "done")
    BY <1>2, <2>1, EndAt
  <2>2. CASE call' = [call EXCEPT ![j].locks = {}, ![j].at = "observe"]
    <3>1. CASE j = k
      BY <1>2, <2>2, <3>1 DEF CallRecord
    <3>2. CASE j # k
      BY <1>2, <2>2, <3>2
    <3> QED BY <3>1, <3>2
  <2> QED BY <1>10, <2>1, <2>2 DEF InsertSpec
<1>11. CASE CheckRequest(j) \/ Observe(j)
  <2>1. CASE j # k
    BY <1>2, <1>11, <2>1, EndAt DEF CheckRequest, Observe, Goto
  <2> QED BY <1>11, <2>1
<1> QED BY <1>1, <1>3, <1>4, <1>5, <1>6, <1>7, <1>8, <1>9, <1>10, <1>11 DEF Serve

\* A retried text source is refused only if something else than its text, or a change made
\* to it, is stored.
THEOREM RetryIsAccepted == Spec => RetryAccepted
<1> DEFINE Refused(k) == call[k].op = "text" /\ call[k].at # "refused" /\ call'[k].at = "refused"
           Differs(k) == LET r == call[k].r
                         IN \/ store[r] # Active(Body("text", call[k].text, store[r].body.stamp))
                            \/ store[OwnSpec[r]] # Active(Made(store[r].body))
<1>1. ASSUME IInv, [Next]_vars, NEW k \in Calls, Refused(k) PROVE Differs(k)
  <2>1. CheckRequest(k) \/ Observe(k)
    <3>1. Next
      BY <1>1 DEF vars
    <3> QED BY <1>1, <3>1, RefusedBy
  <2>2. CASE CheckRequest(k)
    <3>1. ~SameSource(store[call[k].r], k)
      BY <1>1, <2>2 DEF CheckRequest, IInv, CallRecord
    <3> QED BY <3>1 DEF SameSource, Body
  <2>3. CASE Observe(k)
    <3>1. store[call[k].s] # call[k].value
      BY <1>1, <2>3 DEF Observe, IInv, CallRecord, End, Goto
    <3>2. /\ call[k].r \in Request /\ call[k].s = OwnSpec[call[k].r]
          /\ call[k].value = Active(Made(call[k].value.body.of))
          /\ store[call[k].r].body.by = "text" => store[call[k].r].body = call[k].value.body.of
      BY <1>1, <2>3 DEF Observe, At, IInv, CallSound, Sourcing
    <3>3. CASE store[call[k].r] = Active(Body("text", call[k].text, store[call[k].r].body.stamp))
      <4>1. store[call[k].r].body.by = "text"
        BY <3>3 DEF Active, Body
      <4> QED BY <3>1, <3>2, <4>1
    <3> QED BY <3>3
  <2> QED BY <2>1, <2>2, <2>3
<1>2. IInv /\ [Next]_vars => [\A k \in Calls : Refused(k) => Differs(k)]_vars
  BY <1>1
<1> QED BY <1>2, IntakeSound, PTL DEF Spec, RetryAccepted
-----------------------------------------------------------------------------
(* The marks of archives *)

Touched(changes) == {changes[i].target : i \in DOMAIN changes}

\* An archive may set or take back marks; it may have set some.
Marking == {"apply", "undo"}
Late == Marking \cup {"audit", "done", "failed", "refused"}

\* The archive whose mark a record has: as long as it may take the mark back it has the lock
\* of the record, or had marked it without one, and it does not plan to mark it again.
MarkKnown(t, record) ==
  record # Absent /\ record.mark # 0 =>
    LET m == record.mark
    IN /\ m \in Calls /\ call[m].op = "archive" /\ call[m].at \in Late
       /\ call[m].at \in Marking => t \in call[m].locks \/ t \in bare
       /\ call[m].at = "apply" => t \notin Touched(call[m].todo)

\* Archived by a call that does not take it back any more.
Settled(t) == IsArchived(store[t]) /\ call[store[t].mark].at \notin Marking

\* The request of a finished archive is archived for good.
MarkBacked(s) ==
  IsArchived(store[s]) =>
    LET m == store[s].mark
    IN m \in torn \/ call[m].at \in Marking \/ Settled(call[m].r)

StoreMarks ==
  /\ \A t \in Target : MarkKnown(t, store[t])
  /\ \A r \in Request : IsArchived(store[r]) => call[store[r].mark].r = r
  /\ bare \subseteq EventSpec /\ shelved \subseteq Target
  /\ \A t \in shelved : t \in bare \/ Settled(t)
  /\ \A s \in EventSpec : MarkBacked(s)

LocksApart == \A j, k \in Calls : j # k => call[j].locks \cap call[k].locks = {}

\* A mark that a call may store with a spec is known, and what it replaces is not archived.
Carrying(c) ==
  /\ c.op \notin {"patch", "approve"} => c.value = Absent \/ c.value.mark = 0
  /\ c.op \in {"patch", "approve"} => MarkKnown(c.target, c.value) /\ MarkKnown(c.target, c.seen)
  /\ c.op = "approve" /\ c.at \in {"lock", "replace", "swap"} => c.seen # Absent
  /\ c.at = "swap" =>
       \/ c.seen.mark = 0
       \/ c.op = "approve" /\ (store[c.target] = Absent \/ store[c.target].mark # c.seen.mark)
  /\ c.at \in {"load", "insert", "swap", "replace"} /\ c.target \in EventSpec => c.target \in c.locks
  /\ c.at = "insert_spec" => c.s \in c.locks

\* What an archive has locked it has marked or will mark, or it is archived for good.
Holding(k, c) ==
  /\ c.op = "archive" => c.r \in Request /\ (c.at \notin Late => c.changed = <<>>)
  /\ c.at \in {"check", "read", "apply", "undo"} => c.locks = {c.r} \cup c.ids
  /\ c.at = "read" => c.ids \subseteq Related(c.r)
  /\ c.at = "apply" => \A t \in {c.r} \cup c.ids :
       \/ t \in Touched(c.todo) \/ t \in bare \/ Settled(t)
       \/ IsArchived(store[t]) /\ store[t].mark = k
  /\ c.at = "audit" /\ c.op = "archive" => \A t \in {c.r} \cup c.ids : t \in bare \/ Settled(t)

\* The request is planned first, and nothing twice.
Planning(c) ==
  c.at = "apply" =>
    /\ \A i \in DOMAIN c.todo : /\ c.todo[i].before.mark = 0
                                /\ c.todo[i].target \in EventSpec \/ c.todo[i].target = c.r
                                /\ c.todo[i].target = c.r => i = 1 /\ c.changed = <<>>
    /\ \A i, j \in DOMAIN c.todo : c.todo[i].target = c.todo[j].target => i = j

\* As long as there is anything to take back from a spec the request is archived.
Changing(k, c) ==
  c.at \in Marking =>
    /\ \A i \in DOMAIN c.changed : /\ c.changed[i].before.mark = 0
                                   /\ c.changed[i].target \in EventSpec \/ c.changed[i].target = c.r
                                   /\ c.changed[i].target = c.r => i = 1
    /\ k \notin torn =>
         \A s \in EventSpec : IsArchived(store[s]) /\ store[s].mark = k => s \in Touched(c.changed)
    /\ \/ Settled(c.r)
       \/ c.changed = <<>> /\ (c.at = "apply" => c.todo[1].target = c.r)
       \/ c.changed # <<>> /\ c.changed[1].target = c.r /\ IsArchived(store[c.r]) /\ store[c.r].mark = k

MarkCall(k) ==
  Carrying(call[k]) /\ Holding(k, call[k]) /\ Planning(call[k]) /\ Changing(k, call[k])

MarkInv == StoreMarks /\ LocksApart /\ \A k \in Calls : MarkCall(k)

-----------------------------------------------------------------------------
(* What a step of call k keeps *)

Apart(k) == \A j \in Calls \ {k} : call'[j] = call[j]

\* An archive does not begin again.
Going(k) ==
  call[k].op = "archive" /\ call[k].at \in Late =>
    /\ call'[k].op = "archive" /\ call'[k].r = call[k].r /\ call'[k].at \in Late
    /\ call'[k].at \in Marking => call[k].at \in Marking /\ call'[k].locks = call[k].locks
    /\ call'[k].at = "apply" =>
         call[k].at = "apply" /\ Touched(call'[k].todo) \subseteq Touched(call[k].todo)

\* An archived record changes only when its own archive takes the mark back.
Lasting(k) ==
  \A t \in Target :
    /\ store[t] # Absent => store'[t] # Absent
    /\ IsArchived(store[t]) /\ store'[t] # store[t] =>
         store[t].mark = k /\ call[k].at = "undo" /\ store'[t] = Active(store[t].body)

Keeps(k) == Apart(k) /\ Going(k) /\ Lasting(k) /\ bare \subseteq bare' /\ torn \subseteq torn'

\* A mark that is newly stored is that of archive k, which had planned it, or it comes with a
\* spec whose lock k has.
Setting(k) ==
  \A t \in Target : store'[t] # store[t] /\ IsArchived(store'[t]) =>
    /\ MarkKnown(t, store[t])'
    /\ t \in Request => call'[store'[t].mark].r = t
    /\ store'[t].mark \in torn' \/ store'[t].mark = k
    /\ \/ t \in EventSpec \cap call[k].locks
       \/ store'[t].mark = k /\ call[k].at = "apply" /\ t \in Touched(call[k].todo)

\* Where archive k ends no spec has its mark, or the request stays archived.
Leaving(k) ==
  call'[k].op = "archive" /\ call'[k].at \in Late \ Marking /\ k \notin torn' =>
    \/ Settled(call[k].r)'
    \/ \A s \in EventSpec : IsArchived(store'[s]) => store'[s].mark # k

Locking(k) ==
  \/ call'[k].locks \subseteq call[k].locks
  \/ \A j \in Calls \ {k} : call[j].locks \cap call'[k].locks = {}

LEMMA MarkKept ==
  ASSUME NEW k \in Calls, Keeps(k), NEW t, NEW record, MarkKnown(t, record)
  PROVE  MarkKnown(t, record)'
<1>1. CASE record.mark = k
  BY <1>1 DEF MarkKnown, Keeps, Going
<1>2. CASE record.mark # k
  BY <1>2 DEF MarkKnown, Keeps, Apart
<1> QED BY <1>1, <1>2

LEMMA SettledKept ==
  ASSUME NEW k \in Calls, Keeps(k), NEW t \in Target, MarkKnown(t, store[t]), Settled(t)
  PROVE  Settled(t)' /\ store'[t] = store[t]
<1>1. store'[t] = store[t]
  BY DEF Keeps, Lasting, Settled, Marking
<1>2. store[t] # Absent /\ store[t].mark # 0
  BY DEF Settled, IsArchived
<1>3. CASE store[t].mark = k
  BY <1>1, <1>2, <1>3 DEF Settled, MarkKnown, Keeps, Going, IsArchived
<1>4. CASE store[t].mark # k
  BY <1>1, <1>2, <1>4 DEF Settled, MarkKnown, Keeps, Apart, IsArchived
<1> QED BY <1>1, <1>3, <1>4

\* A call that takes no part in a step.
LEMMA OthersMarked ==
  ASSUME IInv, MarkInv, NEW k \in Calls, Keeps(k), Setting(k), NEW j \in Calls, j # k
  PROVE  MarkCall(j)'
<1>1. /\ call'[j] = call[j] /\ call[j] \in CallRecord /\ MarkCall(j)
      /\ \A t \in Target : MarkKnown(t, store[t])
  BY DEF Keeps, Apart, IInv, MarkInv, StoreMarks
<1>2. \A t \in Target : Settled(t) => Settled(t)' /\ store'[t] = store[t]
  BY <1>1, SettledKept
<1>3. Carrying(call[j])'
  <2> DEFINE c == call[j]
  <2>1. c.op \in {"patch", "approve"} => MarkKnown(c.target, c.value)' /\ MarkKnown(c.target, c.seen)'
    <3> HIDE DEF c
    <3>1. c.op \in {"patch", "approve"} => MarkKnown(c.target, c.value) /\ MarkKnown(c.target, c.seen)
      BY <1>1 DEF MarkCall, Carrying, c
    <3> QED BY <1>1, <3>1, MarkKept DEF c
  <2>2. ASSUME c.at = "swap", c.seen.mark # 0
        PROVE  c.op = "approve" /\ (store'[c.target] = Absent \/ store'[c.target].mark # c.seen.mark)
    <3>1. /\ c.op = "approve" /\ c.target \in EventSpec /\ c.target \in c.locks /\ c.seen # Absent
          /\ store[c.target] = Absent \/ store[c.target].mark # c.seen.mark
          /\ MarkKnown(c.target, c.seen)
      BY <1>1, <2>2 DEF MarkCall, Carrying, IInv, CallSound, Saving, Answering
    <3>2. SUFFICES ASSUME store'[c.target] # Absent, store'[c.target].mark = c.seen.mark PROVE FALSE
      BY <3>1
    <3>3. c.target \in Target /\ store'[c.target] # store[c.target] /\ IsArchived(store'[c.target])
      BY <2>2, <3>1, <3>2, TargetsApart DEF IsArchived
    <3>4. c.target \notin call[k].locks
      BY <3>1 DEF MarkInv, LocksApart
    <3>5. c.seen.mark = k /\ call[k].at = "apply" /\ c.target \in Touched(call[k].todo)
      BY <3>2, <3>3, <3>4 DEF Setting
    <3> QED BY <2>2, <3>1, <3>5 DEF MarkKnown
  <2> QED BY <1>1, <2>1, <2>2 DEF MarkCall, Carrying
<1>4. Holding(j, call[j])'
  <2> DEFINE c == call[j]
  <2>1. c.at = "read" => c.ids \subseteq Related(c.r)'
    <3>1. Target = Request \cup EventSpec /\ \A t \in Target : store[t] # Absent => store'[t] # Absent
      BY DEF Target, Keeps, Lasting
    <3>2. c.at = "read" => c.r \in Request /\ c.ids \subseteq Related(c.r)
      <4>1. CallSound(j)
        BY DEF IInv
      <4> QED BY <1>1, <4>1 DEF MarkCall, Holding, CallSound, Saving
    <3> QED BY <1>1, <3>1, <3>2 DEF Related
  <2>2. c.op = "archive" => c.r \in Request /\ {c.r} \cup c.ids \subseteq Target
    BY <1>1, TargetsApart DEF CallRecord, MarkCall, Holding
  <2>3. c.at = "apply" => c.op = "archive"
    BY <1>1 DEF IInv, CallSound, Saving
  <2>4. ASSUME c.at = "apply", NEW t \in {c.r} \cup c.ids
        PROVE  \/ t \in Touched(c.todo) \/ t \in bare' \/ Settled(t)'
               \/ IsArchived(store'[t]) /\ store'[t].mark = j
    <3>1. \/ t \in Touched(c.todo) \/ t \in bare \/ Settled(t)
          \/ IsArchived(store[t]) /\ store[t].mark = j
      BY <1>1, <2>4 DEF MarkCall, Holding
    <3>2. t \in Target
      BY <2>2, <2>3, <2>4
    <3> QED BY <1>2, <3>1, <3>2 DEF Keeps, Lasting
  <2>5. ASSUME c.at = "audit", c.op = "archive", NEW t \in {c.r} \cup c.ids
        PROVE  t \in bare' \/ Settled(t)'
    BY <1>1, <1>2, <2>2, <2>5 DEF MarkCall, Holding, Keeps
  <2>6. c.at \in {"check", "read", "apply", "undo"} => c.locks = {c.r} \cup c.ids
    BY <1>1 DEF MarkCall, Holding
  <2>7. c.op = "archive" /\ c.at \notin Late => c.changed = <<>>
    BY <1>1 DEF MarkCall, Holding
  <2> HIDE DEF c
  <2> QED BY <2>1, <2>2, <2>4, <2>5, <2>6, <2>7, <1>1 DEF Holding, Touched, c
<1>5. Planning(call[j])'
  BY <1>1 DEF MarkCall, Planning
<1>6. Changing(j, call[j])'
  <2> DEFINE c == call[j]
  <2> SUFFICES ASSUME c.at \in Marking PROVE Changing(j, c)'
    BY <1>1 DEF Changing
  <2>1. Changing(j, c) /\ c.r \in Request /\ c.r \in Target
    BY <1>1, TargetsApart DEF MarkCall, IInv, CallSound, Saving, Marking
  <2>2. ASSUME j \notin torn', NEW s \in EventSpec, IsArchived(store'[s]), store'[s].mark = j
        PROVE  s \in Touched(c.changed)
    <3>1. store'[s] = store[s]
      BY <2>2, TargetsApart DEF Setting
    <3> QED BY <2>1, <2>2, <3>1 DEF Changing, Keeps
  <2>3. \/ Settled(c.r)'
        \/ c.changed = <<>> /\ (c.at = "apply" => c.todo[1].target = c.r)
        \/ /\ c.changed # <<>> /\ c.changed[1].target = c.r
           /\ IsArchived(store'[c.r]) /\ store'[c.r].mark = j
    <3>1. CASE Settled(c.r)
      BY <1>1, <1>2, <2>1, <3>1
    <3>2. CASE c.changed = <<>> /\ (c.at = "apply" => c.todo[1].target = c.r)
      BY <3>2
    <3>3. CASE /\ c.changed # <<>> /\ c.changed[1].target = c.r
               /\ IsArchived(store[c.r]) /\ store[c.r].mark = j
      <4>1. store'[c.r] = store[c.r]
        BY <2>1, <3>3 DEF Keeps, Lasting
      <4> QED BY <3>3, <4>1
    <3> QED BY <2>1, <3>1, <3>2, <3>3 DEF Changing
  <2>4. \A i \in DOMAIN c.changed : /\ c.changed[i].before.mark = 0
                                    /\ c.changed[i].target \in EventSpec \/ c.changed[i].target = c.r
                                    /\ c.changed[i].target = c.r => i = 1
    BY <2>1 DEF Changing
  <2> HIDE DEF c
  <2> QED BY <1>1, <2>2, <2>3, <2>4 DEF Changing, Touched, c
<1> QED BY <1>1, <1>3, <1>4, <1>5, <1>6 DEF MarkCall

\* The marks after a step of call k, from what the step is to be shown to do.
LEMMA OneArchive ==
  ASSUME IInv, MarkInv, NEW k \in Calls, Keeps(k), Setting(k), Leaving(k), Locking(k),
         MarkCall(k)', bare' \subseteq EventSpec,
         \A t \in shelved' \ shelved : t \in Target /\ (t \in bare' \/ Settled(t)')
  PROVE  MarkInv'
<1>1. \A j \in Calls : MarkCall(j)'
  BY OthersMarked
<1>2. \A t \in Target : Settled(t) => Settled(t)' /\ store'[t] = store[t]
  BY SettledKept DEF MarkInv, StoreMarks
<1>3. ASSUME NEW t \in Target PROVE MarkKnown(t, store[t])'
  <2>1. CASE store'[t] = store[t]
    BY <2>1, MarkKept DEF MarkInv, StoreMarks, MarkKnown
  <2>2. CASE store'[t] # store[t]
    BY <2>2 DEF Setting, MarkKnown, IsArchived
  <2> QED BY <2>1, <2>2
<1>4. ASSUME NEW r \in Request, IsArchived(store'[r]) PROVE call'[store'[r].mark].r = r
  <2>1. CASE store'[r] = store[r]
    <3>1. call[store[r].mark].r = r /\ MarkKnown(r, store[r])
      BY <1>4, <2>1, TargetsApart DEF MarkInv, StoreMarks
    <3> QED BY <1>4, <2>1, <3>1 DEF Keeps, Apart, Going, MarkKnown, IsArchived
  <2>2. CASE store'[r] # store[r]
    BY <1>4, <2>2, TargetsApart DEF Setting
  <2> QED BY <2>1, <2>2
<1>5. ASSUME NEW t \in shelved' PROVE t \in bare' \/ Settled(t)'
  BY <1>2 DEF MarkInv, StoreMarks, Keeps
<1>6. ASSUME NEW s \in EventSpec PROVE MarkBacked(s)'
  <2> SUFFICES ASSUME IsArchived(store[s])' PROVE MarkBacked(s)'
    BY DEF MarkBacked
  <2> DEFINE m == store'[s].mark
  <2>1. MarkKnown(s, store[s])' /\ m # 0
    BY <1>3, <1>6, TargetsApart DEF IsArchived
  <2>2. CASE m = k
    <3>1. /\ call'[k].op = "archive" /\ call'[k].at \in Late
          /\ store'[s].mark = k /\ IsArchived(store'[s])
      BY <2>1, <2>2 DEF MarkKnown, IsArchived
    <3>2. k \in torn' \/ call'[k].at \in Marking \/ Settled(call[k].r)'
      BY <3>1 DEF Leaving
    <3> QED BY <2>2, <3>2 DEF MarkBacked
  <2>3. CASE m # k /\ store'[s] # store[s]
    BY <2>3, TargetsApart DEF Setting, MarkBacked
  <2>4. CASE m # k /\ store'[s] = store[s]
    <3>1. m \in Calls /\ call'[m] = call[m]
      BY <1>6, <2>1, <2>4 DEF MarkKnown, Keeps, Apart, IsArchived
    <3>2. m \in torn \/ call[m].at \in Marking \/ Settled(call[m].r)
      BY <1>6, <2>4 DEF MarkInv, StoreMarks, MarkBacked
    <3>3. call[m].op = "archive"
      BY <1>6, <2>4, TargetsApart DEF MarkInv, StoreMarks, MarkKnown, IsArchived
    <3>4. call[m].r \in Target
      BY <3>1, <3>3, TargetsApart DEF MarkInv, MarkCall, Holding
    <3> QED BY <1>2, <2>4, <3>1, <3>2, <3>4 DEF Keeps, MarkBacked
  <2> QED BY <2>2, <2>3, <2>4
<1>7. LocksApart'
  BY DEF MarkInv, LocksApart, Keeps, Apart, Locking
<1>8. bare' \subseteq EventSpec /\ shelved' \subseteq Target
  BY DEF MarkInv, StoreMarks
<1> QED BY <1>1, <1>3, <1>4, <1>5, <1>6, <1>7, <1>8 DEF MarkInv, StoreMarks

-----------------------------------------------------------------------------
(* Steps of calls that are no archives *)

LEMMA QuietMarks ==
  ASSUME NEW k, UNCHANGED <<store, torn, bare>>
  PROVE  Lasting(k) /\ Setting(k) /\ bare \subseteq bare' /\ torn \subseteq torn'
BY DEF Lasting, Setting

\* A step of a call that is no archive, from what the step is to be shown to do.
LEMMA PlainStep ==
  ASSUME IInv, MarkInv, NEW k \in Calls, NEW c \in CallRecord, call' = [call EXCEPT ![k] = c],
         call[k].op # "archive" \/ call[k].at \notin Late, c.op # "archive",
         c.at \notin {"check", "read", "apply", "undo"},
         Lasting(k), Setting(k), torn \subseteq torn', UNCHANGED <<bare, shelved>>,
         c.locks \subseteq call[k].locks \/ Free(k, c.locks),
         Carrying(call[k])'
  PROVE  MarkInv'
<1>1. call'[k] = c /\ Apart(k) /\ Going(k) /\ Leaving(k) /\ Locking(k)
  BY DEF IInv, Apart, Going, Leaving, Locking, Free
<1>2. Keeps(k)
  BY <1>1 DEF Keeps
<1>3. MarkCall(k)'
  BY <1>1 DEF MarkCall, Holding, Planning, Changing, Marking
<1>4. bare' \subseteq EventSpec
  BY DEF MarkInv, StoreMarks
<1> QED BY <1>1, <1>2, <1>3, <1>4, OneArchive

LEMMA PlainQuiet ==
  ASSUME IInv, MarkInv, NEW k \in Calls, NEW c \in CallRecord, call' = [call EXCEPT ![k] = c],
         call[k].op # "archive" \/ call[k].at \notin Late, c.op # "archive",
         c.at \notin {"check", "read", "apply", "undo"},
         UNCHANGED <<store, torn, bare, shelved>>,
         c.locks \subseteq call[k].locks \/ Free(k, c.locks),
         Carrying(c)
  PROVE  MarkInv'
<1>1. call'[k] = c /\ Apart(k) /\ Going(k)
  BY DEF IInv, Apart, Going
<1>2. Lasting(k) /\ Setting(k) /\ Keeps(k) /\ torn \subseteq torn'
  BY <1>1, QuietMarks DEF Keeps
<1>3. c.op \in {"patch", "approve"} => MarkKnown(c.target, c.value)' /\ MarkKnown(c.target, c.seen)'
  BY <1>2, MarkKept DEF Carrying
<1>4. Carrying(call[k])'
  BY <1>1, <1>3 DEF Carrying
<1> QED BY <1>2, <1>4, PlainStep

\* The end of a call: an archive leaves no mark whose request is not archived.
LEMMA EndFacts ==
  ASSUME IInv, NEW k \in Calls, NEW result, End(k, result)
  PROVE  /\ Apart(k)
         /\ call'[k].at = result /\ call'[k].locks = {}
         /\ call'[k].value = Absent /\ call'[k].seen = Absent
         /\ call[k].op = "archive" => call'[k].op = "archive" /\ call'[k].r = call[k].r
         /\ call'[k].op = "archive" => call[k].op = "archive"
BY DEF End, IInv, Idle, Apart

LEMMA EndLeaves ==
  ASSUME IInv, MarkInv, NEW k \in Calls, NEW result \in {"done", "refused", "failed"},
         End(k, result), UNCHANGED <<store, torn>>
  PROVE  Leaving(k)
<1> SUFFICES ASSUME call[k].op = "archive", k \notin torn,
                    NEW s \in EventSpec, IsArchived(store[s]), store[s].mark = k
             PROVE  Settled(call[k].r)'
  BY EndFacts DEF Leaving
<1>1. call[k].at \in Late /\ call[k].r \in Request
  BY TargetsApart DEF MarkInv, StoreMarks, MarkKnown, IsArchived, MarkCall, Holding
<1>2. call'[k].r = call[k].r /\ call'[k].at \notin Marking /\ Apart(k)
  BY EndFacts DEF Marking
<1>3. Settled(call[k].r) => Settled(call[k].r)'
  BY <1>1, <1>2, TargetsApart DEF Settled, Apart, MarkInv, StoreMarks, MarkKnown, IsArchived
<1>4. CASE call[k].at \in Marking
  <2>1. Changing(k, call[k])
    BY DEF MarkInv, MarkCall
  <2>2. call[k].changed # <<>>
    BY <1>4, <2>1 DEF Changing, Touched
  <2>3. CASE IsArchived(store[call[k].r]) /\ store[call[k].r].mark = k
    BY <1>2, <2>3 DEF Settled
  <2> QED BY <1>3, <1>4, <2>1, <2>2, <2>3 DEF Changing
<1>5. CASE call[k].at \notin Marking
  BY <1>3, <1>5 DEF MarkInv, StoreMarks, MarkBacked
<1> QED BY <1>4, <1>5

LEMMA EndMarks ==
  ASSUME IInv, MarkInv, NEW k \in Calls, NEW result \in {"done", "refused", "failed"},
         End(k, result), UNCHANGED <<store, torn, bare>>,
         \A t \in shelved' \ shelved : t \in Target /\ (t \in bare \/ Settled(t))
  PROVE  MarkInv'
<1>1. Apart(k) /\ Going(k) /\ Locking(k)
  BY EndFacts DEF Going, Locking, Late, Marking
<1>2. Keeps(k) /\ Setting(k)
  BY <1>1, QuietMarks DEF Keeps
<1>3. MarkCall(k)'
  <2>1. /\ call'[k].at \in {"done", "refused", "failed"} /\ call'[k].at \in Late
        /\ call'[k].value = Absent /\ call'[k].seen = Absent
        /\ call'[k].op = "archive" => call'[k].r \in Request
    BY EndFacts DEF MarkInv, MarkCall, Holding, Late
  <2> QED BY <2>1 DEF MarkCall, Carrying, Holding, Planning, Changing, Marking, MarkKnown
<1>4. \A t \in shelved' \ shelved : t \in Target /\ (t \in bare' \/ Settled(t)')
  BY <1>2, SettledKept DEF MarkInv, StoreMarks
<1> QED BY <1>1, <1>2, <1>3, <1>4, EndLeaves, OneArchive DEF MarkInv, StoreMarks

\* A call as it begins.
Questioned(q) ==
  /\ q.at \in {"register", "load", "insert_request", "get", "related", "decide"}
  /\ q.value = Absent \/ q.value.mark = 0
  /\ q.seen = Absent /\ q.locks = {}
  /\ q.op \in {"patch", "approve"} => q.value = Absent
  /\ q.at = "load" => q.target \in Request
  /\ q.op = "archive" => q.r \in Request /\ q.changed = <<>>

LEMMA AskMarks ==
  ASSUME IInv, MarkInv, NEW k \in Calls, NEW q, Begin(k, q), Questioned(q)
  PROVE  MarkInv'
<1>1. /\ UNCHANGED <<store, torn, bare, shelved>> /\ call[k].at = "idle" /\ call'[k] = q /\ Apart(k)
  BY DEF Begin, others, At, IInv, Apart
<1>2. Going(k) /\ Leaving(k) /\ Locking(k)
  BY <1>1 DEF Going, Leaving, Locking, Late, Marking, Questioned
<1>3. Keeps(k) /\ Setting(k)
  BY <1>1, <1>2, QuietMarks DEF Keeps
<1>4. MarkCall(k)'
  BY <1>1, TargetsApart DEF MarkCall, Carrying, Holding, Planning, Changing, Marking, MarkKnown, Questioned
<1> QED BY <1>1, <1>2, <1>3, <1>4, OneArchive DEF MarkInv, StoreMarks

LEMMA BeginMarks ==
  ASSUME IInv, MarkInv, NEW k \in Calls,
         \/ BeginUpload(k) \/ BeginForm(k) \/ BeginText(k) \/ BeginPut(k) \/ BeginPatch(k)
         \/ BeginArchive(k) \/ BeginDecision(k)
  PROVE  MarkInv'
<1>0. /\ \A op \in {"upload", "form", "text", "archive"} : Named[op] \subseteq Request
      /\ \A op \in {"put", "patch"} : Named[op] \subseteq EventSpec
  BY IntakeAssumption
<1>1. CASE BeginUpload(k)
  <2>1. PICK r \in Request, c \in Text :
          Begin(k, [Idle EXCEPT !.op = "upload", !.at = "register", !.r = r, !.s = OwnSpec[r], !.text = c,
                          !.target = r, !.value = Active(Body("upload", c, k))])
    BY <1>0, <1>1, Zenon DEF BeginUpload
  <2> DEFINE q == [Idle EXCEPT !.op = "upload", !.at = "register", !.r = r, !.s = OwnSpec[r], !.text = c,
                          !.target = r, !.value = Active(Body("upload", c, k))]
  <2>2. Begin(k, q)
    BY <2>1
  <2>3. Questioned(q)
    BY TargetsApart DEF Questioned, Idle, Active
  <2> QED BY <2>2, <2>3, AskMarks
<1>2. CASE BeginForm(k)
  <2>1. PICK r \in Request, c \in Text :
          Begin(k, [Idle EXCEPT !.op = "form", !.at = "load", !.r = r, !.s = OwnSpec[r], !.text = c,
                          !.target = r, !.value = Active(Body("form", c, 0))])
    BY <1>0, <1>2, Zenon DEF BeginForm
  <2> DEFINE q == [Idle EXCEPT !.op = "form", !.at = "load", !.r = r, !.s = OwnSpec[r], !.text = c,
                          !.target = r, !.value = Active(Body("form", c, 0))]
  <2>2. Begin(k, q)
    BY <2>1
  <2>3. Questioned(q)
    BY TargetsApart DEF Questioned, Idle, Active
  <2> QED BY <2>2, <2>3, AskMarks
<1>3. CASE BeginText(k)
  <2>1. PICK r \in Request, c \in Text :
          Begin(k, [Idle EXCEPT !.op = "text", !.at = "insert_request", !.r = r, !.s = OwnSpec[r], !.text = c,
                          !.value = Active(Body("text", c, k))])
    BY <1>0, <1>3, Zenon DEF BeginText
  <2> DEFINE q == [Idle EXCEPT !.op = "text", !.at = "insert_request", !.r = r, !.s = OwnSpec[r], !.text = c,
                          !.value = Active(Body("text", c, k))]
  <2>2. Begin(k, q)
    BY <2>1
  <2>3. Questioned(q)
    BY TargetsApart DEF Questioned, Idle, Active
  <2> QED BY <2>2, <2>3, AskMarks
<1>4. CASE BeginPut(k)
  <2>1. PICK s \in EventSpec, c \in Text :
          Begin(k, [Idle EXCEPT !.op = "put", !.at = "get", !.s = s, !.text = c, !.target = s,
                          !.value = Active(Made(Body("form", c, 0)))])
    BY <1>0, <1>4, Zenon DEF BeginPut
  <2> DEFINE q == [Idle EXCEPT !.op = "put", !.at = "get", !.s = s, !.text = c, !.target = s,
                          !.value = Active(Made(Body("form", c, 0)))]
  <2>2. Begin(k, q)
    BY <2>1
  <2>3. Questioned(q)
    BY TargetsApart DEF Questioned, Idle, Active
  <2> QED BY <2>2, <2>3, AskMarks
<1>5. CASE BeginPatch(k)
  <2>1. PICK s \in EventSpec :
          Begin(k, [Idle EXCEPT !.op = "patch", !.at = "get", !.s = s, !.target = s])
    BY <1>0, <1>5, Zenon DEF BeginPatch
  <2> DEFINE q == [Idle EXCEPT !.op = "patch", !.at = "get", !.s = s, !.target = s]
  <2>2. Begin(k, q)
    BY <2>1
  <2>3. Questioned(q)
    BY TargetsApart DEF Questioned, Idle, Active
  <2> QED BY <2>2, <2>3, AskMarks
<1>6. CASE BeginArchive(k)
  <2>1. PICK r \in Request :
          Begin(k, [Idle EXCEPT !.op = "archive", !.at = "related", !.r = r])
    BY <1>0, <1>6, Zenon DEF BeginArchive
  <2> DEFINE q == [Idle EXCEPT !.op = "archive", !.at = "related", !.r = r]
  <2>2. Begin(k, q)
    BY <2>1
  <2>3. Questioned(q)
    BY TargetsApart DEF Questioned, Idle, Active
  <2> QED BY <2>2, <2>3, AskMarks
<1>7. CASE BeginDecision(k)
  <2> DEFINE asked == [Idle EXCEPT !.op = "approve", !.at = "get", !.s = Asked, !.target = Asked]
             refused == [Idle EXCEPT !.op = "reject", !.at = "decide", !.s = Asked]
  <2>1. Begin(k, asked) \/ Begin(k, refused)
    BY <1>7 DEF BeginDecision
  <2>2. Questioned(asked) /\ Questioned(refused)
    BY DEF Questioned, Idle
  <2> QED BY <2>1, <2>2, AskMarks
<1> QED BY <1>1, <1>2, <1>3, <1>4, <1>5, <1>6, <1>7

\* A step of a call that is no archive and goes on with what it has.
LEMMA GotoMarks ==
  ASSUME IInv, MarkInv, NEW k \in Calls, NEW point \in Point, Goto(k, point),
         UNCHANGED <<store, torn, bare, shelved>>, call[k].op # "archive",
         point \in {"publish", "load", "insert", "lock", "check_request", "decide", "audit"},
         point = "lock" => call[k].op # "approve",
         point \in {"load", "insert"} => call[k].target \in Request \/ call[k].at = "load"
  PROVE  MarkInv'
<1> DEFINE c == [call[k] EXCEPT !.at = point]
<1>1. call' = [call EXCEPT ![k] = c] /\ call[k] \in CallRecord
  BY DEF Goto, IInv
<1>2. /\ c \in CallRecord /\ c.op = call[k].op /\ c.locks = call[k].locks /\ c.at = point
      /\ c.value = call[k].value /\ c.seen = call[k].seen /\ c.target = call[k].target
  BY <1>1 DEF CallRecord
<1>3. Carrying(call[k])
  BY DEF MarkInv, MarkCall
<1>4. Carrying(c)
  <2> HIDE DEF c
  <2> QED BY <1>2, <1>3, TargetsApart DEF Carrying
<1>5. c.at \notin {"check", "read", "apply", "undo"}
  BY <1>2
<1> HIDE DEF c
<1> QED BY <1>1, <1>2, <1>4, <1>5, PlainQuiet

LEMMA RegisterMarks ==
  ASSUME IInv, MarkInv, NEW k \in Calls, Register(k) \/ Publish(k) PROVE MarkInv'
<1>1. call[k].op # "archive" /\ call[k].target \in Request
  BY DEF IInv, CallSound, Uploading, Register, Publish, At
<1>2. UNCHANGED <<store, torn, bare, shelved>>
  BY DEF Register, Publish
<1>3. PICK point \in {"publish", "load"} : Goto(k, point)
  BY DEF Register, Publish
<1>4. point \in Point
  BY DEF Point
<1> QED BY <1>1, <1>2, <1>3, <1>4, GotoMarks

\* A record that is saved gives way to the next step.
LEMMA SavedFacts ==
  ASSUME IInv, NEW k \in Calls, Saved(k), call[k].target \in Target
  PROVE  /\ Apart(k)
         /\ call'[k].op = call[k].op /\ call'[k].seen = Absent
         /\ call[k].target \in Request =>
              call'[k].locks = call[k].locks /\ call'[k].value.mark = 0 /\ call'[k].at = "lock"
         /\ call[k].target \in EventSpec =>
              /\ call'[k].locks = {} /\ call'[k].value = call[k].value
              /\ call'[k].target = call[k].target /\ call'[k].at \in {"decide", "audit"}
<1>1. call[k] \in CallRecord /\ call \in [Calls -> CallRecord]
  BY DEF IInv
<1>2. CASE call[k].target \in Request
  BY <1>1, <1>2, TargetsApart DEF Saved, Active, Apart, CallRecord
<1>3. CASE call[k].target \in EventSpec
  BY <1>1, <1>3, TargetsApart DEF Saved, Apart, CallRecord
<1> QED BY <1>2, <1>3 DEF Target

LEMMA SavedMarks ==
  ASSUME IInv, MarkInv, NEW k \in Calls, Saved(k), UNCHANGED <<bare, shelved>>,
         Lasting(k), Setting(k), torn \subseteq torn',
         call[k].target \in Target, call[k].op \in {"upload", "form", "patch", "approve"},
         call[k].target \in Request => call[k].op \in {"upload", "form"}
  PROVE  MarkInv'
<1>1. /\ Apart(k) /\ Locking(k) /\ Going(k) /\ Leaving(k)
  BY SavedFacts, TargetsApart DEF Locking, Going, Leaving, Target
<1>2. Keeps(k)
  BY <1>1 DEF Keeps
<1>3. MarkCall(k)'
  <2>1. /\ call'[k].op = call[k].op /\ call'[k].seen = Absent
        /\ call'[k].at \in {"lock", "decide", "audit"}
        /\ call'[k].op = "approve" => call'[k].at # "lock"
    BY SavedFacts DEF Target
  <2>2. call[k].target \in EventSpec =>
          call'[k].value = call[k].value /\ call'[k].target = call[k].target
    BY SavedFacts
  <2>3. call[k].target \in Request => call'[k].value.mark = 0
    BY SavedFacts
  <2>4. Carrying(call[k])
    BY DEF MarkInv, MarkCall
  <2>5. call[k].op \in {"patch", "approve"} => MarkKnown(call[k].target, call[k].value)'
    <3>1. call[k].op \in {"patch", "approve"} => MarkKnown(call[k].target, call[k].value)
      BY <2>4 DEF Carrying
    <3>2. SUFFICES ASSUME call[k].op \in {"patch", "approve"} PROVE MarkKnown(call[k].target, call[k].value)'
      OBVIOUS
    <3>3. call'[k].value = call[k].value /\ call'[k].target = call[k].target
      BY <2>2, <3>2 DEF Target
    <3> QED BY <1>2, <3>1, <3>2, <3>3, MarkKept
  <2>6. Carrying(call[k])'
    BY <2>1, <2>2, <2>3, <2>4, <2>5 DEF Carrying, MarkKnown, Target
  <2> QED BY <2>1, <2>6 DEF MarkCall, Holding, Planning, Changing, Marking
<1>4. bare' \subseteq EventSpec
  BY DEF MarkInv, StoreMarks
<1> QED BY <1>1, <1>2, <1>3, <1>4, OneArchive

LEMMA LoadMarks == ASSUME IInv, MarkInv, NEW k \in Calls, Load(k) PROVE MarkInv'
<1> DEFINE existing == store[call[k].target]
<1>1. /\ call[k].at = "load" /\ call[k] \in CallRecord /\ call[k].target \in Target
      /\ call[k].op \in {"upload", "form", "patch"}
      /\ call[k].target \in Request => call[k].op \in {"upload", "form"}
      /\ Carrying(call[k])
      /\ UNCHANGED <<store, torn, bare, shelved>>
  BY DEF IInv, CallSound, Saving, Load, At, MarkInv, MarkCall, others
<1>2. CASE Goto(k, "insert")
  BY <1>1, <1>2, GotoMarks DEF Point
<1>3. CASE End(k, "refused")
  BY <1>1, <1>3, EndMarks
<1>4. CASE Saved(k)
  BY <1>1, <1>4, SavedMarks, QuietMarks
<1>5. CASE /\ existing # Absent /\ ~IsArchived(existing)
           /\ call' = [call EXCEPT ![k].seen = existing, ![k].at = "swap"]
  <2> DEFINE c == [call[k] EXCEPT !.seen = existing, !.at = "swap"]
  <2>1. c \in CallRecord
    BY <1>1, StoredRecord DEF IInv, StoreSound, CallRecord, Point
  <2>2. existing.mark = 0 /\ MarkKnown(call[k].target, existing)
    BY <1>5 DEF IsArchived, MarkKnown
  <2>3. /\ c.op = call[k].op /\ c.at = "swap" /\ c.locks = call[k].locks
        /\ c.value = call[k].value /\ c.seen = existing /\ c.target = call[k].target
    BY <1>1 DEF CallRecord
  <2>4. call' = [call EXCEPT ![k] = c]
    BY <1>5
  <2> HIDE DEF existing, c
  <2>5. Carrying(c)
    BY <1>1, <2>2, <2>3 DEF Carrying
  <2> QED BY <1>1, <2>1, <2>3, <2>4, <2>5, PlainQuiet
<1> QED BY <1>2, <1>3, <1>4, <1>5 DEF Load, LoadOf

LEMMA GetMarks == ASSUME IInv, MarkInv, NEW k \in Calls, Get(k) PROVE MarkInv'
<1> DEFINE existing == store[call[k].s]
           note == IF call[k].op = "approve" THEN 0 ELSE k
           value == [existing EXCEPT !.body.notes = @ \cup {note}]
           c == [call[k] EXCEPT !.seen = existing, !.at = "lock", !.value = value]
<1>1. /\ call[k].at = "get" /\ call[k] \in CallRecord /\ call[k].s \in EventSpec
      /\ call[k].target = call[k].s /\ call[k].op \in {"put", "patch", "approve"}
      /\ UNCHANGED <<store, torn, bare, shelved>>
  BY DEF IInv, CallSound, Saving, Get, At, others
<1>2. CASE call[k].op = "put" /\ Goto(k, "lock")
  BY <1>1, <1>2, GotoMarks DEF Point
<1>3. CASE \E result \in {"done", "refused", "failed"} : End(k, result)
  BY <1>1, <1>3, EndMarks
<1>4. CASE call[k].op # "put" /\ existing # Absent /\ call' = [call EXCEPT ![k] = c]
  <2>1. existing \in SpecRecord /\ existing.mark \in Nat
    BY <1>1, <1>4, TargetsApart DEF IInv, StoreSound, Sound, SpecRecord
  <2>2. value \in SpecRecord /\ value.mark = existing.mark
    BY <2>1 DEF SpecRecord, SpecBody, Calls
  <2>3. MarkKnown(call[k].s, existing)
    BY <1>1, TargetsApart DEF MarkInv, StoreMarks
  <2>4. MarkKnown(call[k].s, value)
    BY <1>4, <2>2, <2>3 DEF MarkKnown
  <2> HIDE DEF existing, value
  <2>5. /\ c \in CallRecord /\ c.op = call[k].op /\ c.at = "lock" /\ c.locks = call[k].locks
        /\ c.value = value /\ c.seen = existing /\ c.target = call[k].s
    BY <1>1, <2>1, <2>2 DEF CallRecord, Point, Record
  <2> HIDE DEF c
  <2>6. Carrying(c)
    BY <1>1, <1>4, <2>3, <2>4, <2>5 DEF Carrying
  <2> QED BY <1>1, <1>4, <2>5, <2>6, PlainQuiet
<1>5. CASE call[k].op = "put"
  BY <1>2, <1>3, <1>5 DEF Get
<1>6. CASE call[k].op # "put"
  <2>1. existing = Absent => End(k, "refused")
    BY <1>6 DEF Get
  <2>2. existing # Absent => call' = [call EXCEPT ![k] = c]
    BY <1>6 DEF Get
  <2> HIDE DEF existing, c
  <2> QED BY <1>3, <1>4, <1>6, <2>1, <2>2
<1> QED BY <1>5, <1>6

LEMMA LockMarks == ASSUME IInv, MarkInv, NEW k \in Calls, Lock(k) PROVE MarkInv'
<1> DEFINE t == call[k].target
           point == CASE call[k].op \in {"text", "put"} -> "insert_spec"
                      [] call[k].op = "approve" -> "replace"
                      [] OTHER -> "load"
           c == [call[k] EXCEPT !.locks = {t}, !.at = point]
<1>1. /\ call[k].at = "lock" /\ call[k] \in CallRecord /\ t \in EventSpec
      /\ call[k].op \in {"upload", "form", "text", "put", "patch", "approve"}
      /\ call[k].op \in {"text", "put", "approve"} => call[k].s = t
      /\ UNCHANGED <<store, torn, bare, shelved>>
      /\ Carrying(call[k]) /\ Free(k, {t})
  BY DEF IInv, CallSound, Saving, Lock, At, others, MarkInv, MarkCall
<1>2. call' = [call EXCEPT ![k] = c]
  BY DEF Lock
<1>3. point \in {"insert_spec", "replace", "load"} /\ point \in Point
  BY DEF Point
<1> HIDE DEF point
<1>4. c \in CallRecord /\ c.op = call[k].op /\ c.at = point /\ c.locks = {t} /\ c.s = call[k].s
      /\ c.value = call[k].value /\ c.seen = call[k].seen /\ c.target = t
  BY <1>1, <1>3, TargetsApart DEF CallRecord
<1>5. point = "insert_spec" => call[k].op \in {"text", "put"}
  BY <1>1 DEF point
<1> HIDE DEF c
<1>6. Carrying(c)
  BY <1>1, <1>3, <1>4, <1>5 DEF Carrying
<1> QED BY <1>1, <1>2, <1>3, <1>4, <1>6, PlainQuiet

LEMMA ReplaceMarks == ASSUME IInv, MarkInv, NEW k \in Calls, Replace(k) PROVE MarkInv'
<1> DEFINE existing == store[call[k].s]
           c == [call[k] EXCEPT !.at = "swap"]
<1>1. /\ call[k].at = "replace" /\ call[k] \in CallRecord /\ call[k].target \in EventSpec
      /\ call[k].op = "approve" /\ call[k].s = call[k].target
      /\ UNCHANGED <<store, torn, bare, shelved>> /\ Carrying(call[k])
  BY DEF IInv, CallSound, Saving, Replace, At, others, MarkInv, MarkCall
<1>2. CASE Saved(k)
  BY <1>1, <1>2, SavedMarks, QuietMarks, TargetsApart
<1>3. CASE End(k, "refused")
  BY <1>1, <1>3, EndMarks
<1>4. CASE ~IsArchived(existing) /\ Goto(k, "swap")
  <2>1. call' = [call EXCEPT ![k] = c]
    BY <1>4 DEF Goto
  <2>2. /\ c \in CallRecord /\ c.op = "approve" /\ c.at = "swap" /\ c.locks = call[k].locks
        /\ c.value = call[k].value /\ c.seen = call[k].seen /\ c.target = call[k].target
    BY <1>1 DEF CallRecord, Point
  <2> HIDE DEF c
  <2>3. Carrying(c)
    BY <1>1, <1>4, <2>2 DEF Carrying, IsArchived
  <2> QED BY <1>1, <2>1, <2>2, <2>3, PlainQuiet
<1> QED BY <1>2, <1>3, <1>4 DEF Replace

LEMMA ObserveMarks == ASSUME IInv, MarkInv, NEW k \in Calls, Observe(k) PROVE MarkInv'
<1>1. UNCHANGED <<store, torn, bare, shelved>> /\ call[k].op \in {"text", "put"}
  BY DEF IInv, CallSound, Saving, Observe, At, others
<1>2. CASE Goto(k, "audit")
  BY <1>1, <1>2, GotoMarks DEF Point
<1> QED BY <1>1, <1>2, EndMarks DEF Observe

LEMMA CheckRequestMarks == ASSUME IInv, MarkInv, NEW k \in Calls, CheckRequest(k) PROVE MarkInv'
<1> DEFINE existing == store[call[k].r]
           value == Active(Made(existing.body))
           c == [call[k] EXCEPT !.at = "lock", !.target = call[k].s, !.value = value]
<1>1. UNCHANGED <<store, torn, bare, shelved>> /\ call[k].op = "text" /\ call[k] \in CallRecord
      /\ call[k].r \in Request /\ call[k].s = OwnSpec[call[k].r] /\ existing # Absent
  BY DEF IInv, CallSound, Sourcing, CheckRequest, At, others
<1>2. CASE call' = [call EXCEPT ![k] = c]
  <2>1. value \in SpecRecord /\ value.mark = 0
    BY <1>1, TargetsApart DEF IInv, StoreSound, Sound, RequestRecord, SpecRecord, SpecBody, Active, Made
  <2> HIDE DEF value
  <2>2. /\ c \in CallRecord /\ c.op = "text" /\ c.at = "lock" /\ c.locks = call[k].locks
        /\ c.value = value
    <3>1. call[k].s \in Target /\ value \in Record
      BY <1>1, <2>1, TargetsApart DEF Record
    <3> QED BY <1>1, <3>1 DEF CallRecord, Point
  <2> HIDE DEF c
  <2>3. Carrying(c)
    BY <2>1, <2>2 DEF Carrying
  <2> QED BY <1>1, <1>2, <2>2, <2>3, PlainQuiet
<1>3. CASE End(k, "refused")
  BY <1>1, <1>3, EndMarks
<1> QED BY <1>2, <1>3 DEF CheckRequest

LEMMA DecideMarks == ASSUME IInv, MarkInv, NEW k \in Calls, Decide(k) PROVE MarkInv'
BY GotoMarks DEF IInv, CallSound, Saving, Decide, At, Point

-----------------------------------------------------------------------------
(* Writes *)

\* A write where nothing archived is stored.
LEMMA WriteMarks ==
  ASSUME IInv, MarkInv, NEW k \in Calls, NEW t \in Target, NEW record \in Record, Write(t, record),
         ~IsArchived(store[t]), Apart(k), Going(k), bare' = bare,
         record.mark # 0 => MarkKnown(t, record) /\ t \in EventSpec,
         t \in EventSpec => t \in call[k].locks
  PROVE  Lasting(k) /\ Setting(k) /\ torn \subseteq torn'
<1>1. store' = [store EXCEPT ![t] = record] /\ torn \subseteq torn' /\ record # Absent
  BY IntakeAssumption DEF Write, Record
<1>2. Lasting(k)
  BY <1>1 DEF IInv, StoreSound, Lasting
<1>3. Keeps(k)
  BY <1>1, <1>2 DEF Keeps
<1>4. ASSUME NEW u \in Target, store'[u] # store[u], IsArchived(store'[u])
      PROVE  /\ u = t /\ store'[u] = record /\ record.mark # 0
    BY <1>1, <1>4 DEF IInv, StoreSound, IsArchived
<1>5. record.mark # 0 => MarkKnown(t, record)' /\ record.mark \in torn'
  BY <1>1, <1>3, MarkKept DEF Write, IsArchived
<1>6. Setting(k)
  BY <1>4, <1>5, TargetsApart DEF Setting, MarkKnown
<1> QED BY <1>1, <1>2, <1>6

LEMMA InsertMarks ==
  ASSUME IInv, MarkInv, NEW k \in Calls, Insert(k)
  PROVE  MarkInv' /\ Lasting(k)
<1>1. /\ call[k].at = "insert" /\ call[k] \in CallRecord /\ call[k].target \in Target
      /\ call[k].op \in {"upload", "form", "patch"}
      /\ call[k].target \in Request =>
           call[k].op \in {"upload", "form"} /\ call[k].value \in RequestRecord
      /\ call[k].target \in EventSpec => call[k].value \in SpecRecord
      /\ Carrying(call[k]) /\ UNCHANGED <<bare, shelved>>
  BY DEF IInv, CallSound, Saving, Sound, Insert, At, MarkInv, MarkCall
<1>2. CASE store[call[k].target] = Absent
  <2>1. Write(call[k].target, call[k].value) /\ Saved(k)
    BY <1>2 DEF Insert
  <2>2. call[k].value \in Record /\ ~IsArchived(store[call[k].target])
    BY <1>1, <1>2 DEF Record, Target, IsArchived
  <2>3. Apart(k) /\ Going(k)
    BY <1>1, <2>1, SavedFacts DEF Going
  <2>4. call[k].value.mark # 0 => MarkKnown(call[k].target, call[k].value) /\ call[k].target \in EventSpec
    BY <1>1, <2>2, IntakeAssumption DEF Carrying, Target, Record
  <2>5. Lasting(k) /\ Setting(k) /\ torn \subseteq torn'
    BY <1>1, <2>1, <2>2, <2>3, <2>4, WriteMarks DEF Carrying
  <2> QED BY <1>1, <2>1, <2>5, SavedMarks
<1>3. CASE store[call[k].target] # Absent
  <2> DEFINE c == [call[k] EXCEPT !.at = "load", !.attempt = 1]
  <2>1. UNCHANGED <<store, torn>> /\ call' = [call EXCEPT ![k] = c]
    BY <1>3 DEF Insert, Keep
  <2>2. /\ c \in CallRecord /\ c.op = call[k].op /\ c.at = "load" /\ c.locks = call[k].locks
        /\ c.value = call[k].value /\ c.seen = call[k].seen /\ c.target = call[k].target
    BY <1>1 DEF CallRecord, Point
  <2> HIDE DEF c
  <2>3. Carrying(c)
    BY <1>1, <2>2 DEF Carrying
  <2> QED BY <1>1, <2>1, <2>2, <2>3, PlainQuiet, QuietMarks
<1> QED BY <1>2, <1>3

LEMMA SwapMarks ==
  ASSUME IInv, MarkInv, NEW k \in Calls, Swap(k)
  PROVE  MarkInv' /\ Lasting(k)
<1>1. /\ call[k].at = "swap" /\ call[k] \in CallRecord /\ call[k].target \in Target
      /\ call[k].op \in {"upload", "form", "patch", "approve"}
      /\ call[k].target \in Request =>
           call[k].op \in {"upload", "form"} /\ call[k].value \in RequestRecord
      /\ call[k].target \in EventSpec => call[k].value \in SpecRecord
      /\ Carrying(call[k]) /\ UNCHANGED <<bare, shelved>>
  BY DEF IInv, CallSound, Saving, Sound, Swap, At, MarkInv, MarkCall
<1>2. CASE store[call[k].target] = call[k].seen
  <2>1. Write(call[k].target, call[k].value) /\ Saved(k)
    BY <1>2 DEF Swap
  <2>2. call[k].value \in Record
    BY <1>1 DEF Record, Target
  <2>3. ~IsArchived(store[call[k].target])
    BY <1>1, <1>2 DEF IsArchived, Carrying
  <2>4. Apart(k) /\ Going(k)
    BY <1>1, <2>1, SavedFacts DEF Going
  <2>5. call[k].value.mark # 0 => MarkKnown(call[k].target, call[k].value) /\ call[k].target \in EventSpec
    BY <1>1, <2>2, IntakeAssumption DEF Carrying, Target, Record
  <2>6. Lasting(k) /\ Setting(k) /\ torn \subseteq torn'
    BY <1>1, <2>1, <2>2, <2>3, <2>4, <2>5, WriteMarks DEF Carrying
  <2> QED BY <1>1, <2>1, <2>6, SavedMarks
<1>3. CASE store[call[k].target] # call[k].seen
  BY <1>1, <1>3, EndMarks, QuietMarks DEF Swap, Keep
<1> QED BY <1>2, <1>3

LEMMA InsertRequestMarks ==
  ASSUME IInv, MarkInv, NEW k \in Calls, InsertRequest(k)
  PROVE  MarkInv' /\ Lasting(k)
<1>1. /\ call[k] \in CallRecord /\ call[k].op = "text" /\ call[k].r \in Request
      /\ call[k].value = Active(Body("text", call[k].text, k)) /\ call[k].text \in Text
      /\ Goto(k, "check_request") /\ UNCHANGED <<bare, shelved>>
  BY DEF IInv, CallSound, Sourcing, InsertRequest, At
<1>2. call[k].value \in RequestRecord /\ call[k].value.mark = 0
  BY <1>1 DEF Active, Body, RequestRecord, RequestBody, Calls
<1>3. CASE store[call[k].r] = Absent
  <2> DEFINE c == [call[k] EXCEPT !.at = "check_request"]
  <2>1. /\ c \in CallRecord /\ c.op = "text" /\ c.at = "check_request" /\ c.locks = call[k].locks
        /\ c.value = call[k].value
    BY <1>1 DEF CallRecord, Point
  <2>2. call' = [call EXCEPT ![k] = c]
    BY <1>1 DEF Goto
  <2> HIDE DEF c
  <2>3. call'[k] = c /\ Apart(k) /\ Going(k)
    BY <1>1, <2>2 DEF IInv, Apart, Going
  <2>4. Lasting(k) /\ Setting(k) /\ torn \subseteq torn'
    BY <1>1, <1>2, <1>3, <2>3, WriteMarks, TargetsApart DEF InsertRequest, IsArchived, Record
  <2>5. Carrying(call[k])'
    BY <1>2, <2>1, <2>3 DEF Carrying
  <2> QED BY <1>1, <2>1, <2>2, <2>4, <2>5, PlainStep
<1>4. CASE store[call[k].r] # Absent
  <2>1. UNCHANGED <<store, torn>>
    BY <1>4 DEF InsertRequest, Keep
  <2> QED BY <1>1, <2>1, GotoMarks, QuietMarks DEF Point
<1> QED BY <1>3, <1>4

LEMMA InsertSpecMarks ==
  ASSUME IInv, MarkInv, NEW k \in Calls, InsertSpec(k)
  PROVE  MarkInv' /\ Lasting(k)
<1> DEFINE t == call[k].s
           c == [call[k] EXCEPT !.locks = {}, !.at = "observe"]
<1>1. /\ call[k].at = "insert_spec" /\ call[k] \in CallRecord /\ call[k].op \in {"text", "put"}
      /\ t \in EventSpec /\ call[k].value \in SpecRecord /\ t \in call[k].locks
      /\ call[k].value.mark = 0 /\ UNCHANGED <<bare, shelved>>
  BY IntakeAssumption DEF IInv, CallSound, Saving, InsertSpec, At, MarkInv, MarkCall, Carrying
<1>2. Apart(k) /\ call'[k].op # "archive" /\ call'[k].at \in {"done", "observe"}
      /\ call'[k].locks = {} /\ (call'[k].value = Absent \/ call'[k].value.mark = 0)
      /\ (call'[k].op \in {"patch", "approve"} => call'[k].value = Absent /\ call'[k].seen = Absent)
  <2>1. CASE End(k, "done")
    BY <1>1, <2>1, EndFacts
  <2>2. CASE call' = [call EXCEPT ![k] = c]
    BY <1>1, <2>2 DEF IInv, Apart, CallRecord
  <2> QED BY <2>1, <2>2 DEF InsertSpec
<1>3. Going(k) /\ Leaving(k) /\ Locking(k)
  BY <1>1, <1>2 DEF Going, Leaving, Locking
<1>4. Lasting(k) /\ Setting(k) /\ torn \subseteq torn'
  <2>1. CASE store[t] = Absent
    <3>1. Write(t, call[k].value) /\ ~IsArchived(store[t])
      BY <2>1 DEF InsertSpec, IsArchived
    <3> QED BY <1>1, <1>2, <1>3, <3>1, WriteMarks, TargetsApart DEF Record
  <2>2. CASE store[t] # Absent
    BY <1>1, <2>2, QuietMarks DEF InsertSpec, Keep
  <2> QED BY <2>1, <2>2
<1>5. Keeps(k)
  BY <1>1, <1>2, <1>3, <1>4 DEF Keeps
<1>6. MarkCall(k)'
  BY <1>2 DEF MarkCall, Carrying, Holding, Planning, Changing, Marking, MarkKnown
<1> QED BY <1>1, <1>3, <1>4, <1>5, <1>6, OneArchive DEF MarkInv, StoreMarks

-----------------------------------------------------------------------------
(* The archive *)

\* A step by which an archive changes only what it remembers, before it marks anything.
LEMMA ArchiveQuiet ==
  ASSUME IInv, MarkInv, NEW k \in Calls, NEW c \in CallRecord, call' = [call EXCEPT ![k] = c],
         UNCHANGED <<store, torn, bare, shelved>>,
         call[k].op = "archive", call[k].at \notin Late, c.op = "archive", c.r \in Request,
         c.at \in {"related", "lock_all", "check", "read"},
         c.value = call[k].value, c.changed = call[k].changed,
         c.locks \subseteq call[k].locks \/ Free(k, c.locks),
         c.at \in {"check", "read"} => c.locks = {c.r} \cup c.ids,
         c.at = "read" => c.ids \subseteq Related(c.r)
  PROVE  MarkInv'
<1>1. call'[k] = c /\ Apart(k) /\ Locking(k)
  BY DEF IInv, Apart, Locking, Free
<1>2. Going(k) /\ Leaving(k)
  BY <1>1 DEF Going, Leaving, Late, Marking
<1>3. Keeps(k) /\ Setting(k)
  BY <1>1, <1>2, QuietMarks DEF Keeps
<1>4. Carrying(call[k]) /\ c.changed = <<>>
  BY DEF MarkInv, MarkCall, Holding
<1>5. \A r : Related(r)' = Related(r)
  BY DEF Related
<1>6. MarkCall(k)'
  BY <1>1, <1>4, <1>5 DEF MarkCall, Carrying, Holding, Planning, Changing, Marking
<1> QED BY <1>1, <1>2, <1>3, <1>6, OneArchive DEF MarkInv, StoreMarks

LEMMA RelateMarks ==
  ASSUME IInv, MarkInv, NEW k \in Calls, Relate(k) \/ LockAll(k) \/ Check(k)
  PROVE  MarkInv'
<1>1. /\ call[k] \in CallRecord /\ call[k].op = "archive" /\ call[k].r \in Request
      /\ call[k].at \in {"related", "lock_all", "check"} /\ Holding(k, call[k])
      /\ UNCHANGED <<store, torn, bare, shelved>>
  BY DEF IInv, CallSound, Saving, Relate, LockAll, Check, At, others, MarkInv, MarkCall
<1>2. call[k].at \notin Late
  BY <1>1 DEF Late, Marking
<1>3. CASE Relate(k)
  <2> DEFINE ids == Related(call[k].r)
             c == [call[k] EXCEPT !.ids = ids, !.at = "lock_all"]
  <2>1. ids \in SUBSET EventSpec
    BY DEF Related
  <2>2. call' = [call EXCEPT ![k] = c]
    BY <1>3 DEF Relate
  <2> HIDE DEF ids
  <2>3. /\ c \in CallRecord /\ c.op = "archive" /\ c.r = call[k].r /\ c.at = "lock_all"
        /\ c.value = call[k].value /\ c.changed = call[k].changed /\ c.locks = call[k].locks
    BY <1>1, <2>1 DEF CallRecord, Point
  <2> HIDE DEF c
  <2> QED BY <1>1, <1>2, <2>2, <2>3, ArchiveQuiet
<1>4. CASE LockAll(k)
  <2> DEFINE c == [call[k] EXCEPT !.locks = {call[k].r} \cup call[k].ids, !.at = "check"]
  <2>1. {call[k].r} \cup call[k].ids \in SUBSET Target
    BY <1>1, TargetsApart DEF CallRecord
  <2>2. call' = [call EXCEPT ![k] = c] /\ Free(k, {call[k].r} \cup call[k].ids)
    BY <1>4 DEF LockAll
  <2>3. /\ c \in CallRecord /\ c.op = "archive" /\ c.r = call[k].r /\ c.at = "check"
        /\ c.locks = {call[k].r} \cup call[k].ids /\ c.ids = call[k].ids
        /\ c.value = call[k].value /\ c.changed = call[k].changed
    BY <1>1, <2>1 DEF CallRecord, Point
  <2> HIDE DEF c
  <2> QED BY <1>1, <1>2, <2>2, <2>3, ArchiveQuiet
<1>5. CASE Check(k)
  <2>1. CASE Related(call[k].r) = call[k].ids /\ Goto(k, "read")
    <3> DEFINE c == [call[k] EXCEPT !.at = "read"]
    <3>1. call' = [call EXCEPT ![k] = c] /\ call[k].at = "check"
      BY <1>5, <2>1 DEF Goto, Check, At
    <3>2. /\ c \in CallRecord /\ c.op = "archive" /\ c.r = call[k].r /\ c.at = "read"
          /\ c.locks = call[k].locks /\ c.ids = call[k].ids
          /\ c.value = call[k].value /\ c.changed = call[k].changed
      BY <1>1 DEF CallRecord, Point
    <3> HIDE DEF c
    <3> QED BY <1>1, <1>2, <2>1, <3>1, <3>2, ArchiveQuiet DEF Holding
  <2>2. CASE End(k, "failed")
    BY <1>1, <2>2, EndMarks
  <2>3. CASE call' = [call EXCEPT ![k].locks = {}, ![k].attempt = @ + 1, ![k].at = "related"]
    <3> DEFINE c == [call[k] EXCEPT !.locks = {}, !.attempt = @ + 1, !.at = "related"]
    <3>1. call[k].attempt + 1 \in Nat /\ {} \in SUBSET Target /\ "related" \in Point
      BY <1>1 DEF CallRecord, Point
    <3>2. /\ c \in CallRecord /\ c.op = "archive" /\ c.r = call[k].r /\ c.at = "related"
          /\ c.value = call[k].value /\ c.changed = call[k].changed /\ c.locks = {}
      BY <1>1, <3>1 DEF CallRecord
    <3>3. call' = [call EXCEPT ![k] = c]
      BY <2>3
    <3> HIDE DEF c
    <3> QED BY <1>1, <1>2, <3>2, <3>3, ArchiveQuiet
  <2> QED BY <1>5, <2>1, <2>2, <2>3 DEF Check
<1> QED BY <1>3, <1>4, <1>5

\* Those that are open are listed once each, and none is left out.
LEMMA OpenAll ==
  ASSUME NEW T \in SUBSET Target, IsFiniteSet(T), NEW ts \in Open(T)
  PROVE  /\ ts \in Seq(T)
         /\ \A i \in DOMAIN ts : ~IsArchived(store[ts[i]])
         /\ \A i, j \in DOMAIN ts : ts[i] = ts[j] => i = j
         /\ \A t \in T : ~IsArchived(store[t]) => \E i \in DOMAIN ts : ts[i] = t
<1> DEFINE U == {t \in T : ~IsArchived(store[t])}
           D == 1..Cardinality(U)
<1>1. IsFiniteSet(U) /\ Cardinality(U) \in Nat
  BY FS_Subset, FS_CardinalityType
<1>2. ts \in [D -> U] /\ \A i, j \in D : i # j => ts[i] # ts[j]
  BY DEF Open, SetToSeqs
<1>3. IsFiniteSet(D) /\ Cardinality(D) = Cardinality(U)
  <2> HIDE DEF U
  <2>1. 1 \in Int /\ Cardinality(U) \in Int
    BY <1>1
  <2>2. Cardinality(U) - 1 + 1 = Cardinality(U) /\ (1 > Cardinality(U) => Cardinality(U) = 0)
    BY <1>1
  <2> QED BY <1>1, <2>1, <2>2, FS_Interval
<1>4. ts \in Injection(D, U)
  <2> HIDE DEF D, U
  <2> QED BY <1>2 DEF Injection, IsInjective
<1>5. ts \in Surjection(D, U)
  <2> HIDE DEF D, U
  <2> QED BY <1>1, <1>3, <1>4, FS_Injection
<1>6. \A t \in U : \E i \in D : ts[i] = t
  <2> HIDE DEF D, U
  <2> QED BY <1>5 DEF Surjection
<1>7. ts \in Seq(T)
  BY OpenSound
<1>8. DOMAIN ts = D
  BY <1>2
<1> QED BY <1>2, <1>6, <1>7, <1>8

\* A plan has each record once that is not archived yet, as it is stored, and the request first.
LEMMA PlanFacts ==
  ASSUME IInv, NEW r \in Request, store[r] # Absent, NEW plan \in Plans(r)
  PROVE  /\ \A i \in DOMAIN plan : /\ plan[i].before.mark = 0
                                   /\ plan[i].target \in EventSpec \/ plan[i].target = r
                                   /\ plan[i].target = r => i = 1
         /\ \A i, j \in DOMAIN plan : plan[i].target = plan[j].target => i = j
         /\ \A t \in {r} \cup Related(r) : ~IsArchived(store[t]) => t \in Touched(plan)
         /\ ~IsArchived(store[r]) => plan[1].target = r
<1>1. PICK rs \in Open({r}), ss \in Open(Related(r)) : plan = Changes(rs \o ss)
  BY DEF Plans
<1>2. /\ {r} \in SUBSET Target /\ Related(r) \in SUBSET Target /\ Related(r) \in SUBSET EventSpec
      /\ \A t \in Related(r) : store[t] # Absent
  BY TargetsApart DEF Related
<1>3. IsFiniteSet({r}) /\ IsFiniteSet(Related(r))
  BY <1>2, FS_Singleton, FS_Subset, IntakeAssumption
<1>4. /\ rs \in Seq({r})
      /\ \A i \in DOMAIN rs : ~IsArchived(store[rs[i]])
      /\ \A i, j \in DOMAIN rs : rs[i] = rs[j] => i = j
      /\ \A t \in {r} : ~IsArchived(store[t]) => \E i \in DOMAIN rs : rs[i] = t
  BY <1>2, <1>3, OpenAll
<1>5. /\ ss \in Seq(Related(r))
      /\ \A i \in DOMAIN ss : ~IsArchived(store[ss[i]])
      /\ \A i, j \in DOMAIN ss : ss[i] = ss[j] => i = j
      /\ \A t \in Related(r) : ~IsArchived(store[t]) => \E i \in DOMAIN ss : ss[i] = t
  BY <1>2, <1>3, OpenAll
<1> DEFINE ts == rs \o ss
<1>6. /\ Len(rs) \in Nat /\ DOMAIN rs = 1..Len(rs) /\ Len(ss) \in Nat /\ DOMAIN ss = 1..Len(ss)
      /\ \A i \in 1..Len(rs) : rs[i] = r
      /\ \A i \in 1..Len(ss) : ss[i] \in Related(r)
  BY <1>4, <1>5
<1>7. Len(rs) <= 1
  <2>1. ASSUME 1 \in 1..Len(rs), 2 \in 1..Len(rs) PROVE FALSE
    BY <1>4, <1>6, <2>1
  <2> QED BY <1>6, <2>1
<1>8. /\ DOMAIN ts = 1..(Len(rs) + Len(ss))
      /\ \A i \in 1..Len(rs) : ts[i] = rs[i]
      /\ \A i \in 1..(Len(rs) + Len(ss)) : i > Len(rs) => ts[i] = ss[i - Len(rs)]
      /\ \A i \in 1..Len(ss) : ts[i + Len(rs)] = ss[i]
  BY <1>6
<1> HIDE DEF ts
<1>9. \A i \in DOMAIN ts : \/ i = 1 /\ i \in 1..Len(rs) /\ ts[i] = r /\ ~IsArchived(store[r])
                           \/ /\ i > Len(rs) /\ i - Len(rs) \in DOMAIN ss /\ ts[i] = ss[i - Len(rs)]
                              /\ ts[i] \in Related(r) /\ ~IsArchived(store[ts[i]])
  <2> SUFFICES ASSUME NEW i \in DOMAIN ts
               PROVE  \/ i = 1 /\ i \in 1..Len(rs) /\ ts[i] = r /\ ~IsArchived(store[r])
                      \/ /\ i > Len(rs) /\ i - Len(rs) \in DOMAIN ss /\ ts[i] = ss[i - Len(rs)]
                         /\ ts[i] \in Related(r) /\ ~IsArchived(store[ts[i]])
    OBVIOUS
  <2>1. CASE i <= Len(rs)
    <3>1. i = 1 /\ i \in 1..Len(rs)
      BY <1>6, <1>7, <1>8, <2>1
    <3>2. ts[i] = r /\ rs[i] = r
      BY <1>6, <1>8, <3>1
    <3> QED BY <1>4, <1>6, <3>1, <3>2
  <2>2. CASE i > Len(rs)
    <3>1. i - Len(rs) \in 1..Len(ss)
      BY <1>6, <1>8, <2>2
    <3> QED BY <1>5, <1>6, <1>8, <2>2, <3>1
  <2> QED BY <1>6, <1>8, <2>1, <2>2
<1>10. /\ DOMAIN plan = DOMAIN ts
       /\ \A i \in DOMAIN ts : plan[i].target = ts[i] /\ plan[i].before = store[ts[i]]
  BY <1>1 DEF Changes, ts
<1>11. ASSUME NEW i \in DOMAIN plan
       PROVE  /\ plan[i].before.mark = 0
              /\ plan[i].target \in EventSpec \/ plan[i].target = r
              /\ plan[i].target = r => i = 1
  BY <1>2, <1>9, <1>10, TargetsApart DEF IsArchived
<1>12. ASSUME NEW i \in DOMAIN plan, NEW j \in DOMAIN plan, plan[i].target = plan[j].target
       PROVE  i = j
  <2>1. i \in DOMAIN ts /\ j \in DOMAIN ts /\ ts[i] = ts[j]
    BY <1>10, <1>12
  <2>2. CASE ts[i] = r
    BY <1>2, <1>9, <2>1, <2>2, TargetsApart
  <2>3. CASE ts[i] # r
    <3>1. /\ i - Len(rs) \in DOMAIN ss /\ j - Len(rs) \in DOMAIN ss
          /\ ss[i - Len(rs)] = ss[j - Len(rs)]
      BY <1>9, <2>1, <2>3
    <3>2. i - Len(rs) = j - Len(rs) /\ i \in Int /\ j \in Int
      BY <1>5, <1>6, <1>8, <2>1, <3>1
    <3> QED BY <1>6, <3>2
  <2> QED BY <2>2, <2>3
<1>13. ASSUME NEW t \in {r} \cup Related(r), ~IsArchived(store[t])
       PROVE  t \in Touched(plan)
  <2>1. CASE t = r
    <3>1. PICK i \in 1..Len(rs) : rs[i] = r
      BY <1>4, <1>6, <1>13, <2>1
    <3>2. i \in DOMAIN ts /\ ts[i] = r
      BY <1>6, <1>8, <3>1
    <3> QED BY <1>10, <2>1, <3>2 DEF Touched
  <2>2. CASE t \in Related(r)
    <3>1. PICK i \in 1..Len(ss) : ss[i] = t
      BY <1>5, <1>6, <1>13, <2>2
    <3>2. i + Len(rs) \in DOMAIN ts /\ ts[i + Len(rs)] = t
      BY <1>6, <1>8, <3>1
    <3> QED BY <1>10, <3>2 DEF Touched
  <2> QED BY <2>1, <2>2
<1>14. ~IsArchived(store[r]) => plan[1].target = r
  BY <1>11, <1>13 DEF Touched
<1> QED BY <1>11, <1>12, <1>13, <1>14

\* What an archive finds archived under its locks stays archived, or was marked without a lock.
LEMMA LockedSettled ==
  ASSUME MarkInv, NEW k \in Calls, call[k].at \notin Late, NEW t \in Target \cap call[k].locks,
         IsArchived(store[t])
  PROVE  t \in bare \/ Settled(t)
<1>1. MarkKnown(t, store[t])
  BY DEF MarkInv, StoreMarks
<1>2. store[t].mark # k
  BY <1>1 DEF MarkKnown, IsArchived
<1>3. store[t].mark \in Calls => t \notin call[store[t].mark].locks
  BY <1>2 DEF MarkInv, LocksApart
<1> QED BY <1>1, <1>3 DEF MarkKnown, Settled, IsArchived

LEMMA ReadMarks == ASSUME IInv, MarkInv, NEW k \in Calls, Read(k) PROVE MarkInv'
<1>0. /\ call[k] \in CallRecord /\ call[k].op = "archive" /\ call[k].r \in Request
      /\ call[k].at = "read" /\ UNCHANGED <<store, torn, bare, shelved>>
  BY DEF IInv, CallSound, Saving, Read, At, others
<1>1. call[k].at \notin Late /\ Holding(k, call[k]) /\ Carrying(call[k])
  BY <1>0 DEF MarkInv, MarkCall, Late, Marking
<1>2. CASE End(k, "refused")
  BY <1>0, <1>2, EndMarks
<1>3. CASE store[call[k].r] # Absent
  <2>1. PICK plan \in Plans(call[k].r) :
          call' = [call EXCEPT ![k].todo = plan,
                               ![k].at = IF plan = <<>> THEN "audit" ELSE "apply",
                               ![k].locks = IF plan = <<>> THEN {} ELSE @]
    BY <1>3 DEF Read
  <2> PICK r \in Request, ids \in SUBSET EventSpec : r = call[k].r /\ ids = call[k].ids
    BY <1>0 DEF CallRecord
  <2>2. /\ plan = <<>> => call'[k].at = "audit" /\ call'[k].locks = {}
        /\ plan # <<>> => call'[k].at = "apply" /\ call'[k].locks = call[k].locks
        /\ call'[k].todo = plan /\ call'[k].op = "archive" /\ call'[k].r = r
        /\ call'[k].ids = ids /\ call'[k].changed = <<>> /\ call'[k].value = call[k].value
        /\ Apart(k)
    BY <1>0, <1>1, <2>1 DEF IInv, Apart, CallRecord, Holding
  <2>3. /\ call[k].locks = {r} \cup ids /\ ids \subseteq Related(r) /\ {r} \cup ids \subseteq Target
    BY <1>0, <1>1, TargetsApart DEF Holding, Related
  <2>4. ASSUME NEW t \in {r} \cup ids PROVE t \in Touched(plan) \/ t \in bare \/ Settled(t)
    <3>1. t \in {r} \cup Related(r) /\ t \in Target \cap call[k].locks
      BY <2>3
    <3>2. CASE IsArchived(store[t])
      BY <1>0, <1>1, <3>1, <3>2, LockedSettled
    <3>3. CASE ~IsArchived(store[t])
      BY <1>0, <1>1, <1>3, <3>1, <3>3, PlanFacts
    <3> QED BY <3>2, <3>3
  <2>5. r \notin bare
    BY <1>0, <1>1, TargetsApart DEF MarkInv, StoreMarks
  <2>6. Going(k) /\ Locking(k)
    BY <1>0, <1>1, <2>2 DEF Going, Locking
  <2>7. Keeps(k) /\ Setting(k)
    BY <1>0, <1>1, <2>2, <2>6, QuietMarks DEF Keeps
  <2>8. \A t \in Target : Settled(t) => Settled(t)'
    BY <2>7, SettledKept DEF MarkInv, StoreMarks
  <2>9. plan = <<>> => Touched(plan) = {}
    BY DEF Touched
  <2>10. Leaving(k)
    <3>1. plan = <<>> => Settled(r)'
      BY <2>3, <2>4, <2>5, <2>8, <2>9
    <3> QED BY <2>2, <3>1 DEF Leaving, Marking
  <2>11. Holding(k, call[k])'
    <3>1. \A t \in {r} \cup ids : t \in Touched(plan) \/ t \in bare' \/ Settled(t)'
      BY <1>0, <1>1, <2>3, <2>4, <2>8
    <3> QED BY <1>0, <1>1, <2>2, <2>3, <2>9, <3>1 DEF Holding
  <2>12. Planning(call[k])'
    <3>1. /\ \A i \in DOMAIN plan : /\ plan[i].before.mark = 0
                                    /\ plan[i].target \in EventSpec \/ plan[i].target = r
                                    /\ plan[i].target = r => i = 1
          /\ \A i, j \in DOMAIN plan : plan[i].target = plan[j].target => i = j
      BY <1>0, <1>1, <1>3, PlanFacts
    <3> QED BY <2>2, <3>1 DEF Planning
  <2>13. Changing(k, call[k])'
    <3>1. ASSUME NEW s \in EventSpec, IsArchived(store'[s]) PROVE store'[s].mark # k
      BY <1>0, <1>1, <3>1, TargetsApart DEF MarkInv, StoreMarks, MarkKnown, IsArchived
    <3>2. Settled(r)' \/ plan[1].target = r
      <4>1. CASE IsArchived(store[r])
        BY <1>0, <1>1, <2>3, <2>5, <2>8, <4>1, LockedSettled
      <4> QED BY <1>0, <1>1, <1>3, <4>1, PlanFacts
    <3> QED BY <2>2, <3>1, <3>2 DEF Changing
  <2>14. Carrying(call[k])'
    BY <1>0, <1>1, <2>2 DEF Carrying
  <2> QED BY <1>0, <1>1, <2>6, <2>7, <2>10, <2>11, <2>12, <2>13, <2>14, OneArchive
          DEF MarkCall, MarkInv, StoreMarks
<1> QED BY <1>2, <1>3 DEF Read

\* An archive turns back, with what it has changed so far.
LEMMA TurnMarks ==
  ASSUME IInv, MarkInv, NEW k \in Calls, At(k, "apply"), Goto(k, "undo"), Lasting(k), Setting(k),
         bare \subseteq bare', bare' \subseteq EventSpec, torn \subseteq torn', UNCHANGED shelved,
         k \in torn' \/ UNCHANGED store
  PROVE  MarkInv'
<1>1. /\ call[k] \in CallRecord /\ call[k].op = "archive" /\ call[k].at = "apply"
      /\ call[k].r \in Request /\ call[k].r \in Target
      /\ Carrying(call[k]) /\ Holding(k, call[k]) /\ Changing(k, call[k])
  BY TargetsApart DEF At, IInv, CallSound, Saving, MarkInv, MarkCall
<1>2. PICK r \in Request : r = call[k].r
  BY <1>1
<1>3. /\ Apart(k) /\ call'[k].at = "undo" /\ call'[k].op = "archive" /\ call'[k].r = r
      /\ call'[k].locks = call[k].locks /\ call'[k].ids = call[k].ids
      /\ call'[k].changed = call[k].changed /\ call'[k].value = call[k].value
  BY <1>1, <1>2 DEF Goto, IInv, Apart, CallRecord
<1>4. Going(k) /\ Leaving(k) /\ Locking(k)
  BY <1>1, <1>2, <1>3 DEF Going, Leaving, Locking, Late, Marking
<1>5. Keeps(k)
  BY <1>3, <1>4 DEF Keeps
<1>6. \A t \in Target : IsArchived(store[t]) => store'[t] = store[t]
  BY <1>1 DEF Lasting
<1>7. Settled(r) => Settled(r)'
  BY <1>1, <1>2, <1>5, SettledKept DEF MarkInv, StoreMarks
<1>8. Changing(k, call[k])'
  <2>1. /\ \A i \in DOMAIN call[k].changed :
             /\ call[k].changed[i].before.mark = 0
             /\ call[k].changed[i].target \in EventSpec \/ call[k].changed[i].target = r
             /\ call[k].changed[i].target = r => i = 1
        /\ k \notin torn =>
             \A s \in EventSpec : IsArchived(store[s]) /\ store[s].mark = k => s \in Touched(call[k].changed)
        /\ \/ Settled(r)
           \/ call[k].changed = <<>>
           \/ /\ call[k].changed # <<>> /\ call[k].changed[1].target = r
              /\ IsArchived(store[r]) /\ store[r].mark = k
    BY <1>1, <1>2 DEF Changing, Marking
  <2>2. k \notin torn' =>
          \A s \in EventSpec : IsArchived(store'[s]) /\ store'[s].mark = k => s \in Touched(call[k].changed)
    BY <2>1
  <2>3. \/ Settled(r)'
        \/ call[k].changed = <<>>
        \/ /\ call[k].changed # <<>> /\ call[k].changed[1].target = r
           /\ IsArchived(store'[r]) /\ store'[r].mark = k
    BY <1>1, <1>2, <1>6, <1>7, <2>1
  <2> QED BY <1>3, <2>1, <2>2, <2>3 DEF Changing
<1>9. MarkCall(k)'
  BY <1>1, <1>2, <1>3, <1>8 DEF MarkCall, Carrying, Holding, Planning, Late, Marking
<1> QED BY <1>4, <1>5, <1>9, OneArchive DEF MarkInv, StoreMarks

LEMMA ApplyMarks ==
  ASSUME IInv, MarkInv, NEW k \in Calls, Apply(k)
  PROVE  MarkInv' /\ Lasting(k)
<1>1. /\ call[k] \in CallRecord /\ call[k].op = "archive" /\ call[k].r \in Request
      /\ call[k].todo \in Seq(Change) /\ call[k].todo # <<>> /\ call[k].changed \in Seq(Change)
      /\ call[k].at = "apply" /\ UNCHANGED shelved
      /\ Carrying(call[k]) /\ Holding(k, call[k]) /\ Planning(call[k]) /\ Changing(k, call[k])
  BY DEF IInv, CallSound, Saving, Apply, At, CallRecord, MarkInv, MarkCall
<1>2. PICK r \in Request, ids \in SUBSET EventSpec, todo \in Seq(Change), changed \in Seq(Change) :
        r = call[k].r /\ ids = call[k].ids /\ todo = call[k].todo /\ changed = call[k].changed
  BY <1>1 DEF CallRecord
<1>3. PICK t \in Target, before \in Record :
        /\ t = Head(todo).target /\ before = Head(todo).before /\ Sound(t, before)
        /\ t = todo[1].target /\ before = todo[1].before /\ 1 \in DOMAIN todo
  <2>1. Head(todo) \in Change /\ Head(todo) = todo[1] /\ 1 \in DOMAIN todo
    BY <1>1, <1>2, HeadTailProperties
  <2> QED BY <2>1 DEF Change
<1>4. /\ before.mark = 0 /\ before # Absent
      /\ t \in EventSpec \/ t = r
      /\ t = r => changed = <<>>
      /\ \A i \in DOMAIN todo : /\ todo[i].before.mark = 0
                                /\ todo[i].target \in EventSpec \/ todo[i].target = r
                                /\ todo[i].target = r => i = 1
      /\ \A i, j \in DOMAIN todo : todo[i].target = todo[j].target => i = j
  BY <1>1, <1>2, <1>3, IntakeAssumption DEF Planning, Record
<1>5. CASE store[t] # before
  <2>1. At(k, "apply") /\ Goto(k, "undo") /\ UNCHANGED <<store, torn, bare, shelved>>
    BY <1>1, <1>2, <1>3, <1>5 DEF Apply, At
  <2> QED BY <2>1, QuietMarks, TurnMarks DEF MarkInv, StoreMarks
<1>6. CASE store[t] = before
  <2> DEFINE marked == Marked(before, k)
  <2>1. /\ store' = [store EXCEPT ![t] = marked]
        /\ bare' = bare \cup ({t} \ call[k].locks)
        /\ \/ Applied(k) /\ UNCHANGED torn
           \/ Goto(k, "undo") /\ torn' = torn \cup {k}
    BY <1>2, <1>3, <1>6 DEF Apply
  <2>2. marked \in Record /\ marked.mark = k /\ IsArchived(marked) /\ marked # Absent
    <3>1. before \in RequestRecord \cup SpecRecord /\ k \in Nat /\ k # 0
      BY <1>3 DEF Record, Calls
    <3>2. marked \in RequestRecord \cup SpecRecord /\ marked.mark = k
      BY <1>4, <3>1 DEF Marked, RequestRecord, SpecRecord
    <3> QED BY <3>1, <3>2, IntakeAssumption DEF Record, IsArchived
  <2> HIDE DEF marked
  <2>3. store'[t] = marked /\ \A u \in Target : u # t => store'[u] = store[u]
    BY <2>1 DEF IInv, StoreSound
  <2>4. ~IsArchived(store[t]) /\ store[t] # Absent
    BY <1>4, <1>6 DEF IsArchived
  <2>5. Lasting(k)
    BY <2>2, <2>3, <2>4 DEF Lasting
  <2>6. bare \subseteq bare' /\ bare' \subseteq EventSpec /\ torn \subseteq torn'
    <3>1. r \in call[k].locks
      BY <1>1, <1>2 DEF Holding
    <3> QED BY <1>4, <2>1, <3>1 DEF MarkInv, StoreMarks
  <2>7. ASSUME /\ call'[k].op = "archive" /\ call'[k].r = r /\ call'[k].at \in Late
               /\ call'[k].at \in Marking => call'[k].locks = call[k].locks
               /\ call'[k].at = "apply" => t \notin Touched(call'[k].todo)
        PROVE  Setting(k)
    <3>1. t \in Touched(call[k].todo)
      BY <1>2, <1>3 DEF Touched
    <3>2. MarkKnown(t, store[t])'
      BY <2>1, <2>2, <2>3, <2>7 DEF MarkKnown
    <3>3. t \in Request => t = r
      BY <1>4, TargetsApart
    <3> QED BY <1>1, <2>2, <2>3, <2>7, <3>1, <3>2, <3>3 DEF Setting
  <2>8. CASE Goto(k, "undo") /\ torn' = torn \cup {k}
    <3>1. /\ call'[k].op = "archive" /\ call'[k].r = r /\ call'[k].at = "undo"
          /\ call'[k].locks = call[k].locks
      BY <1>1, <1>2, <2>8 DEF Goto, IInv, CallRecord
    <3>2. Setting(k)
      BY <2>7, <3>1 DEF Late, Marking
    <3> QED BY <1>1, <2>5, <2>6, <2>8, <3>2, TurnMarks DEF At
  <2>9. CASE Applied(k) /\ UNCHANGED torn
    <3> DEFINE rest == Tail(todo)
    <3>1. /\ call'[k].op = "archive" /\ call'[k].r = r /\ call'[k].ids = ids
          /\ call'[k].changed = Append(changed, Head(todo)) /\ call'[k].todo = rest
          /\ call'[k].value = call[k].value
          /\ Len(todo) = 1 => call'[k].at = "audit" /\ call'[k].locks = {}
          /\ Len(todo) # 1 => call'[k].at = "apply" /\ call'[k].locks = call[k].locks
          /\ Apart(k)
      BY <1>1, <1>2, <2>9 DEF Applied, IInv, CallRecord, Apart
    <3>2. /\ Len(todo) \in Nat \ {0} /\ DOMAIN todo = 1..Len(todo)
          /\ rest \in Seq(Change) /\ Len(rest) = Len(todo) - 1 /\ DOMAIN rest = 1..(Len(todo) - 1)
          /\ \A i \in 1..(Len(todo) - 1) : rest[i] = todo[i + 1]
      BY <1>1, <1>2, HeadTailProperties
    <3> HIDE DEF rest
    <3>3. \A i \in DOMAIN rest : i + 1 \in DOMAIN todo /\ rest[i] = todo[i + 1] /\ i + 1 # 1
      BY <3>2
    <3>4. t \notin Touched(rest) /\ Touched(rest) \subseteq Touched(todo)
      BY <1>3, <1>4, <3>3 DEF Touched
    <3>5. \A u \in Touched(todo) : u = t \/ u \in Touched(rest)
      <4> SUFFICES ASSUME NEW i \in DOMAIN todo, todo[i].target # t
                   PROVE  todo[i].target \in Touched(rest)
        BY DEF Touched
      <4>1. i # 1 /\ i - 1 \in DOMAIN rest /\ rest[i - 1] = todo[i]
        BY <1>3, <3>2
      <4> QED BY <4>1 DEF Touched
    <3>6. Len(todo) = 1 => Touched(rest) = {}
      BY <3>2 DEF Touched
    <3>7. Going(k) /\ Locking(k)
      BY <1>1, <1>2, <3>1, <3>4 DEF Going, Locking, Late, Marking
    <3>8. Setting(k)
      BY <2>7, <3>1, <3>4 DEF Late, Marking
    <3>9. Keeps(k)
      BY <2>5, <2>6, <3>1, <3>7 DEF Keeps
    <3>10. \A u \in Target : Settled(u) => Settled(u)' /\ store'[u] = store[u]
      BY <3>9, SettledKept DEF MarkInv, StoreMarks
    <3>11. \/ Settled(r)
           \/ changed = <<>> /\ t = r
           \/ changed # <<>> /\ changed[1].target = r /\ IsArchived(store[r]) /\ store[r].mark = k
      BY <1>1, <1>2, <1>3 DEF Changing, Marking
    <3>12. Settled(r)' \/ (IsArchived(store'[r]) /\ store'[r].mark = k)
      BY <2>2, <2>3, <2>4, <3>10, <3>11, TargetsApart
    <3>13. Leaving(k)
      <4>1. Len(todo) = 1 => Settled(r)'
        BY <3>1, <3>12 DEF Settled, Marking
      <4> QED BY <1>2, <3>1, <4>1 DEF Leaving, Marking
    <3>14. Holding(k, call[k])'
      <4>1. ASSUME NEW u \in {r} \cup ids
            PROVE  \/ u \in Touched(rest) \/ u \in bare' \/ Settled(u)'
                   \/ IsArchived(store'[u]) /\ store'[u].mark = k
        <5>1. u \in Target
          BY TargetsApart
        <5>2. \/ u \in Touched(todo) \/ u \in bare \/ Settled(u)
              \/ IsArchived(store[u]) /\ store[u].mark = k
          BY <1>1, <1>2, <4>1 DEF Holding
        <5> QED BY <2>2, <2>3, <2>6, <3>5, <3>10, <5>1, <5>2
      <4>2. Len(todo) = 1 => \A u \in {r} \cup ids : u \in bare' \/ Settled(u)'
        BY <3>1, <3>6, <4>1 DEF Settled, Marking
      <4>3. Len(todo) # 1 => call[k].locks = {r} \cup ids
        BY <1>1, <1>2 DEF Holding
      <4> QED BY <3>1, <4>1, <4>2, <4>3 DEF Holding, Late, Marking
    <3>15. Planning(call[k])'
      <4>1. ASSUME NEW i \in DOMAIN rest
            PROVE  /\ rest[i].before.mark = 0 /\ rest[i].target # r
                   /\ rest[i].target \in EventSpec \/ rest[i].target = r
        BY <1>4, <3>3
      <4>2. ASSUME NEW i \in DOMAIN rest, NEW j \in DOMAIN rest, rest[i].target = rest[j].target
            PROVE  i = j
        <5>1. i + 1 = j + 1
          BY <1>4, <3>3, <4>2
        <5> QED BY <3>2, <5>1
      <4> QED BY <3>1, <4>1, <4>2 DEF Planning
    <3>16. Changing(k, call[k])'
      <4> DEFINE after == Append(changed, Head(todo))
      <4>1. /\ Head(todo).target = t /\ Head(todo).before = before
            /\ Len(changed) \in Nat /\ DOMAIN changed = 1..Len(changed)
            /\ DOMAIN after = 1..(Len(changed) + 1) /\ after # <<>>
            /\ after[Len(changed) + 1] = Head(todo)
            /\ \A i \in 1..Len(changed) : after[i] = changed[i]
        <5>1. Head(todo) \in Change
          BY <1>1, <1>2, HeadTailProperties
        <5> HIDE DEF Change
        <5> QED BY <1>2, <1>3, <5>1, AppendProperties
      <4> HIDE DEF after
      <4>2. \A i \in DOMAIN changed : /\ changed[i].before.mark = 0
                                      /\ changed[i].target \in EventSpec \/ changed[i].target = r
                                      /\ changed[i].target = r => i = 1
        BY <1>1, <1>2 DEF Changing, Marking
      <4>3. ASSUME NEW i \in DOMAIN after
            PROVE  /\ after[i].before.mark = 0
                   /\ after[i].target \in EventSpec \/ after[i].target = r
                   /\ after[i].target = r => i = 1
        <5>1. CASE i \in DOMAIN changed
          BY <4>1, <4>2, <5>1
        <5>2. CASE i = Len(changed) + 1
          <6>1. t = r => Len(changed) = 0
            BY <1>4
          <6> QED BY <1>4, <4>1, <5>2, <6>1
        <5> QED BY <4>1, <5>1, <5>2
      <4>4. t \in Touched(after) /\ Touched(changed) \subseteq Touched(after)
        <5>1. Len(changed) + 1 \in DOMAIN after
          BY <4>1
        <5> QED BY <4>1, <5>1 DEF Touched
      <4>5. ASSUME k \notin torn', NEW s \in EventSpec, IsArchived(store'[s]), store'[s].mark = k
            PROVE  s \in Touched(after)
        <5>1. CASE s = t
          BY <4>4, <5>1
        <5>2. CASE s # t
          <6>1. s \in Touched(changed)
            BY <1>1, <1>2, <2>3, <2>6, <4>5, <5>2, TargetsApart DEF Changing, Marking
          <6> QED BY <4>4, <6>1
        <5> QED BY <5>1, <5>2
      <4>6. \/ Settled(r)'
            \/ after[1].target = r /\ IsArchived(store'[r]) /\ store'[r].mark = k
        <5>1. changed = <<>> => after[1].target = t
          BY <4>1
        <5>2. changed # <<>> => after[1] = changed[1]
          BY <1>2, <4>1
        <5> QED BY <3>11, <3>12, <3>10, <5>1, <5>2, TargetsApart
      <4> QED BY <3>1, <4>1, <4>3, <4>5, <4>6 DEF Changing, after
    <3>17. Carrying(call[k])'
      BY <1>1, <3>1 DEF Carrying
    <3>18. MarkCall(k)'
      BY <3>14, <3>15, <3>16, <3>17 DEF MarkCall
    <3> QED BY <1>1, <2>5, <2>6, <3>7, <3>8, <3>9, <3>13, <3>18, OneArchive
  <2> QED BY <2>1, <2>8, <2>9
<1> QED BY <1>5, <1>6

LEMMA UndoMarks ==
  ASSUME IInv, MarkInv, NEW k \in Calls, Undo(k)
  PROVE  MarkInv' /\ Lasting(k)
<1>1. /\ call[k] \in CallRecord /\ call[k].op = "archive" /\ call[k].r \in Request
      /\ call[k].at = "undo" /\ UNCHANGED <<torn, bare, shelved>>
      /\ Carrying(call[k]) /\ Holding(k, call[k]) /\ Changing(k, call[k])
  BY DEF IInv, CallSound, Saving, Undo, At, others, MarkInv, MarkCall
<1>2. PICK r \in Request, changed \in Seq(Change) : r = call[k].r /\ changed = call[k].changed
  BY <1>1 DEF CallRecord
<1>3. CASE UNCHANGED store /\ End(k, "failed")
  BY <1>1, <1>3, EndMarks, QuietMarks
<1>4. CASE /\ changed # <<>>
           /\ store[Last(changed).target] = Marked(Last(changed).before, k)
           /\ store' = [store EXCEPT ![Last(changed).target] = Last(changed).before]
           /\ call' = [call EXCEPT ![k].changed = Front(@)]
  <2>1. /\ Last(changed) \in Change /\ Last(changed) = changed[Len(changed)]
        /\ Len(changed) \in Nat \ {0} /\ DOMAIN changed = 1..Len(changed)
    BY <1>2, <1>4, EmptySeq, ElementOfSeq DEF Last
  <2>2. PICK t \in Target, before \in Record :
          /\ t = Last(changed).target /\ before = Last(changed).before
          /\ t = changed[Len(changed)].target /\ before = changed[Len(changed)].before
    BY <2>1 DEF Change
  <2>3. /\ \A i \in DOMAIN changed : /\ changed[i].before.mark = 0
                                     /\ changed[i].target \in EventSpec \/ changed[i].target = r
                                     /\ changed[i].target = r => i = 1
        /\ k \notin torn =>
             \A s \in EventSpec : IsArchived(store[s]) /\ store[s].mark = k => s \in Touched(changed)
        /\ \/ Settled(r)
           \/ /\ changed[1].target = r /\ IsArchived(store[r]) /\ store[r].mark = k
    BY <1>1, <1>2, <1>4 DEF Changing, Marking
  <2>4. before.mark = 0 /\ before \in RequestRecord \cup SpecRecord /\ (t = r => Len(changed) = 1)
    BY <2>1, <2>2, <2>3 DEF Record
  <2>5. /\ Marked(before, k).mark = k /\ Marked(before, k).body = before.body
        /\ Marked(before, k) \in RequestRecord \cup SpecRecord /\ k # 0
        /\ before = Active(before.body)
    BY <2>4 DEF Marked, Active, RequestRecord, SpecRecord, Calls
  <2>6. store[t].mark = k /\ IsArchived(store[t]) /\ before = Active(store[t].body)
    BY <1>4, <2>2, <2>5, IntakeAssumption DEF IsArchived
  <2>7. store'[t] = before /\ \A u \in Target : u # t => store'[u] = store[u]
    BY <1>4, <2>2 DEF IInv, StoreSound
  <2>8. before # Absent /\ ~IsArchived(before)
    BY <2>4, IntakeAssumption DEF IsArchived
  <2>9. Lasting(k)
    BY <1>1, <2>6, <2>7, <2>8 DEF Lasting
  <2>10. Setting(k)
    BY <2>7, <2>8 DEF Setting
  <2>11. /\ call'[k].at = "undo" /\ call'[k].op = "archive" /\ call'[k].r = r
         /\ call'[k].locks = call[k].locks /\ call'[k].ids = call[k].ids
         /\ call'[k].changed = Front(changed) /\ call'[k].value = call[k].value
         /\ Apart(k)
    BY <1>1, <1>2, <1>4 DEF IInv, CallRecord, Apart
  <2>12. Going(k) /\ Leaving(k) /\ Locking(k)
    BY <1>1, <1>2, <2>11 DEF Going, Leaving, Locking, Late, Marking
  <2>13. Keeps(k)
    BY <1>1, <2>9, <2>11, <2>12 DEF Keeps
  <2> DEFINE left == Front(changed)
  <2>14. /\ DOMAIN left = 1..(Len(changed) - 1)
         /\ \A i \in 1..(Len(changed) - 1) : left[i] = changed[i]
    BY <1>2, <2>1, SubSeqProperties DEF Front
  <2> HIDE DEF left
  <2>15. Changing(k, call[k])'
    <3>1. \A i \in DOMAIN left : /\ left[i].before.mark = 0
                                 /\ left[i].target \in EventSpec \/ left[i].target = r
                                 /\ left[i].target = r => i = 1
      BY <2>1, <2>3, <2>14
    <3>2. ASSUME k \notin torn', NEW s \in EventSpec, IsArchived(store'[s]), store'[s].mark = k
          PROVE  s \in Touched(left)
      <4>1. s # t /\ store'[s] = store[s]
        BY <2>7, <2>8, <3>2, TargetsApart
      <4>2. PICK i \in DOMAIN changed : changed[i].target = s
        BY <1>1, <2>3, <3>2, <4>1 DEF Touched
      <4>3. i \in DOMAIN left /\ left[i].target = s
        BY <2>1, <2>2, <2>14, <4>1, <4>2
      <4> QED BY <4>3 DEF Touched
    <3>3. \/ Settled(r)'
          \/ left = <<>>
          \/ left # <<>> /\ left[1].target = r /\ IsArchived(store'[r]) /\ store'[r].mark = k
      <4>1. Settled(r) => Settled(r)'
        BY <2>13, SettledKept, TargetsApart DEF MarkInv, StoreMarks
      <4>2. CASE Len(changed) = 1
        <5>1. DOMAIN left = {}
          BY <2>14, <4>2
        <5>2. left = <<>>
          <6>1. left \in Seq(Change)
            BY <1>2, <2>1, SubSeqProperties DEF Front, left
          <6> QED BY <5>1, <6>1, EmptySeq
        <5> QED BY <5>2
      <4>3. CASE Len(changed) # 1
        <5>1. 1 \in DOMAIN left /\ left[1] = changed[1] /\ left # <<>>
          BY <2>1, <2>14, <4>3
        <5>2. store'[r] = store[r]
          BY <2>4, <2>7, <4>3, TargetsApart
        <5> QED BY <2>3, <4>1, <5>1, <5>2
      <4> QED BY <4>2, <4>3
    <3> QED BY <2>11, <3>1, <3>2, <3>3 DEF Changing, left
  <2>16. MarkCall(k)'
    BY <1>1, <1>2, <2>11, <2>15 DEF MarkCall, Carrying, Holding, Planning, Late, Marking
  <2> QED BY <1>1, <2>9, <2>10, <2>12, <2>13, <2>16, OneArchive DEF MarkInv, StoreMarks
<1> QED BY <1>2, <1>3, <1>4 DEF Undo

-----------------------------------------------------------------------------
(* The end of a call, and every step *)

LEMMA AuditMarks == ASSUME IInv, MarkInv, NEW k \in Calls, Audit(k) PROVE MarkInv'
<1>1. call[k].at = "audit" /\ call[k] \in CallRecord /\ UNCHANGED <<store, torn, bare>>
  BY DEF Audit, At, IInv
<1>2. call[k].op = "archive" => /\ call[k].r \in Request
                                /\ \A t \in {call[k].r} \cup call[k].ids : t \in bare \/ Settled(t)
  BY <1>1 DEF MarkInv, MarkCall, Holding
<1>3. \A t \in shelved' \ shelved : t \in Target /\ (t \in bare \/ Settled(t))
  BY <1>1, <1>2, TargetsApart DEF Audit, CallRecord
<1> QED BY <1>1, <1>3, EndMarks DEF Audit

LEMMA FailMarks == ASSUME IInv, MarkInv, NEW k \in Calls, Fail(k) PROVE MarkInv'
<1>1. UNCHANGED <<store, torn, bare, shelved>>
  BY DEF Fail, others
<1>2. CASE End(k, "failed")
  BY <1>1, <1>2, EndMarks
<1>3. CASE At(k, "apply") /\ Goto(k, "undo")
  BY <1>1, <1>3, QuietMarks, TurnMarks DEF MarkInv, StoreMarks
<1> QED BY <1>2, <1>3 DEF Fail

LEMMA InitMarks == Init => MarkInv
<1> SUFFICES ASSUME Init PROVE MarkInv
  OBVIOUS
<1>1. \A k \in Calls : call[k] = Idle
  BY DEF Init
<1>2. \A t \in Target : ~IsArchived(store[t]) /\ (store[t] # Absent => store[t].mark = 0)
  BY DEF Init, IsArchived, Active
<1>3. StoreMarks
  BY <1>2, TargetsApart DEF Init, StoreMarks, MarkKnown, MarkBacked
<1>4. LocksApart
  BY <1>1 DEF LocksApart, Idle
<1>5. \A k \in Calls : MarkCall(k)
  BY <1>1 DEF MarkCall, Carrying, Holding, Planning, Changing, Marking, Idle
<1> QED BY <1>3, <1>4, <1>5 DEF MarkInv

LEMMA StillMarks == ASSUME MarkInv, UNCHANGED vars PROVE MarkInv'
<1> USE DEF vars
<1>1. StoreMarks'
  BY DEF MarkInv, StoreMarks, MarkKnown, Settled, MarkBacked
<1>2. LocksApart'
  BY DEF MarkInv, LocksApart
<1>3. ASSUME NEW k \in Calls PROVE MarkCall(k)'
  <2>1. MarkCall(k)
    BY DEF MarkInv
  <2>2. Carrying(call[k])'
    BY <2>1 DEF MarkCall, Carrying, MarkKnown
  <2>3. Holding(k, call[k])'
    BY <2>1 DEF MarkCall, Holding, Settled, Related
  <2>4. Planning(call[k])' /\ Changing(k, call[k])'
    BY <2>1 DEF MarkCall, Planning, Changing, Settled
  <2> QED BY <2>2, <2>3, <2>4 DEF MarkCall
<1> QED BY <1>1, <1>2, <1>3 DEF MarkInv

\* Every step of a call keeps the marks, and changes an archived record only to take its own
\* mark back.
LEMMA CallMarks ==
  ASSUME IInv, MarkInv, Next
  PROVE  MarkInv' /\ \E k \in Calls : Lasting(k)
<1>1. PICK k \in Calls :
        \/ BeginUpload(k) \/ BeginForm(k) \/ BeginText(k) \/ BeginPut(k) \/ BeginPatch(k)
        \/ BeginArchive(k) \/ BeginDecision(k)
        \/ Serve(k) \/ Fail(k)
  BY DEF Next
<1>2. CASE Insert(k) \/ Swap(k) \/ InsertSpec(k) \/ InsertRequest(k) \/ Apply(k) \/ Undo(k)
  BY <1>2, InsertMarks, SwapMarks, InsertSpecMarks, InsertRequestMarks, ApplyMarks, UndoMarks
<1>3. CASE \/ BeginUpload(k) \/ BeginForm(k) \/ BeginText(k) \/ BeginPut(k) \/ BeginPatch(k)
           \/ BeginArchive(k) \/ BeginDecision(k)
  <2>1. UNCHANGED store
    BY <1>3 DEF BeginUpload, BeginForm, BeginText, BeginPut, BeginPatch, BeginArchive, BeginDecision, Begin
  <2> QED BY <1>3, <2>1, BeginMarks DEF Lasting
<1>4. CASE \/ Register(k) \/ Publish(k) \/ Load(k) \/ Get(k) \/ Lock(k) \/ Replace(k) \/ Observe(k)
           \/ CheckRequest(k) \/ Relate(k) \/ LockAll(k) \/ Check(k) \/ Read(k) \/ Decide(k)
           \/ Audit(k) \/ Fail(k)
  <2>1. UNCHANGED store
    BY <1>4 DEF Register, Publish, Load, Get, Lock, Replace, Observe, CheckRequest, Relate, LockAll,
       Check, Read, Decide, Audit, Fail
  <2>2. MarkInv'
    BY <1>4, RegisterMarks, LoadMarks, GetMarks, LockMarks, ReplaceMarks, ObserveMarks,
       CheckRequestMarks, RelateMarks, ReadMarks, DecideMarks, AuditMarks, FailMarks
  <2> QED BY <2>1, <2>2 DEF Lasting
<1> QED BY <1>1, <1>2, <1>3, <1>4 DEF Serve

\* Whatever is saved, replaced, archived and undone at the same time, every mark is that of an
\* archive that has the record's lock for as long as it may take the mark back.
THEOREM MarksSound == Spec => []MarkInv
<1>1. Init => IInv /\ MarkInv
  BY InitSound, InitMarks
<1>2. IInv /\ MarkInv /\ [Next]_vars => (IInv /\ MarkInv)'
  BY StepSound, CallMarks, StillMarks
<1> QED BY <1>1, <1>2, PTL DEF Spec

\* A failed archive takes its request back last, so that no spec stays archived without it: the
\* undo of archiveIntakeRequestWithSpecs, beside the routes that save and replace the same specs.
THEOREM MarksAreBacked == Spec => []MarksBacked
<1>1. MarkInv => MarksBacked
  BY DEF MarkInv, StoreMarks, MarkBacked, MarksBacked, Settled, Marking, Ended, At
<1> QED BY <1>1, MarksSound, PTL

\* Archiving is monotonic: only the archive that marked a record, not yet answered, takes the
\* mark back, and never from what a finished archive has reported.
THEOREM ArchiveIsFinal == Spec => ArchiveStands
<1>1. ASSUME IInv, MarkInv, [Next]_vars, NEW t \in Target, IsArchived(store[t]), store'[t] # store[t]
      PROVE  /\ t \notin shelved \/ t \in bare
             /\ At(store[t].mark, "undo")
             /\ store'[t] = Active(store[t].body)
  <2>1. PICK k \in Calls : Lasting(k)
    BY <1>1, CallMarks DEF vars
  <2>2. /\ store[t].mark = k /\ call[k].at = "undo" /\ store'[t] = Active(store[t].body)
    BY <1>1, <2>1 DEF Lasting
  <2>3. ~Settled(t)
    BY <2>2 DEF Settled, Marking
  <2> QED BY <1>1, <2>2, <2>3 DEF At, MarkInv, StoreMarks
<1>2. IInv /\ MarkInv /\ [Next]_vars
        => [\A t \in Target : IsArchived(store[t]) /\ store'[t] # store[t]
              => /\ t \notin shelved \/ t \in bare
                 /\ At(store[t].mark, "undo")
                 /\ store'[t] = Active(store[t].body)]_vars
  BY <1>1
<1> QED BY <1>2, IntakeSound, MarksSound, PTL DEF Spec, ArchiveStands
===============================================================================
