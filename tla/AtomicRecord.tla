----------------------------- MODULE AtomicRecord -----------------------------
(***************************************************************************)
(* What a stored record promises its users, in either backend: every call  *)
(* takes effect at one instant between its start and its return, or fails. *)
(* A call that fails changes nothing - except that an error may also hide  *)
(* an effect that did take place, and only insertWithResult never does so. *)
(***************************************************************************)
CONSTANTS Client, Value, VersionOf, NoRecord

VARIABLES record,    \* the stored value, or NoRecord
          call,      \* what each client asks for
          outcome,   \* how its call stands
          found      \* the value its last get returned

vars == <<record, call, outcome, found>>

Request ==
  UNION { [kind : {"cas", "casExact"}, expected : Value, value : Value],
          [kind : {"set", "insert"}, expected : {NoRecord}, value : Value],
          [kind : {"delete"}, expected : Value, value : {NoRecord}],
          [kind : {"get"}, expected : {NoRecord}, value : {NoRecord}] }

\* Outcomes that say what the call did or found.
Answers == {"read", "created", "exists", "written", "updated", "deleted",
            "conflict", "missing"}

Outcomes == Answers \cup {"idle", "pending", "error", "dead"}

\* compareAndSet compares versions, the exact operations compare values.
Matches(req, v) ==
  IF req.kind = "cas" THEN VersionOf[v] = VersionOf[req.expected] ELSE v = req.expected

Nothing == [kind |-> "get", expected |-> NoRecord, value |-> NoRecord]

\* The call is over: forget it.
Forget(c) ==
  /\ call' = [call EXCEPT ![c] = Nothing]
  /\ found' = [found EXCEPT ![c] = NoRecord]

Ends(c, result) == outcome' = [outcome EXCEPT ![c] = result]

Init ==
  /\ record = NoRecord
  /\ call = [c \in Client |-> Nothing]
  /\ outcome = [c \in Client |-> "idle"]
  /\ found = [c \in Client |-> NoRecord]

Call(c, req) ==
  /\ outcome[c] = "idle"
  /\ call' = [call EXCEPT ![c] = req]
  /\ Ends(c, "pending")
  /\ UNCHANGED <<record, found>>

Get(c) ==
  /\ call[c].kind = "get"
  /\ found' = [found EXCEPT ![c] = record]
  /\ Ends(c, "read")
  /\ UNCHANGED record

Insert(c) ==
  /\ call[c].kind = "insert"
  /\ IF record = NoRecord
     THEN record' = call[c].value /\ Ends(c, "created")
     ELSE UNCHANGED record /\ Ends(c, "exists")
  /\ UNCHANGED found

Set(c) ==
  /\ call[c].kind = "set"
  /\ record' = call[c].value
  /\ Ends(c, "written")
  /\ UNCHANGED found

\* compareAndSet, compareAndSetExact, deleteIfExact
Replace(c) ==
  /\ call[c].kind \in {"cas", "casExact", "delete"}
  /\ IF record = NoRecord THEN UNCHANGED record /\ Ends(c, "missing")
     ELSE IF ~Matches(call[c], record) THEN UNCHANGED record /\ Ends(c, "conflict")
     ELSE /\ record' = call[c].value
          /\ Ends(c, IF call[c].kind = "delete" THEN "deleted" ELSE "updated")
  /\ UNCHANGED found

Fail(c) == Ends(c, "error") /\ UNCHANGED <<record, found>>

\* The instant at which the call takes effect.
Perform(c) ==
  /\ outcome[c] = "pending"
  /\ Get(c) \/ Insert(c) \/ Set(c) \/ Replace(c) \/ Fail(c)
  /\ UNCHANGED call

\* An error after the fact; the result of an insert survives it.
Spoil(c) ==
  /\ outcome[c] \in {"written", "updated", "deleted", "conflict", "missing"}
  /\ Ends(c, "error")
  /\ UNCHANGED <<record, call, found>>

Return(c) ==
  /\ outcome[c] \in Answers \cup {"error"}
  /\ Ends(c, "idle")
  /\ Forget(c)
  /\ UNCHANGED record

Die(c) == outcome[c] # "dead" /\ Ends(c, "dead") /\ Forget(c) /\ UNCHANGED record

Restart(c) == outcome[c] = "dead" /\ Ends(c, "idle") /\ UNCHANGED <<record, call, found>>

Next == \E c \in Client : \/ \E req \in Request : Call(c, req)
                          \/ Perform(c) \/ Spoil(c) \/ Return(c)
                          \/ Die(c) \/ Restart(c)

Spec == Init /\ [][Next]_vars
===============================================================================
