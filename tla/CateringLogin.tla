---------------------------- MODULE CateringLogin ----------------------------
(***************************************************************************)
(* Logging in to one account: CateringLoginService.authenticate (shared-   *)
(* core/src/catering-login-service.ts), the CAS operations of CateringUser *)
(* Store it uses, the administrator's command line that changes the same   *)
(* record, and the session check of every later request.                   *)
(*                                                                         *)
(* JavaScript runs each handler alone up to its next await, so an action   *)
(* is the code between two awaits.  The clock is read once, when an        *)
(* attempt begins, and every later decision of that attempt uses it.       *)
(* The record's compareAndSetExact is atomic here (module FileRecord).     *)
(***************************************************************************)
EXTENDS Integers, Sequences, FiniteSets

CONSTANTS
  Attempt,        \* login requests, each used once
  Source,         \* peers the attempts come from
  Fallback,       \* stands for every peer without a usable address
  Pin, Role,
  AccountLimit, SourceLimit, KdfLimit, MaxBuckets,
  Window, LockTime,
  MaxTime,        \* bound: the last moment of the clock
  MaxChanges      \* bound: administrative commands

ASSUME LoginAssumption ==
  /\ AccountLimit \in Nat \ {0} /\ SourceLimit \in Nat \ {0}
  /\ KdfLimit \in Nat \ {0} /\ MaxBuckets \in Nat \ {0}
  /\ Window \in Nat \ {0} /\ LockTime \in Nat \ {0}
  /\ MaxTime \in Nat /\ MaxChanges \in Nat
  /\ Fallback \notin Source

VARIABLES
  user,       \* the stored CateringUserRecord
  clock,
  buckets,    \* the source limiter's bucket of each peer, if it has one
  recent,     \* the trusted peers that have one, least recently used first
  attempt,    \* the requests
  sessions,   \* the cookies issued
  admin       \* the command line's run: commands left, record read

vars == <<user, clock, buckets, recent, attempt, sessions, admin>>

NoTime == -1
None == [kind |-> "none"]

Peers == Source \cup {Fallback}

\* done: answered (success is the cookie); lost: answered after a store error.
Points ==
  {"new", "lookup", "verify", "claim", "issue", "persist", "reread", "done", "lost"}

Users == [pin : Pin, role : Role, active : BOOLEAN, epoch : Nat, failures : Nat,
          window : Int, lock : Int, version : Nat]

\* evaluated and disturbed are history: the wrong PINs a bucket has seen, and
\* whether, since lookup, a write of the record did not raise its count.
Bucket == [failures : 1..SourceLimit, start : Nat, evaluated : Nat]

NewAttempt ==
  [pc |-> "new", source |-> Fallback, pin |-> CHOOSE p \in Pin : TRUE, now |-> 0,
   seen |-> None, expected |-> None, tries |-> 0, disturbed |-> FALSE]

Init ==
  /\ user \in [pin : Pin, role : Role, active : {TRUE}, epoch : {0}, failures : {0},
               window : {NoTime}, lock : {NoTime}, version : {0}]
  /\ clock = 0
  /\ buckets = [s \in Peers |-> None]
  /\ recent = <<>>
  /\ attempt = [a \in Attempt |-> NewAttempt]
  /\ sessions = {}
  /\ admin = [left |-> MaxChanges, read |-> None]

Set(a, r) == attempt' = [attempt EXCEPT ![a] = r]

At(a, point) == attempt[a].pc = point

Done == [NewAttempt EXCEPT !.pc = "done"]
Lost == [NewAttempt EXCEPT !.pc = "lost"]

-------------------------------------------------------------------------------
(* The account record *)

IsLocked(u, now) == u.lock > now

InWindow(u, now) == u.window # NoTime /\ now - u.window < Window

Failed(u, now) ==
  LET count == IF InWindow(u, now) THEN u.failures + 1 ELSE 1
  IN  [u EXCEPT !.failures = count,
                !.window = IF InWindow(u, now) THEN @ ELSE now,
                !.lock = IF count >= AccountLimit THEN now + LockTime ELSE NoTime,
                !.version = @ + 1]

Raised(u, now) == Failed(u, now).failures > u.failures

Succeeded(u) ==
  [u EXCEPT !.failures = 0, !.window = NoTime, !.lock = NoTime, !.version = @ + 1]

\* hasSameRetryableLoginSubject: only the login state may have moved.
SameSubject(u, v) ==
  u.pin = v.pin /\ u.role = v.role /\ u.active = v.active /\ u.epoch = v.epoch

\* authenticateSession: the cookie's binding names the account's current epoch.
Accepted(s) == user.active /\ s.epoch = user.epoch

-------------------------------------------------------------------------------
(* The source limiter *)

Expired(b, now) == b.start + Window <= now

Live(s, now) == buckets[s] # None /\ ~Expired(buckets[s], now)

Limited(s, now) == Live(s, now) /\ buckets[s].failures >= SourceLimit

Without(s) == SelectSeq(recent, LAMBDA x : x # s)

\* The fallback bucket has no place in the order.
Latest(s, others) == IF s = Fallback THEN others ELSE Append(others, s)

\* currentBucket: drops an expired bucket, makes a live one the most recent.
Touch(s, now) ==
  IF Live(s, now)
  THEN recent' = Latest(s, Without(s)) /\ UNCHANGED buckets
  ELSE recent' = Without(s) /\ buckets' = [buckets EXCEPT ![s] = None]

\* storeBucket's room for one more: the expired trusted ones go, then the
\* least recently used one if the rest still fill the table.
WithRoom(s, now) ==
  LET kept == SelectSeq(recent, LAMBDA x : x # s /\ ~Expired(buckets[x], now))
  IN  IF Len(kept) < MaxBuckets THEN kept ELSE Tail(kept)

\* One failure more, or the first of a new bucket.
Added(s, now) ==
  IF Live(s, now)
  THEN [buckets[s] EXCEPT !.failures = @ + 1, !.evaluated = @ + 1]
  ELSE [failures |-> 1, start |-> now, evaluated |-> 1]

Count(s, now) ==
  LET rest == IF s = Fallback THEN recent ELSE WithRoom(s, now)
      stays(x) == x = Fallback \/ \E i \in DOMAIN rest : rest[i] = x
  IN  /\ recent' = Latest(s, rest)
      /\ buckets' = [x \in Peers |-> IF x = s THEN Added(s, now)
                                    ELSE IF stays(x) THEN buckets[x] ELSE None]

\* recordFailure: a full bucket is touched, not counted.
RecordFailure(s, now) ==
  IF Limited(s, now)
  THEN /\ recent' = Latest(s, Without(s))
       /\ buckets' = [buckets EXCEPT ![s].evaluated = @ + 1]
  ELSE Count(s, now)

-------------------------------------------------------------------------------
(* authenticate *)

InKdf == {a \in Attempt : At(a, "lookup") \/ At(a, "verify")}

\* Variation: one reservation more than the limit.
KdfFreeOneMore == Cardinality(InKdf) <= KdfLimit

KdfFree == Cardinality(InKdf) < KdfLimit

\* Clock, source limit and KDF reservation, all before the first await.
Start(a, s, p) ==
  /\ At(a, "new")
  /\ Touch(s, clock)
  /\ LET r == [attempt[a] EXCEPT !.source = s, !.pin = p, !.now = clock]
     IN  Set(a, IF Limited(s, clock) \/ ~KdfFree
                THEN Done
                ELSE [r EXCEPT !.pc = "lookup"])
  /\ UNCHANGED <<user, clock, sessions, admin>>

\* findByLoginCode: the account, or nothing for another code or on an error.
Lookup(a) ==
  /\ At(a, "lookup")
  /\ \E found \in {user, None} :
       Set(a, [attempt[a] EXCEPT !.pc = "verify", !.seen = found, !.expected = found])
  /\ UNCHANGED <<user, clock, buckets, recent, sessions, admin>>

\* Variation: a lock does not stop the right PIN.
OpensLocked(r, matches) == r.seen # None /\ matches /\ r.seen.active

\* The PIN check fails for a wrong or malformed PIN, or when it throws; with it
\* the reservation ends.
Opens(r, matches) ==
  r.seen # None /\ matches /\ r.seen.active /\ ~IsLocked(r.seen, r.now)

\* activeUserWithWrongPin: the failures the account itself counts.
WrongPin(r, matches) ==
  r.seen # None /\ r.seen.active /\ ~IsLocked(r.seen, r.now) /\ ~matches

Reject(a) ==
  /\ At(a, "verify")
  /\ LET r == attempt[a]
         limited == Limited(r.source, r.now)
     IN  \E matches \in BOOLEAN :
           /\ matches => r.seen # None /\ r.pin = r.seen.pin
           /\ ~Opens(r, matches)
           /\ RecordFailure(r.source, r.now)
           /\ Set(a, CASE limited -> Done
                       [] ~limited /\ WrongPin(r, matches) -> [r EXCEPT !.pc = "persist"]
                       [] OTHER -> Done)
  /\ UNCHANGED <<user, clock, sessions, admin>>

Match(a) ==
  /\ At(a, "verify")
  /\ attempt[a].seen # None
  /\ attempt[a].pin = attempt[a].seen.pin
  /\ Opens(attempt[a], TRUE)
  /\ Set(a, [attempt[a] EXCEPT !.pc = "claim"])
  /\ UNCHANGED <<user, clock, buckets, recent, sessions, admin>>

\* What a write of the record does to the history of the attempts under way.
Disturbed(r) == [r EXCEPT !.disturbed = r.seen # None]

Disturb(a, r) ==
  attempt' = [x \in Attempt |-> IF x = a THEN r ELSE Disturbed(attempt[x])]

\* replaceExact after the right PIN; it may throw with or without the write.
Claim(a) ==
  /\ At(a, "claim")
  /\ LET r == attempt[a]
     IN  \/ /\ user = r.expected
            /\ user' = Succeeded(user)
            /\ \E next \in {[r EXCEPT !.pc = "issue"], Done} : Disturb(a, next)
         \/ Set(a, Done) /\ UNCHANGED user
  /\ UNCHANGED <<clock, buckets, recent, sessions, admin>>

\* The login route signs the cookie for the record the CAS wrote.
Issue(a) ==
  /\ At(a, "issue")
  /\ sessions' = sessions \cup
       {[pin |-> attempt[a].pin, role |-> attempt[a].expected.role,
         epoch |-> attempt[a].expected.epoch]}
  /\ Set(a, Done)
  /\ UNCHANGED <<user, clock, buckets, recent, admin>>

\* Variation: the failure is written over whatever is stored.
PersistBlind(a) ==
  /\ At(a, "persist")
  /\ user' = Failed(attempt[a].expected, attempt[a].now)
  /\ Set(a, Done)
  /\ UNCHANGED <<clock, buckets, recent, sessions, admin>>

\* persistFailedLogin's CAS: counted and done, or a conflict to look into.
Persist(a) ==
  /\ At(a, "persist")
  /\ LET r == attempt[a]
     IN  IF user = r.expected
         THEN /\ user' = Failed(user, r.now)
              /\ IF Raised(user, r.now)
                 THEN Set(a, Done)
                 ELSE Disturb(a, Done)
         ELSE /\ Set(a, [r EXCEPT !.pc = "reread", !.tries = @ + 1])
              /\ UNCHANGED user
  /\ UNCHANGED <<clock, buckets, recent, sessions, admin>>

\* Variation: one try fewer.
TriesLeftOneFewer(r) == r.tries + 1 < AccountLimit

TriesLeft(r) == r.tries < AccountLimit

Reread(a) ==
  /\ At(a, "reread")
  /\ LET r == attempt[a]
     IN  Set(a, IF SameSubject(r.seen, user) /\ ~IsLocked(user, r.now) /\ TriesLeft(r)
                THEN [r EXCEPT !.pc = "persist", !.expected = user]
                ELSE Done)
  /\ UNCHANGED <<user, clock, buckets, recent, sessions, admin>>

\* The store throws (before a write or after it): the attempt gives up.
GiveUp(a) ==
  /\ At(a, "persist") \/ At(a, "reread")
  /\ \/ Set(a, Lost) /\ UNCHANGED user
     \/ /\ At(a, "persist") /\ user = attempt[a].expected
        /\ user' = Failed(user, attempt[a].now)
        /\ IF Raised(user, attempt[a].now) THEN Set(a, Lost) ELSE Disturb(a, Lost)
  /\ UNCHANGED <<clock, buckets, recent, sessions, admin>>

-------------------------------------------------------------------------------
(* The administrator: set-pin, set-role and set-active of manage-catering-user *)

AdminRead ==
  /\ admin.left > 0 /\ admin.read = None
  /\ admin' = [admin EXCEPT !.read = user]
  /\ UNCHANGED <<user, clock, buckets, recent, attempt, sessions>>

\* Variation: only a new PIN ends the sessions.
SecurityChangedPin(old, new, setPin) == setPin

\* A set PIN has a fresh salt, so it always changes the hash.
SecurityChanged(old, new, setPin) ==
  setPin \/ new.role # old.role \/ new.active # old.active

\* Variation: an administrator's change lifts the lock.
UpdateSecurityUnlocking(old, new, setPin) ==
  [new EXCEPT !.epoch = old.epoch + (IF SecurityChanged(old, new, setPin) THEN 1 ELSE 0),
              !.lock = NoTime, !.version = old.version + 1]

UpdateSecurity(old, new, setPin) ==
  [new EXCEPT !.epoch = old.epoch + (IF SecurityChanged(old, new, setPin) THEN 1 ELSE 0),
              !.version = old.version + 1]

Replacements(u) ==
  {UpdateSecurity(u, [u EXCEPT !.pin = p], TRUE) : p \in Pin}
  \cup {UpdateSecurity(u, [u EXCEPT !.role = r], FALSE) : r \in Role}
  \cup {UpdateSecurity(u, [u EXCEPT !.active = b], FALSE) : b \in BOOLEAN}

AdminWrite ==
  /\ admin.read # None
  /\ IF user = admin.read
     THEN /\ user' \in Replacements(admin.read)
          /\ attempt' = [x \in Attempt |-> Disturbed(attempt[x])]
     ELSE UNCHANGED <<user, attempt>>
  /\ admin' = [left |-> admin.left - 1, read |-> None]
  /\ UNCHANGED <<clock, buckets, recent, sessions>>

Tick ==
  /\ clock < MaxTime
  /\ clock' = clock + 1
  /\ UNCHANGED <<user, buckets, recent, attempt, sessions, admin>>

Next ==
  \/ \E a \in Attempt :
       \/ \E s \in Peers, p \in Pin : Start(a, s, p)
       \/ Lookup(a) \/ Reject(a) \/ Match(a) \/ Claim(a) \/ Issue(a)
       \/ Persist(a) \/ Reread(a) \/ GiveUp(a)
  \/ AdminRead \/ AdminWrite
  \/ Tick

Spec == Init /\ [][Next]_vars

-------------------------------------------------------------------------------
Attempts ==
  [pc : Points, source : Peers, pin : Pin, now : Nat, seen : Users \cup {None},
   expected : Users \cup {None}, tries : 0..AccountLimit, disturbed : BOOLEAN]

\* The shape of the state.  No decision of an attempt uses a clock ahead of the
\* time, and persistFailedLogin's loop runs at most AccountLimit times.
TypeOK ==
  /\ user \in Users
  /\ clock \in 0..MaxTime
  /\ buckets \in [Peers -> Bucket \cup {None}]
  /\ recent \in Seq(Source)
  /\ attempt \in [Attempt -> Attempts]
  /\ \A a \in Attempt : attempt[a].now <= clock
  /\ sessions \subseteq [pin : Pin, role : Role, epoch : Nat]
  /\ admin \in [left : 0..MaxChanges, read : Users \cup {None}]

\* A cookie that is still accepted was earned with the account's present PIN and
\* carries its present role: setting a PIN or a role, or deactivating and
\* reactivating the account, ends every earlier session, also one whose login
\* was still under way (catering-request-auth.ts, updateSecurity).
SessionsCurrent ==
  \A s \in sessions : Accepted(s) => s.pin = user.pin /\ s.role = user.role

\* Until it runs out nothing lifts or moves an account's lock: no login that was
\* checked before the lock was set, no older failure, no administrator.
LockStands ==
  [][IsLocked(user, clock) => user'.lock = user.lock]_vars

\* A failed PIN check that ends without being counted leaves an account that has
\* reached the limit, unless a login, an administrator or a new window changed the
\* record without raising its count, or the store failed: persistFailedLogin's tries are enough for any storm of
\* concurrent failures.
FailuresCounted ==
  [][\A a \in Attempt :
       (At(a, "reread") /\ attempt'[a].pc = "done" /\ ~attempt[a].disturbed)
         => user.failures >= AccountLimit]_vars

\* A login succeeds only on the record its PIN was checked against, active and
\* not locked at the time of the attempt (replaceExact after the PIN check).
LoginsAreCurrent ==
  [][\A a \in Attempt :
       (At(a, "claim") /\ attempt'[a].pc = "issue")
         => /\ user.active /\ user.pin = attempt[a].pin
            /\ ~IsLocked(user, attempt[a].now)]_vars

\* While its bucket is remembered a source gets at most SourceLimit wrong PINs
\* checked, and those of the attempts already admitted when it reached the limit:
\* the limit is read before the PIN check and written after it.
GuessesBounded ==
  \A s \in Peers :
    buckets[s] # None => buckets[s].evaluated <= SourceLimit + KdfLimit - 1
===============================================================================
