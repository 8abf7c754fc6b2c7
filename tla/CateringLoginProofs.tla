------------------------- MODULE CateringLoginProofs -------------------------
(***************************************************************************)
(* Proofs about CateringLogin: sessions end with the credential they were  *)
(* earned with, a lock stands until it runs out, a login opens only the    *)
(* account it was checked against, competing failures are all counted, and *)
(* a source's guesses are bounded, for every number of attempts, sources   *)
(* and commands and every value of the limits.                             *)
(***************************************************************************)
EXTENDS CateringLogin, FiniteSetTheorems, TLAPS

-------------------------------------------------------------------------------
(* The inductive invariant *)

Cores ==
  [pc : Points, source : Peers, pin : Pin, now : Nat, seen : Users \cup {None},
   expected : Users \cup {None}, tries : Nat, disturbed : BOOLEAN]

Cookies == [pin : Pin, role : Role, epoch : Nat]

\* v carries a credential that is the account's, or that a later epoch replaced.
Within(v, u) ==
  v.epoch <= u.epoch /\ (v.epoch = u.epoch => v.pin = u.pin /\ v.role = u.role)

Shape ==
  /\ user \in Users /\ clock \in Nat
  /\ attempt \in [Attempt -> Cores]
  /\ sessions \in SUBSET Cookies
  /\ admin.read \in Users \cup {None}

\* What an attempt holds at each point: from its PIN check on it has the record
\* the PIN was checked against, and it writes over no record it saw locked.
Holds(r, u, t) ==
  /\ r.now <= t
  /\ r.pc = "verify" => r.expected = r.seen
  /\ r.pc \in {"claim", "issue"} =>
       /\ r.seen \in Users /\ r.expected = r.seen
       /\ r.pin = r.seen.pin /\ r.seen.active
  /\ r.pc \in {"claim", "persist"} =>
       r.expected \in Users /\ ~IsLocked(r.expected, r.now)
  /\ r.expected \in Users => Within(r.expected, u)

LoginInv ==
  /\ Shape
  /\ \A a \in Attempt : Holds(attempt[a], user, clock)
  /\ \A s \in sessions : Within(s, user)

-------------------------------------------------------------------------------
(* What the operations do to the record *)

LEMMA NoneIsNoUser == None \notin Users
  BY DEF None, Users

\* Neither a failure, nor a success, nor a command of the administrator gives an
\* older epoch a new credential.
LEMMA RecordGrows ==
  ASSUME NEW u \in Users, NEW n \in Nat
  PROVE  /\ Failed(u, n) \in Users /\ Within(u, Failed(u, n))
         /\ Succeeded(u) \in Users /\ Within(u, Succeeded(u))
         /\ \A v \in Replacements(u) : v \in Users /\ Within(u, v) /\ v.lock = u.lock
<1>1. Failed(u, n) \in Users /\ Within(u, Failed(u, n))
  <2> DEFINE c == IF InWindow(u, n) THEN u.failures + 1 ELSE 1
             w == IF InWindow(u, n) THEN u.window ELSE n
             l == IF c >= AccountLimit THEN n + LockTime ELSE NoTime
  <2>1. c \in Nat /\ w \in Int /\ l \in Int
    BY LoginAssumption DEF Users, NoTime
  <2>2. Failed(u, n) = [u EXCEPT !.failures = c, !.window = w, !.lock = l,
                                 !.version = u.version + 1]
    BY DEF Failed, Users
  <2> HIDE DEF c, w, l
  <2>3. Failed(u, n) = [pin |-> u.pin, role |-> u.role, active |-> u.active,
                        epoch |-> u.epoch, failures |-> c, window |-> w, lock |-> l,
                        version |-> u.version + 1]
    BY <2>2 DEF Users
  <2> QED BY <2>1, <2>3 DEF Users, Within
<1>2. Succeeded(u) \in Users /\ Within(u, Succeeded(u))
  <2> DEFINE t == NoTime
             z == 0
  <2>1. z \in Nat /\ t \in Int
    BY DEF NoTime
  <2>2. Succeeded(u) = [u EXCEPT !.failures = z, !.window = t, !.lock = t,
                                 !.version = u.version + 1]
    BY DEF Succeeded, Users
  <2> HIDE DEF t, z
  <2>3. Succeeded(u) = [pin |-> u.pin, role |-> u.role, active |-> u.active,
                        epoch |-> u.epoch, failures |-> z, window |-> t,
                        lock |-> t, version |-> u.version + 1]
    BY <2>2 DEF Users
  <2> QED BY <2>1, <2>3 DEF Users, Within
<1>3. ASSUME NEW v \in Replacements(u)
      PROVE  v \in Users /\ Within(u, v) /\ v.lock = u.lock
  <2>1. CASE \E p \in Pin : v = UpdateSecurity(u, [u EXCEPT !.pin = p], TRUE)
    <3>1. PICK p \in Pin : v = UpdateSecurity(u, [u EXCEPT !.pin = p], TRUE)
      BY <2>1
    <3>2. v = [pin |-> p, role |-> u.role, active |-> u.active,
               epoch |-> u.epoch + 1, failures |-> u.failures,
               window |-> u.window, lock |-> u.lock, version |-> u.version + 1]
      BY <3>1 DEF UpdateSecurity, SecurityChanged, Users
    <3> QED BY <3>2 DEF Users, Within
  <2>2. CASE \E r \in Role : v = UpdateSecurity(u, [u EXCEPT !.role = r], FALSE)
    <3>1. PICK r \in Role : v = UpdateSecurity(u, [u EXCEPT !.role = r], FALSE)
      BY <2>2
    <3>2. v = [pin |-> u.pin, role |-> r, active |-> u.active,
               epoch |-> u.epoch + (IF r # u.role THEN 1 ELSE 0), failures |-> u.failures,
               window |-> u.window, lock |-> u.lock, version |-> u.version + 1]
      BY <3>1 DEF UpdateSecurity, SecurityChanged, Users
    <3> QED BY <3>2 DEF Users, Within
  <2>3. CASE \E b \in BOOLEAN : v = UpdateSecurity(u, [u EXCEPT !.active = b], FALSE)
    <3>1. PICK b \in BOOLEAN : v = UpdateSecurity(u, [u EXCEPT !.active = b], FALSE)
      BY <2>3
    <3>2. v = [pin |-> u.pin, role |-> u.role, active |-> b,
               epoch |-> u.epoch + (IF b # u.active THEN 1 ELSE 0), failures |-> u.failures,
               window |-> u.window, lock |-> u.lock, version |-> u.version + 1]
      BY <3>1 DEF UpdateSecurity, SecurityChanged, Users
    <3> QED BY <3>2 DEF Users, Within
  <2> QED BY <1>3, <2>1, <2>2, <2>3 DEF Replacements
<1> QED BY <1>1, <1>2, <1>3

LEMMA WithinIsTransitive ==
  ASSUME NEW u \in Users, NEW w \in Users, NEW v, v.epoch \in Nat,
         Within(v, u), Within(u, w)
  PROVE  Within(v, w)
  BY DEF Within, Users

LEMMA DoneIsCore ==
  ASSUME NEW p \in Pin
  PROVE  /\ NewAttempt \in Cores /\ Done \in Cores /\ Lost \in Cores
         /\ NewAttempt.now = 0 /\ Done.now = 0 /\ Lost.now = 0
         /\ NewAttempt.pc = "new" /\ Done.pc = "done" /\ Lost.pc = "lost"
         /\ NewAttempt.expected = None /\ Done.expected = None /\ Lost.expected = None
<1>1. (CHOOSE q \in Pin : TRUE) \in Pin
  OBVIOUS
<1> QED BY <1>1 DEF NewAttempt, Done, Lost, Cores, Points, Peers

\* An attempt left alone, but for the history flag, still holds what it held.
LEMMA HoldsOn ==
  ASSUME NEW r \in Cores, NEW u \in Users, NEW w \in Users, NEW t \in Nat, NEW s \in Nat,
         Holds(r, u, t), Within(u, w), t <= s
  PROVE  /\ Holds(r, w, s)
         /\ Disturbed(r) \in Cores /\ Holds(Disturbed(r), w, s)
<1>1. r.expected \in Users => Within(r.expected, w)
  BY DEF Holds, Within, Users
<1>2. Holds(r, w, s)
  BY <1>1 DEF Holds, Cores
<1>3. \E b \in BOOLEAN : Disturbed(r) = [r EXCEPT !.disturbed = b]
  <2>1. (r.seen # None) \in BOOLEAN
    OBVIOUS
  <2> QED BY <2>1 DEF Disturbed
<1>4. PICK b \in BOOLEAN : Disturbed(r) = [r EXCEPT !.disturbed = b]
  BY <1>3
<1>5. /\ Disturbed(r) \in Cores
      /\ Disturbed(r).pc = r.pc /\ Disturbed(r).pin = r.pin /\ Disturbed(r).now = r.now
      /\ Disturbed(r).seen = r.seen /\ Disturbed(r).expected = r.expected
  BY <1>4 DEF Cores
<1> QED BY <1>2, <1>5 DEF Holds

LEMMA EndsHold ==
  ASSUME NEW u \in Users, NEW t \in Nat
  PROVE  /\ NewAttempt \in Cores /\ Holds(NewAttempt, u, t)
         /\ Done \in Cores /\ Holds(Done, u, t)
         /\ Lost \in Cores /\ Holds(Lost, u, t)
<1>1. u.pin \in Pin
  BY DEF Users
<1> QED BY <1>1, DoneIsCore, NoneIsNoUser DEF Holds

\* A step that changes one attempt and lets the record and the clock grow.
LEMMA OneAttempt ==
  ASSUME NEW u \in Users, NEW w \in Users, NEW t \in Nat, NEW s \in Nat,
         Within(u, w), t <= s,
         NEW f \in [Attempt -> Cores], NEW g, NEW a \in Attempt, NEW r \in Cores,
         \A x \in Attempt : Holds(f[x], u, t),
         Holds(r, w, s),
         \/ g = [f EXCEPT ![a] = r]
         \/ g = [x \in Attempt |-> IF x = a THEN r ELSE Disturbed(f[x])]
  PROVE  g \in [Attempt -> Cores] /\ \A x \in Attempt : Holds(g[x], w, s)
<1>1. \A x \in Attempt : /\ Holds(f[x], w, s)
                         /\ Disturbed(f[x]) \in Cores /\ Holds(Disturbed(f[x]), w, s)
  BY HoldsOn
<1> QED BY <1>1

LEMMA AllAttempts ==
  ASSUME NEW u \in Users, NEW w \in Users, NEW t \in Nat, NEW s \in Nat,
         Within(u, w), t <= s,
         NEW f \in [Attempt -> Cores], NEW g,
         \A x \in Attempt : Holds(f[x], u, t),
         g = f \/ g = [x \in Attempt |-> Disturbed(f[x])]
  PROVE  g \in [Attempt -> Cores] /\ \A x \in Attempt : Holds(g[x], w, s)
<1>1. \A x \in Attempt : /\ Holds(f[x], w, s)
                         /\ Disturbed(f[x]) \in Cores /\ Holds(Disturbed(f[x]), w, s)
  BY HoldsOn
<1> QED BY <1>1

LEMMA SelfWithin == ASSUME NEW u \in Users PROVE Within(u, u)
  BY DEF Within, Users

-------------------------------------------------------------------------------
(* The invariant holds *)

LEMMA InitInv == Init => LoginInv
<1> SUFFICES ASSUME Init PROVE LoginInv
  OBVIOUS
<1>1. user \in Users
  <2>1. PICK p \in Pin, r \in Role :
          user = [pin |-> p, role |-> r, active |-> TRUE, epoch |-> 0, failures |-> 0,
                  window |-> NoTime, lock |-> NoTime, version |-> 0]
    BY DEF Init
  <2>2. NoTime \in Int
    BY DEF NoTime
  <2> HIDE DEF NoTime
  <2> QED BY <2>1, <2>2 DEF Users
<1>2. clock = 0 /\ clock \in Nat
  BY DEF Init
<1>3. attempt \in [Attempt -> Cores] /\ \A a \in Attempt : Holds(attempt[a], user, clock)
  BY <1>1, <1>2, EndsHold DEF Init
<1> QED BY <1>1, <1>2, <1>3 DEF Init, LoginInv, Shape

LEMMA StepInv == LoginInv /\ [Next]_vars => LoginInv'
<1> SUFFICES ASSUME LoginInv, [Next]_vars PROVE LoginInv'
  OBVIOUS
<1> USE SelfWithin
<1>0. /\ user \in Users /\ clock \in Nat
      /\ attempt \in [Attempt -> Cores]
      /\ \A x \in Attempt : Holds(attempt[x], user, clock)
      /\ sessions \in SUBSET Cookies /\ \A s \in sessions : Within(s, user)
      /\ admin.read \in Users \cup {None}
  BY DEF LoginInv, Shape
<1>a. ASSUME user' \in Users, Within(user, user'), sessions' = sessions
      PROVE  sessions' \in SUBSET Cookies /\ \A s \in sessions' : Within(s, user')
  BY <1>0, <1>a DEF Within, Users, Cookies
<1>1. ASSUME NEW a \in Attempt, NEW s \in Peers, NEW p \in Pin, Start(a, s, p)
      PROVE  LoginInv'
  <2>1. PICK r \in Cores : attempt' = [attempt EXCEPT ![a] = r] /\ Holds(r, user, clock)
    <3> DEFINE n == [attempt[a] EXCEPT !.source = s, !.pin = p, !.now = clock]
    <3>1. n \in Cores /\ n.now = clock /\ n.pc = "new" /\ n.expected = attempt[a].expected
      BY <1>0, <1>1 DEF Cores, Start, At
    <3> DEFINE m == [n EXCEPT !.pc = "lookup"]
    <3>2. m \in Cores /\ m.now = clock /\ m.pc = "lookup"
          /\ m.expected = attempt[a].expected
      BY <3>1 DEF Cores, Points
    <3>3. Holds(m, user, clock)
      BY <1>0, <3>2 DEF Holds
    <3>4. attempt' = [attempt EXCEPT ![a] = Done] \/ attempt' = [attempt EXCEPT ![a] = m]
      BY <1>1 DEF Start, Set
    <3> QED BY <1>0, <3>2, <3>3, <3>4, EndsHold
  <2> QED BY <1>0, <1>1, <1>a, <2>1, OneAttempt DEF Start, LoginInv, Shape
<1>2. ASSUME NEW a \in Attempt, Lookup(a) PROVE LoginInv'
  <2>1. PICK r \in Cores : attempt' = [attempt EXCEPT ![a] = r] /\ Holds(r, user, clock)
    <3>1. PICK found \in {user, None} :
            attempt' = [attempt EXCEPT ![a] =
              [attempt[a] EXCEPT !.pc = "verify", !.seen = found, !.expected = found]]
      BY <1>2 DEF Lookup, Set
    <3> DEFINE m == [attempt[a] EXCEPT !.pc = "verify", !.seen = found,
                                       !.expected = found]
    <3>2. m \in Cores /\ m.pc = "verify" /\ m.seen = found /\ m.expected = found
          /\ m.now = attempt[a].now
      BY <1>0 DEF Cores, Points
    <3>3. Holds(m, user, clock)
      BY <1>0, <3>2, NoneIsNoUser DEF Holds
    <3> QED BY <3>1, <3>2, <3>3
  <2> QED BY <1>0, <1>2, <1>a, <2>1, OneAttempt DEF Lookup, LoginInv, Shape
<1>3. ASSUME NEW a \in Attempt, Reject(a) PROVE LoginInv'
  <2>1. PICK r \in Cores : attempt' = [attempt EXCEPT ![a] = r] /\ Holds(r, user, clock)
    <3> DEFINE m == [attempt[a] EXCEPT !.pc = "persist"]
    <3>1. m \in Cores /\ m.pc = "persist" /\ m.seen = attempt[a].seen
          /\ m.expected = attempt[a].expected /\ m.now = attempt[a].now
      BY <1>0 DEF Cores, Points
    <3>2. \/ attempt' = [attempt EXCEPT ![a] = Done]
          \/ /\ attempt' = [attempt EXCEPT ![a] = m]
             /\ \E matches \in BOOLEAN : WrongPin(attempt[a], matches)
      BY <1>3 DEF Reject, Set
    <3>3. ASSUME \E matches \in BOOLEAN : WrongPin(attempt[a], matches)
          PROVE  Holds(m, user, clock)
      <4>1. attempt[a].seen # None /\ ~IsLocked(attempt[a].seen, attempt[a].now)
        BY <3>3 DEF WrongPin
      <4>2. attempt[a].seen \in Users /\ attempt[a].expected = attempt[a].seen
        BY <1>0, <1>3, <4>1 DEF Reject, At, Holds, Cores
      <4> QED BY <1>0, <3>1, <4>1, <4>2 DEF Holds
    <3> QED BY <1>0, <3>1, <3>2, <3>3, EndsHold
  <2> QED BY <1>0, <1>3, <1>a, <2>1, OneAttempt DEF Reject, LoginInv, Shape
<1>4. ASSUME NEW a \in Attempt, Match(a) PROVE LoginInv'
  <2>1. PICK r \in Cores : attempt' = [attempt EXCEPT ![a] = r] /\ Holds(r, user, clock)
    <3> DEFINE m == [attempt[a] EXCEPT !.pc = "claim"]
    <3>1. m \in Cores /\ m.pc = "claim" /\ m.seen = attempt[a].seen
          /\ m.expected = attempt[a].expected /\ m.now = attempt[a].now
          /\ m.pin = attempt[a].pin
      BY <1>0 DEF Cores, Points
    <3>2. attempt' = [attempt EXCEPT ![a] = m]
      BY <1>4 DEF Match, Set
    <3>3. /\ attempt[a].seen \in Users /\ attempt[a].expected = attempt[a].seen
          /\ attempt[a].seen.active /\ attempt[a].pin = attempt[a].seen.pin
          /\ ~IsLocked(attempt[a].seen, attempt[a].now)
      BY <1>0, <1>4 DEF Match, At, Holds, Cores, Opens
    <3>4. Holds(m, user, clock)
      BY <1>0, <3>1, <3>3 DEF Holds
    <3> QED BY <3>1, <3>2, <3>4
  <2> QED BY <1>0, <1>4, <1>a, <2>1, OneAttempt DEF Match, LoginInv, Shape
<1>5. ASSUME NEW a \in Attempt, Claim(a) PROVE LoginInv'
  <2>1. CASE user = attempt[a].expected /\ user' = Succeeded(user)
             /\ \E next \in {[attempt[a] EXCEPT !.pc = "issue"], Done} : Disturb(a, next)
    <3>1. user' \in Users /\ Within(user, user')
      BY <1>0, <2>1, RecordGrows
    <3> DEFINE m == [attempt[a] EXCEPT !.pc = "issue"]
    <3>2. m \in Cores /\ m.pc = "issue" /\ m.seen = attempt[a].seen
          /\ m.expected = attempt[a].expected /\ m.now = attempt[a].now
          /\ m.pin = attempt[a].pin
      BY <1>0 DEF Cores, Points
    <3>3. Holds(m, user', clock)
      BY <1>0, <1>5, <2>1, <3>1, <3>2 DEF Claim, At, Holds
    <3>4. PICK r \in Cores : Disturb(a, r) /\ Holds(r, user', clock)
      BY <1>0, <2>1, <3>1, <3>2, <3>3, EndsHold
    <3>5. attempt' \in [Attempt -> Cores] /\ \A x \in Attempt : Holds(attempt'[x], user', clock)
      BY <1>0, <3>1, <3>4, OneAttempt DEF Disturb
    <3> QED BY <1>0, <1>5, <1>a, <3>1, <3>5 DEF Claim, LoginInv, Shape
  <2>2. CASE Set(a, Done) /\ UNCHANGED user
    BY <1>0, <1>5, <1>a, <2>2, EndsHold, OneAttempt DEF Claim, Set, LoginInv, Shape
  <2> QED BY <1>5, <2>1, <2>2 DEF Claim
<1>6. ASSUME NEW a \in Attempt, Issue(a) PROVE LoginInv'
  <2> DEFINE cookie == [pin |-> attempt[a].pin, role |-> attempt[a].expected.role,
                        epoch |-> attempt[a].expected.epoch]
  <2>1. /\ attempt[a].expected \in Users /\ attempt[a].pin = attempt[a].expected.pin
        /\ Within(attempt[a].expected, user)
    BY <1>0, <1>6 DEF Issue, At, Holds
  <2>2. cookie \in Cookies /\ Within(cookie, user)
    BY <2>1 DEF Cookies, Users, Within
  <2>3. sessions' \in SUBSET Cookies /\ \A s \in sessions' : Within(s, user)
    BY <1>0, <1>6, <2>2 DEF Issue
  <2>4. attempt' \in [Attempt -> Cores] /\ \A x \in Attempt : Holds(attempt'[x], user, clock)
    BY <1>0, <1>6, EndsHold, OneAttempt DEF Issue, Set
  <2> QED BY <1>0, <1>6, <2>3, <2>4 DEF Issue, LoginInv, Shape
<1>7. ASSUME NEW a \in Attempt, Persist(a) PROVE LoginInv'
  <2>0. attempt[a].now \in Nat
    BY <1>0 DEF Cores
  <2>1. CASE user = attempt[a].expected
    <3>1. user' = Failed(user, attempt[a].now)
      BY <1>7, <2>1 DEF Persist
    <3>2. user' \in Users /\ Within(user, user')
      BY <1>0, <2>0, <3>1, RecordGrows
    <3>3. attempt' = [attempt EXCEPT ![a] = Done] \/ Disturb(a, Done)
      BY <1>7, <2>1 DEF Persist, Set
    <3>a. Done \in Cores /\ Holds(Done, user', clock)
      BY <1>0, <3>2, EndsHold
    <3>4. attempt' \in [Attempt -> Cores] /\ \A x \in Attempt : Holds(attempt'[x], user', clock)
      BY <1>0, <3>2, <3>3, <3>a, OneAttempt DEF Disturb
    <3>5. clock' = clock /\ sessions' = sessions /\ admin' = admin
      BY <1>7 DEF Persist
    <3> QED BY <1>0, <1>a, <3>2, <3>4, <3>5 DEF LoginInv, Shape
  <2>2. CASE user # attempt[a].expected
    <3> DEFINE k == attempt[a].tries + 1
               m == [attempt[a] EXCEPT !.pc = "reread", !.tries = k]
    <3>1. k \in Nat
      BY <1>0 DEF Cores
    <3>2. attempt' = [attempt EXCEPT ![a] = m] /\ user' = user
      BY <1>0, <1>7, <2>2 DEF Persist, Set, Cores
    <3> HIDE DEF k
    <3>3. m \in Cores /\ m.pc = "reread" /\ m.seen = attempt[a].seen
          /\ m.expected = attempt[a].expected /\ m.now = attempt[a].now
      BY <1>0, <3>1 DEF Cores, Points
    <3>4. Holds(m, user, clock)
      BY <1>0, <3>3 DEF Holds
    <3> QED BY <1>0, <1>7, <1>a, <3>2, <3>3, <3>4, OneAttempt DEF Persist, LoginInv, Shape
  <2> QED BY <2>1, <2>2
<1>8. ASSUME NEW a \in Attempt, Reread(a) PROVE LoginInv'
  <2>1. PICK r \in Cores : attempt' = [attempt EXCEPT ![a] = r] /\ Holds(r, user, clock)
    <3> DEFINE m == [attempt[a] EXCEPT !.pc = "persist", !.expected = user]
    <3>1. m \in Cores /\ m.pc = "persist" /\ m.expected = user /\ m.now = attempt[a].now
      BY <1>0 DEF Cores, Points
    <3>2. \/ attempt' = [attempt EXCEPT ![a] = Done]
          \/ /\ attempt' = [attempt EXCEPT ![a] = m]
             /\ ~IsLocked(user, attempt[a].now)
      BY <1>8 DEF Reread, Set
    <3>3. ~IsLocked(user, attempt[a].now) => Holds(m, user, clock)
      BY <1>0, <3>1 DEF Holds
    <3> QED BY <1>0, <3>1, <3>2, <3>3, EndsHold
  <2> QED BY <1>0, <1>8, <1>a, <2>1, OneAttempt DEF Reread, LoginInv, Shape
<1>9. ASSUME NEW a \in Attempt, GiveUp(a) PROVE LoginInv'
  <2>0. attempt[a].now \in Nat
    BY <1>0 DEF Cores
  <2>1. /\ user' = user \/ user' = Failed(user, attempt[a].now)
        /\ attempt' = [attempt EXCEPT ![a] = Lost] \/ Disturb(a, Lost)
    BY <1>9 DEF GiveUp, Set
  <2>2. user' \in Users /\ Within(user, user')
    BY <1>0, <2>0, <2>1, RecordGrows
  <2>3. attempt' \in [Attempt -> Cores] /\ \A x \in Attempt : Holds(attempt'[x], user', clock)
    BY <1>0, <2>1, <2>2, EndsHold, OneAttempt DEF Disturb
  <2> QED BY <1>0, <1>9, <1>a, <2>2, <2>3 DEF GiveUp, LoginInv, Shape
<1>10. CASE AdminRead
  <2>1. admin'.read \in Users \cup {None}
    BY <1>0, <1>10 DEF AdminRead
  <2> QED BY <1>0, <1>10, <2>1 DEF AdminRead, LoginInv, Shape
<1>11. CASE AdminWrite
  <2>1. user' = user \/ user' \in Replacements(user)
    BY <1>11 DEF AdminWrite
  <2>2. user' \in Users /\ Within(user, user')
    BY <1>0, <2>1, RecordGrows
  <2>3. attempt' = attempt \/ attempt' = [x \in Attempt |-> Disturbed(attempt[x])]
    BY <1>11 DEF AdminWrite
  <2>4. attempt' \in [Attempt -> Cores] /\ \A x \in Attempt : Holds(attempt'[x], user', clock)
    BY <1>0, <2>2, <2>3, AllAttempts
  <2> QED BY <1>0, <1>11, <1>a, <2>2, <2>4 DEF AdminWrite, LoginInv, Shape
<1>12. CASE Tick
  <2>1. clock' \in Nat /\ clock <= clock'
    BY <1>0, <1>12 DEF Tick
  <2>2. attempt' \in [Attempt -> Cores] /\ \A x \in Attempt : Holds(attempt'[x], user, clock')
    BY <1>0, <1>12, <2>1, AllAttempts DEF Tick
  <2> QED BY <1>0, <1>12, <2>1, <2>2 DEF Tick, LoginInv, Shape
<1>13. CASE UNCHANGED vars
  BY <1>0, <1>13 DEF vars, LoginInv, Shape
<1> QED
  BY <1>1, <1>2, <1>3, <1>4, <1>5, <1>6, <1>7, <1>8, <1>9, <1>10, <1>11, <1>12, <1>13
  DEF Next

LEMMA Invariant == Spec => []LoginInv
  BY InitInv, StepInv, PTL DEF Spec

-------------------------------------------------------------------------------
(* Failures are counted *)

\* What an attempt knows of the account's count.  Since its lookup the count has
\* only grown, once for each of its conflicts, unless the attempt is disturbed.
Follows(r, u) ==
  /\ r.pc \in {"new", "lookup", "verify"} => r.tries = 0
  /\ r.pc \in {"persist", "reread"} => r.seen \in Users /\ ~IsLocked(r.seen, r.now)
  /\ r.pc \in {"verify", "persist", "reread"} /\ r.seen \in Users /\ ~r.disturbed =>
       /\ SameSubject(r.seen, u)
       /\ IsLocked(u, r.now) => IsLocked(r.seen, r.now) \/ u.failures >= AccountLimit
       /\ r.pc = "reread" => r.tries <= u.failures
       /\ r.pc # "reread" => /\ r.tries <= r.expected.failures
                             /\ u = r.expected \/ r.expected.failures < u.failures

CountInv == \A a \in Attempt : Follows(attempt[a], user)

\* A failure that raises the count.
Raises(u, w) == \E n \in Nat : w = Failed(u, n) /\ Raised(u, n)

LEMMA RaisedRecord ==
  ASSUME NEW u \in Users, NEW w, Raises(u, w)
  PROVE  /\ w \in Users /\ SameSubject(u, w) /\ u.failures < w.failures
         /\ \A m \in Nat : IsLocked(w, m) => w.failures >= AccountLimit
<1>1. PICK n \in Nat : w = Failed(u, n) /\ Raised(u, n)
  BY DEF Raises
<1> DEFINE c == IF InWindow(u, n) THEN u.failures + 1 ELSE 1
           v == IF InWindow(u, n) THEN u.window ELSE n
           l == IF c >= AccountLimit THEN n + LockTime ELSE NoTime
<1>2. c \in Nat /\ v \in Int /\ l \in Int
  BY LoginAssumption DEF Users, NoTime
<1>3. \A m \in Nat : l > m => c >= AccountLimit
  BY <1>2 DEF NoTime
<1>4. Failed(u, n) = [u EXCEPT !.failures = c, !.window = v, !.lock = l,
                               !.version = u.version + 1]
  BY DEF Failed, Users
<1> HIDE DEF c, v, l
<1>5. Failed(u, n) = [pin |-> u.pin, role |-> u.role, active |-> u.active,
                      epoch |-> u.epoch, failures |-> c, window |-> v, lock |-> l,
                      version |-> u.version + 1]
  BY <1>4 DEF Users
<1> QED
  BY <1>1, <1>2, <1>3, <1>5 DEF Raised, SameSubject, IsLocked, Users

LEMMA DisturbedIs ==
  ASSUME NEW r \in Cores
  PROVE  /\ Disturbed(r) \in Cores
         /\ Disturbed(r).pc = r.pc /\ Disturbed(r).source = r.source
         /\ Disturbed(r).pin = r.pin /\ Disturbed(r).now = r.now
         /\ Disturbed(r).seen = r.seen /\ Disturbed(r).expected = r.expected
         /\ Disturbed(r).tries = r.tries /\ Disturbed(r).disturbed = (r.seen # None)
<1>1. (r.seen # None) \in BOOLEAN
  OBVIOUS
<1> QED
  BY <1>1 DEF Disturbed, Cores

LEMMA EndsFollow ==
  ASSUME NEW u \in Users
  PROVE  Follows(NewAttempt, u) /\ Follows(Done, u) /\ Follows(Lost, u)
BY DEF Follows, NewAttempt, Done, Lost

LEMMA FollowsOn ==
  ASSUME NEW r \in Cores, NEW u \in Users, NEW w \in Users, NEW t,
         Holds(r, u, t), Follows(r, u), w = u \/ Raises(u, w)
  PROVE  Follows(r, w)
<1>1. CASE w = u
  BY <1>1
<1>2. CASE Raises(u, w)
  <2>1. /\ SameSubject(u, w) /\ u.failures < w.failures
        /\ \A m \in Nat : IsLocked(w, m) => w.failures >= AccountLimit
    BY <1>2, RaisedRecord
  <2> SUFFICES ASSUME r.pc \in {"verify", "persist", "reread"}, r.seen \in Users, ~r.disturbed
               PROVE  /\ SameSubject(r.seen, w)
                      /\ IsLocked(w, r.now) => w.failures >= AccountLimit
                      /\ r.pc = "reread" => r.tries <= w.failures
                      /\ r.pc # "reread" => /\ r.tries <= r.expected.failures
                                            /\ r.expected.failures < w.failures
    BY DEF Follows
  <2>2. SameSubject(r.seen, w)
    BY <2>1 DEF Follows, SameSubject
  <2>3. IsLocked(w, r.now) => w.failures >= AccountLimit
    BY <2>1 DEF Cores
  <2>4. r.pc = "reread" => r.tries <= w.failures
    BY <2>1 DEF Follows, Cores, Users
  <2>5. r.pc # "reread" => r.expected \in Users
    BY DEF Holds
  <2>6. r.pc # "reread" => /\ r.tries <= r.expected.failures
                           /\ r.expected.failures < w.failures
    BY <2>1, <2>5 DEF Follows, Users
  <2> QED
    BY <2>2, <2>3, <2>4, <2>6
<1> QED
  BY <1>1, <1>2

LEMMA FollowsDisturbed ==
  ASSUME NEW r \in Cores, NEW u, NEW w, Follows(r, u)
  PROVE  Follows(Disturbed(r), w)
BY DisturbedIs, NoneIsNoUser DEF Follows

\* A step that changes one attempt, and perhaps the record.
LEMMA OneFollows ==
  ASSUME NEW u \in Users, NEW w \in Users, NEW t,
         NEW f \in [Attempt -> Cores], NEW g, NEW a \in Attempt, NEW r,
         \A x \in Attempt : Holds(f[x], u, t) /\ Follows(f[x], u),
         Follows(r, w),
         \/ (w = u \/ Raises(u, w)) /\ g = [f EXCEPT ![a] = r]
         \/ g = [x \in Attempt |-> IF x = a THEN r ELSE Disturbed(f[x])]
  PROVE  \A x \in Attempt : Follows(g[x], w)
<1> SUFFICES ASSUME NEW x \in Attempt PROVE Follows(g[x], w)
  OBVIOUS
<1>1. CASE x = a
  BY <1>1
<1>2. CASE x # a /\ (w = u \/ Raises(u, w)) /\ g = [f EXCEPT ![a] = r]
  BY <1>2, FollowsOn
<1>3. CASE x # a /\ g = [y \in Attempt |-> IF y = a THEN r ELSE Disturbed(f[y])]
  BY <1>3, FollowsDisturbed
<1> QED
  BY <1>1, <1>2, <1>3

LEMMA CountInit == Init => CountInv
<1> SUFFICES ASSUME Init PROVE CountInv
  OBVIOUS
<1>1. user \in Users
  BY InitInv DEF LoginInv, Shape
<1> QED
  BY <1>1, EndsFollow DEF Init, CountInv

LEMMA CountStep == LoginInv /\ CountInv /\ [Next]_vars => CountInv'
<1> SUFFICES ASSUME LoginInv, CountInv, [Next]_vars PROVE CountInv'
  OBVIOUS
<1>0. /\ user \in Users /\ attempt \in [Attempt -> Cores]
      /\ \A x \in Attempt : Holds(attempt[x], user, clock) /\ Follows(attempt[x], user)
      /\ user' \in Users
  BY StepInv DEF LoginInv, Shape, CountInv
<1>a. ASSUME NEW a \in Attempt, NEW r, Follows(r, user'),
             \/ (user' = user \/ Raises(user, user')) /\ attempt' = [attempt EXCEPT ![a] = r]
             \/ attempt' = [x \in Attempt |-> IF x = a THEN r ELSE Disturbed(attempt[x])]
      PROVE  CountInv'
  BY <1>0, <1>a, OneFollows DEF CountInv
<1>1. ASSUME NEW a \in Attempt, NEW s \in Peers, NEW p \in Pin, Start(a, s, p)
      PROVE  CountInv'
  <2> DEFINE m == [[attempt[a] EXCEPT !.source = s, !.pin = p, !.now = clock]
                   EXCEPT !.pc = "lookup"]
  <2>1. attempt' = [attempt EXCEPT ![a] = Done] \/ attempt' = [attempt EXCEPT ![a] = m]
    BY <1>1 DEF Start, Set
  <2>2. m.pc = "lookup" /\ m.tries = attempt[a].tries
    BY <1>0 DEF Cores
  <2>3. attempt[a].tries = 0
    BY <1>0, <1>1 DEF Start, At, Follows
  <2> HIDE DEF m
  <2>4. Follows(m, user)
    BY <2>2, <2>3 DEF Follows
  <2>5. user' = user
    BY <1>1 DEF Start
  <2> QED
    BY <1>0, <1>a, <2>1, <2>4, <2>5, EndsFollow
<1>2. ASSUME NEW a \in Attempt, Lookup(a) PROVE CountInv'
  <2>1. PICK found \in {user, None} :
          attempt' = [attempt EXCEPT ![a] =
            [attempt[a] EXCEPT !.pc = "verify", !.seen = found, !.expected = found]]
    BY <1>2 DEF Lookup, Set
  <2> DEFINE m == [attempt[a] EXCEPT !.pc = "verify", !.seen = found, !.expected = found]
  <2>2. m.pc = "verify" /\ m.seen = found /\ m.expected = found
        /\ m.tries = attempt[a].tries
    BY <1>0 DEF Cores
  <2>3. attempt[a].tries = 0
    BY <1>0, <1>2 DEF Lookup, At, Follows
  <2> HIDE DEF m
  <2>4. Follows(m, user)
    BY <1>0, <2>2, <2>3, NoneIsNoUser DEF Follows, SameSubject, Users
  <2>5. user' = user
    BY <1>2 DEF Lookup
  <2> QED
    BY <1>a, <2>1, <2>4, <2>5 DEF m
<1>3. ASSUME NEW a \in Attempt, Reject(a) PROVE CountInv'
  <2> DEFINE m == [attempt[a] EXCEPT !.pc = "persist"]
  <2>1. \/ attempt' = [attempt EXCEPT ![a] = Done]
        \/ /\ attempt' = [attempt EXCEPT ![a] = m]
           /\ \E matches \in BOOLEAN : WrongPin(attempt[a], matches)
    BY <1>3 DEF Reject, Set
  <2>2. m.pc = "persist" /\ m.seen = attempt[a].seen /\ m.expected = attempt[a].expected
        /\ m.now = attempt[a].now /\ m.tries = attempt[a].tries
        /\ m.disturbed = attempt[a].disturbed
    BY <1>0 DEF Cores
  <2>3. attempt[a].pc = "verify"
    BY <1>3 DEF Reject, At
  <2> HIDE DEF m
  <2>4. ASSUME \E matches \in BOOLEAN : WrongPin(attempt[a], matches)
        PROVE  Follows(m, user)
    <3>1. attempt[a].seen \in Users /\ ~IsLocked(attempt[a].seen, attempt[a].now)
      BY <1>0, <2>4 DEF WrongPin, Cores
    <3> QED
      BY <1>0, <2>2, <2>3, <3>1 DEF Follows
  <2>5. user' = user
    BY <1>3 DEF Reject
  <2> QED
    BY <1>0, <1>a, <2>1, <2>4, <2>5, EndsFollow
<1>4. ASSUME NEW a \in Attempt, Match(a) PROVE CountInv'
  <2> DEFINE m == [attempt[a] EXCEPT !.pc = "claim"]
  <2>1. attempt' = [attempt EXCEPT ![a] = m] /\ user' = user
    BY <1>4 DEF Match, Set
  <2>2. m.pc = "claim"
    BY <1>0 DEF Cores
  <2> HIDE DEF m
  <2>3. Follows(m, user)
    BY <2>2 DEF Follows
  <2> QED
    BY <1>a, <2>1, <2>3
<1>5. ASSUME NEW a \in Attempt, Claim(a) PROVE CountInv'
  <2> DEFINE m == [attempt[a] EXCEPT !.pc = "issue"]
  <2>1. \/ Disturb(a, m) \/ Disturb(a, Done)
        \/ attempt' = [attempt EXCEPT ![a] = Done] /\ user' = user
    BY <1>5 DEF Claim, Set
  <2>2. m.pc = "issue"
    BY <1>0 DEF Cores
  <2> HIDE DEF m
  <2>3. Follows(m, user')
    BY <2>2 DEF Follows
  <2> QED
    BY <1>0, <1>a, <2>1, <2>3, EndsFollow DEF Disturb
<1>6. ASSUME NEW a \in Attempt, Issue(a) PROVE CountInv'
  <2>1. attempt' = [attempt EXCEPT ![a] = Done] /\ user' = user
    BY <1>6 DEF Issue, Set
  <2> QED
    BY <1>0, <1>a, <2>1, EndsFollow
<1>7. ASSUME NEW a \in Attempt, Persist(a) PROVE CountInv'
  <2>1. CASE user = attempt[a].expected
    <3>1. \/ Disturb(a, Done)
          \/ /\ attempt' = [attempt EXCEPT ![a] = Done]
             /\ user' = Failed(user, attempt[a].now) /\ Raised(user, attempt[a].now)
      BY <1>7, <2>1 DEF Persist, Set
    <3>2. attempt[a].now \in Nat
      BY <1>0 DEF Cores
    <3> QED
      BY <1>0, <1>a, <3>1, <3>2, EndsFollow DEF Disturb, Raises
  <2>2. CASE user # attempt[a].expected
    <3> DEFINE k == attempt[a].tries + 1
               m == [attempt[a] EXCEPT !.pc = "reread", !.tries = k]
    <3>1. attempt' = [attempt EXCEPT ![a] = m] /\ user' = user
      BY <1>0, <1>7, <2>2 DEF Persist, Set, Cores
    <3>2. m.pc = "reread" /\ m.seen = attempt[a].seen /\ m.now = attempt[a].now
          /\ m.tries = attempt[a].tries + 1 /\ m.disturbed = attempt[a].disturbed
      BY <1>0 DEF Cores
    <3>3. attempt[a].pc = "persist" /\ attempt[a].expected \in Users
      BY <1>0, <1>7 DEF Persist, At, Holds
    <3> HIDE DEF m
    <3>4. Follows(m, user)
      <4>1. ASSUME m.seen \in Users, ~m.disturbed
            PROVE  /\ SameSubject(m.seen, user) /\ m.tries <= user.failures
                   /\ IsLocked(user, m.now) => IsLocked(m.seen, m.now)
                                               \/ user.failures >= AccountLimit
        <5>1. /\ SameSubject(m.seen, user)
              /\ IsLocked(user, m.now) => IsLocked(m.seen, m.now)
                                          \/ user.failures >= AccountLimit
              /\ attempt[a].tries <= attempt[a].expected.failures
              /\ attempt[a].expected.failures < user.failures
          BY <1>0, <2>2, <3>2, <3>3, <4>1 DEF Follows
        <5> QED
          BY <1>0, <3>2, <3>3, <5>1 DEF Cores, Users
      <4>2. m.seen \in Users /\ ~IsLocked(m.seen, m.now)
        BY <1>0, <3>2, <3>3 DEF Follows
      <4> QED
        BY <3>2, <4>1, <4>2 DEF Follows
    <3> QED
      BY <1>a, <3>1, <3>4
  <2> QED
    BY <2>1, <2>2
<1>8. ASSUME NEW a \in Attempt, Reread(a) PROVE CountInv'
  <2> DEFINE m == [attempt[a] EXCEPT !.pc = "persist", !.expected = user]
  <2>1. /\ attempt' = [attempt EXCEPT ![a] = Done] \/ attempt' = [attempt EXCEPT ![a] = m]
        /\ user' = user
    BY <1>8 DEF Reread, Set
  <2>2. m.pc = "persist" /\ m.seen = attempt[a].seen /\ m.expected = user
        /\ m.now = attempt[a].now /\ m.tries = attempt[a].tries
        /\ m.disturbed = attempt[a].disturbed
    BY <1>0 DEF Cores
  <2>3. attempt[a].pc = "reread"
    BY <1>8 DEF Reread, At
  <2> HIDE DEF m
  <2>4. Follows(m, user)
    BY <1>0, <2>2, <2>3 DEF Follows
  <2> QED
    BY <1>0, <1>a, <2>1, <2>4, EndsFollow
<1>9. ASSUME NEW a \in Attempt, GiveUp(a) PROVE CountInv'
  <2>1. \/ Disturb(a, Lost)
        \/ /\ attempt' = [attempt EXCEPT ![a] = Lost]
           /\ \/ user' = user
              \/ user' = Failed(user, attempt[a].now) /\ Raised(user, attempt[a].now)
    BY <1>9 DEF GiveUp, Set
  <2>2. attempt[a].now \in Nat
    BY <1>0 DEF Cores
  <2> QED
    BY <1>0, <1>a, <2>1, <2>2, EndsFollow DEF Disturb, Raises
<1>10. CASE AdminWrite
  <2>1. \/ attempt' = attempt /\ user' = user
        \/ attempt' = [x \in Attempt |-> Disturbed(attempt[x])]
    BY <1>10 DEF AdminWrite
  <2>2. ASSUME attempt' = [x \in Attempt |-> Disturbed(attempt[x])]
        PROVE  CountInv'
    BY <1>0, <2>2, FollowsDisturbed DEF CountInv
  <2> QED
    BY <2>1, <2>2 DEF CountInv
<1>11. CASE AdminRead \/ Tick \/ UNCHANGED vars
  BY <1>11 DEF AdminRead, Tick, vars, CountInv
<1> QED
  BY <1>1, <1>2, <1>3, <1>4, <1>5, <1>6, <1>7, <1>8, <1>9, <1>10, <1>11 DEF Next

LEMMA CountHolds == Spec => [](LoginInv /\ CountInv)
<1>1. LoginInv /\ CountInv /\ [Next]_vars => (LoginInv /\ CountInv)'
  BY StepInv, CountStep
<1> QED
  BY <1>1, InitInv, CountInit, PTL DEF Spec

-------------------------------------------------------------------------------
(* Guesses are bounded *)

\* The attempts of a source that hold a KDF reservation.
InKdfOf(s) == {a \in InKdf : attempt[a].source = s}

\* Until it is full a bucket counts what it has seen.  A full bucket admits nobody:
\* beyond the limit it sees the PINs of those k attempts only that were admitted before.
BucketSound(b, k) ==
  /\ b.failures < SourceLimit => b.evaluated <= b.failures
  /\ b.failures = SourceLimit => b.evaluated + k <= SourceLimit + KdfLimit - 1

KdfInv == IsFiniteSet(InKdf) /\ Cardinality(InKdf) <= KdfLimit

TableInv ==
  /\ buckets \in [Peers -> Bucket \cup {None}]
  /\ \A s \in Peers : buckets[s] # None => BucketSound(buckets[s], Cardinality(InKdfOf(s)))

GuessInv == KdfInv /\ TableInv

LEMMA NoneIsNoBucket == None \notin Bucket
  BY DEF None, Bucket

LEMMA KdfCounts ==
  ASSUME KdfInv
  PROVE  /\ Cardinality(InKdf) \in Nat
         /\ \A s : /\ IsFiniteSet(InKdfOf(s)) /\ Cardinality(InKdfOf(s)) \in Nat
                   /\ Cardinality(InKdfOf(s)) <= Cardinality(InKdf)
<1>1. IsFiniteSet(InKdf)
  BY DEF KdfInv
<1>2. ASSUME NEW s
      PROVE  IsFiniteSet(InKdfOf(s)) /\ Cardinality(InKdfOf(s)) <= Cardinality(InKdf)
  <2>1. InKdfOf(s) \in SUBSET InKdf
    BY DEF InKdfOf
  <2> QED
    BY <1>1, <2>1, FS_Subset
<1> QED
  BY <1>1, <1>2, FS_CardinalityType

\* A step that neither takes nor returns a reservation.
LEMMA KdfSame ==
  ASSUME \A x \in Attempt : /\ attempt'[x].pc \in {"lookup", "verify"}
                               <=> attempt[x].pc \in {"lookup", "verify"}
                            /\ attempt[x].pc \in {"lookup", "verify"} =>
                                 attempt'[x].source = attempt[x].source
  PROVE  InKdf' = InKdf /\ \A s : InKdfOf(s)' = InKdfOf(s)
<1>1. InKdf' = InKdf
  BY DEF InKdf, At
<1>2. \A x \in InKdf : attempt'[x].source = attempt[x].source
  BY DEF InKdf, At
<1> QED
  BY <1>1, <1>2 DEF InKdfOf

\* A step that returns one.
LEMMA KdfLeft ==
  ASSUME KdfInv, NEW a \in InKdf,
         attempt'[a].pc \notin {"lookup", "verify"},
         \A x \in Attempt \ {a} : attempt'[x] = attempt[x]
  PROVE  /\ KdfInv' /\ Cardinality(InKdf') = Cardinality(InKdf) - 1
         /\ \A s : Cardinality(InKdfOf(s)') =
              IF s = attempt[a].source THEN Cardinality(InKdfOf(s)) - 1
                                       ELSE Cardinality(InKdfOf(s))
<1>1. InKdf' = InKdf \ {a}
  BY DEF InKdf, At
<1>2. IsFiniteSet(InKdf') /\ Cardinality(InKdf') = Cardinality(InKdf) - 1
  BY <1>1, FS_RemoveElement DEF KdfInv
<1>3. Cardinality(InKdf) \in Nat /\ KdfLimit \in Nat
  BY KdfCounts, LoginAssumption
<1>4. ASSUME NEW s
      PROVE  Cardinality(InKdfOf(s)') = IF s = attempt[a].source
                                        THEN Cardinality(InKdfOf(s)) - 1
                                        ELSE Cardinality(InKdfOf(s))
  <2>1. InKdfOf(s)' = InKdfOf(s) \ {a}
    BY <1>1 DEF InKdfOf, InKdf
  <2>2. a \in InKdfOf(s) <=> s = attempt[a].source
    BY DEF InKdfOf
  <2>3. IsFiniteSet(InKdfOf(s))
    BY KdfCounts
  <2> QED
    BY <2>1, <2>2, <2>3, FS_RemoveElement
<1> QED
  BY <1>2, <1>3, <1>4 DEF KdfInv

LEMMA GuessInit == Init => GuessInv
<1> SUFFICES ASSUME Init PROVE GuessInv
  OBVIOUS
<1>1. InKdf = {}
  BY DEF Init, NewAttempt, InKdf, At
<1>2. KdfInv
  BY <1>1, FS_EmptySet, LoginAssumption DEF KdfInv
<1> QED
  BY <1>2 DEF Init, GuessInv, TableInv

\* Neither reservations nor buckets change.
LEMMA GuessSame ==
  ASSUME GuessInv, buckets' = buckets,
         InKdf' = InKdf, \A s : InKdfOf(s)' = InKdfOf(s)
  PROVE  GuessInv'
BY DEF GuessInv, KdfInv, TableInv

LEMMA Admits ==
  ASSUME GuessInv, attempt \in [Attempt -> Cores], clock \in Nat,
         NEW a \in Attempt, NEW s \in Peers, NEW p \in Pin, Start(a, s, p)
  PROVE  GuessInv'
<1> DEFINE m == [[attempt[a] EXCEPT !.source = s, !.pin = p, !.now = clock]
                 EXCEPT !.pc = "lookup"]
<1>0. attempt[a].pc = "new"
  BY DEF Start, At
<1>1. /\ m.pc = "lookup" /\ m.source = s
      /\ \/ attempt' = [attempt EXCEPT ![a] = Done]
         \/ ~Limited(s, clock) /\ KdfFree /\ attempt' = [attempt EXCEPT ![a] = m]
  BY DEF Start, Set, Cores
<1> HIDE DEF m
<1>2. \/ Live(s, clock) /\ buckets' = buckets
      \/ ~Live(s, clock) /\ buckets' = [buckets EXCEPT ![s] = None]
  BY DEF Start, Touch
<1>3. buckets' \in [Peers -> Bucket \cup {None}]
  BY <1>2 DEF GuessInv, TableInv
<1>4. CASE attempt' = [attempt EXCEPT ![a] = Done]
  <2>1. InKdf' = InKdf /\ \A q : InKdfOf(q)' = InKdfOf(q)
    <3>1. Done.pc = "done"
      BY DEF Done, NewAttempt
    <3> QED
      BY <1>0, <1>4, <3>1, KdfSame
  <2> QED
    BY <1>2, <1>3, <2>1 DEF GuessInv, KdfInv, TableInv
<1>5. CASE ~Limited(s, clock) /\ KdfFree /\ attempt' = [attempt EXCEPT ![a] = m]
  <2>1. InKdf' = InKdf \cup {a} /\ a \notin InKdf
    BY <1>0, <1>1, <1>5 DEF InKdf, At
  <2>2. KdfInv'
    <3>1. IsFiniteSet(InKdf') /\ Cardinality(InKdf') = Cardinality(InKdf) + 1
      BY <2>1, FS_AddElement DEF GuessInv, KdfInv
    <3>2. Cardinality(InKdf) \in Nat /\ KdfLimit \in Nat
      BY KdfCounts, LoginAssumption DEF GuessInv
    <3> QED
      BY <1>5, <3>1, <3>2 DEF KdfInv, KdfFree
  <2>3. ASSUME NEW q \in Peers, buckets'[q] # None
        PROVE  BucketSound(buckets'[q], Cardinality(InKdfOf(q)'))
    <3>1. CASE q # s
      <4>1. InKdfOf(q)' = InKdfOf(q) /\ buckets'[q] = buckets[q]
        BY <1>0, <1>1, <1>2, <1>5, <2>1, <3>1 DEF InKdfOf, InKdf, GuessInv, TableInv
      <4> QED
        BY <2>3, <4>1 DEF GuessInv, TableInv
    <3>2. CASE q = s
      <4>1. buckets' = buckets /\ Live(s, clock)
        BY <1>2, <2>3, <3>2 DEF GuessInv, TableInv, Live
      <4>2. /\ buckets[s] \in Bucket /\ ~(buckets[s].failures >= SourceLimit)
            /\ BucketSound(buckets[s], Cardinality(InKdfOf(s)))
        BY <1>5, <4>1 DEF Limited, Live, GuessInv, TableInv
      <4>3. buckets[s].failures # SourceLimit
        BY <4>2, LoginAssumption DEF Bucket
      <4> QED
        BY <3>2, <4>1, <4>2, <4>3 DEF BucketSound
    <3> QED
      BY <3>1, <3>2
  <2> QED
    BY <1>3, <2>2, <2>3 DEF GuessInv, TableInv
<1> QED
  BY <1>1, <1>4, <1>5

LEMMA Sees ==
  ASSUME GuessInv, attempt \in [Attempt -> Cores], NEW a \in Attempt, Reject(a)
  PROVE  GuessInv'
<1> DEFINE s == attempt[a].source
           t == attempt[a].now
           k == Cardinality(InKdfOf(s))
<1>0. /\ s \in Peers /\ t \in Nat /\ a \in InKdf
      /\ buckets \in [Peers -> Bucket \cup {None}]
  BY DEF Reject, Cores, InKdf, At, GuessInv, TableInv
<1>1. RecordFailure(s, t)
  BY DEF Reject
<1>2. \E r : attempt' = [attempt EXCEPT ![a] = r] /\ r.pc \notin {"lookup", "verify"}
  <2>1. Done.pc = "done" /\ [attempt[a] EXCEPT !.pc = "persist"].pc = "persist"
    BY DEF Done, NewAttempt, Cores
  <2> QED
    BY <2>1 DEF Reject, Set
<1>3. /\ KdfInv' /\ Cardinality(InKdf') = Cardinality(InKdf) - 1
      /\ \A q : Cardinality(InKdfOf(q)') =
                  IF q = s THEN Cardinality(InKdfOf(q)) - 1 ELSE Cardinality(InKdfOf(q))
  BY <1>0, <1>2, KdfLeft DEF GuessInv
<1>4. /\ Cardinality(InKdf) \in Nat /\ k \in Nat /\ k <= Cardinality(InKdf)
      /\ Cardinality(InKdf) <= KdfLimit
      /\ KdfLimit \in Nat /\ SourceLimit \in Nat \ {0}
  BY KdfCounts, LoginAssumption DEF GuessInv, KdfInv
<1> HIDE DEF s, t, k
<1>5. /\ buckets' \in [Peers -> Bucket \cup {None}]
      /\ \A q \in Peers \ {s} : buckets'[q] \in {buckets[q], None}
      /\ BucketSound(buckets'[s], k - 1)
  <2>1. CASE Limited(s, t)
    <3>1. /\ buckets[s] \in Bucket /\ buckets[s].failures = SourceLimit
          /\ BucketSound(buckets[s], k)
      BY <1>0, <1>4, <2>1 DEF Limited, Live, Bucket, GuessInv, TableInv, k
    <3> DEFINE b == [failures |-> buckets[s].failures, start |-> buckets[s].start,
                     evaluated |-> buckets[s].evaluated + 1]
    <3>2. buckets' = [buckets EXCEPT ![s] = b]
      BY <1>0, <1>1, <2>1, <3>1 DEF RecordFailure, Bucket
    <3>3. b \in Bucket /\ BucketSound(b, k - 1)
      BY <1>4, <3>1 DEF Bucket, BucketSound
    <3> HIDE DEF b
    <3> QED
      BY <1>0, <3>2, <3>3
  <2>2. CASE ~Limited(s, t)
    <3> DEFINE b == Added(s, t)
    <3>1. b \in Bucket /\ b.evaluated <= b.failures
      <4>1. CASE Live(s, t)
        <5>1. /\ buckets[s] \in Bucket /\ buckets[s].failures < SourceLimit
              /\ buckets[s].evaluated <= buckets[s].failures
          BY <1>0, <1>4, <2>2, <4>1 DEF Limited, Live, Bucket, GuessInv, TableInv, BucketSound
        <5>2. b = [failures |-> buckets[s].failures + 1, start |-> buckets[s].start,
                   evaluated |-> buckets[s].evaluated + 1]
          BY <4>1, <5>1 DEF Added, Bucket
        <5> QED
          BY <1>4, <5>1, <5>2 DEF Bucket
      <4>2. CASE ~Live(s, t)
        <5>1. b = [failures |-> 1, start |-> t, evaluated |-> 1]
          BY <4>2 DEF Added
        <5> QED
          BY <1>0, <1>4, <5>1 DEF Bucket
      <4> QED
        BY <4>1, <4>2
    <3>2. BucketSound(b, k - 1)
      BY <1>4, <3>1 DEF Bucket, BucketSound
    <3>3. /\ buckets' \in [Peers -> Bucket \cup {None}] /\ buckets'[s] = b
          /\ \A q \in Peers \ {s} : buckets'[q] \in {buckets[q], None}
      <4> HIDE DEF b
      <4> DEFINE rest == IF s = Fallback THEN recent ELSE WithRoom(s, t)
                 stays(x) == x = Fallback \/ \E i \in DOMAIN rest : rest[i] = x
      <4>1. buckets' = [x \in Peers |-> IF x = s THEN b
                                        ELSE IF stays(x) THEN buckets[x] ELSE None]
        BY <1>1, <2>2 DEF RecordFailure, Count, b
      <4> HIDE DEF stays
      <4> QED
        BY <1>0, <3>1, <4>1
    <3> QED
      BY <3>2, <3>3
  <2> QED
    BY <2>1, <2>2
<1>6. ASSUME NEW q \in Peers, buckets'[q] # None
      PROVE  BucketSound(buckets'[q], Cardinality(InKdfOf(q)'))
  <2>1. CASE q = s
    BY <1>3, <1>5, <2>1 DEF k
  <2>2. CASE q # s
    BY <1>3, <1>5, <1>6, <2>2 DEF GuessInv, TableInv
  <2> QED
    BY <2>1, <2>2
<1> QED
  BY <1>3, <1>5, <1>6 DEF GuessInv, TableInv

LEMMA GuessStep == LoginInv /\ GuessInv /\ [Next]_vars => GuessInv'
<1> SUFFICES ASSUME LoginInv, GuessInv, [Next]_vars PROVE GuessInv'
  OBVIOUS
<1>0. attempt \in [Attempt -> Cores] /\ clock \in Nat
  BY DEF LoginInv, Shape
<1>a. /\ Done.pc = "done" /\ Lost.pc = "lost"
      /\ \A x \in Attempt : /\ Disturbed(attempt[x]).pc = attempt[x].pc
                            /\ Disturbed(attempt[x]).source = attempt[x].source
  BY <1>0, DisturbedIs DEF Done, Lost, NewAttempt
<1>b. ASSUME NEW a \in Attempt, attempt[a].pc \notin {"lookup", "verify"},
             NEW r, r.pc \notin {"lookup", "verify"}, Set(a, r) \/ Disturb(a, r),
             buckets' = buckets
      PROVE  GuessInv'
  <2>1. \A x \in Attempt : /\ attempt'[x].pc \in {"lookup", "verify"}
                               <=> attempt[x].pc \in {"lookup", "verify"}
                           /\ attempt[x].pc \in {"lookup", "verify"} =>
                                attempt'[x].source = attempt[x].source
    BY <1>0, <1>a, <1>b DEF Set, Disturb
  <2> QED
    BY <1>b, <2>1, KdfSame, GuessSame
<1>1. ASSUME NEW a \in Attempt, NEW s \in Peers, NEW p \in Pin, Start(a, s, p)
      PROVE  GuessInv'
  BY <1>0, <1>1, Admits
<1>2. ASSUME NEW a \in Attempt, Lookup(a) PROVE GuessInv'
  <2>1. \E found \in {user, None} :
          attempt' = [attempt EXCEPT ![a] =
            [attempt[a] EXCEPT !.pc = "verify", !.seen = found, !.expected = found]]
    BY <1>2 DEF Lookup, Set
  <2>2. \E r : /\ attempt' = [attempt EXCEPT ![a] = r] /\ r.pc = "verify"
               /\ r.source = attempt[a].source
    BY <1>0, <2>1 DEF Cores
  <2>3. attempt[a].pc = "lookup" /\ buckets' = buckets
    BY <1>2 DEF Lookup, At
  <2> QED
    BY <1>0, <2>2, <2>3, KdfSame, GuessSame
<1>3. ASSUME NEW a \in Attempt, Reject(a) PROVE GuessInv'
  BY <1>0, <1>3, Sees
<1>4. ASSUME NEW a \in Attempt, Match(a) PROVE GuessInv'
  <2>1. /\ a \in InKdf /\ buckets' = buckets
        /\ attempt' = [attempt EXCEPT ![a] = [attempt[a] EXCEPT !.pc = "claim"]]
    BY <1>4 DEF Match, Set, InKdf, At
  <2>2. /\ attempt'[a].pc = "claim"
        /\ \A x \in Attempt \ {a} : attempt'[x] = attempt[x]
    BY <1>0, <2>1 DEF Cores
  <2>3. /\ KdfInv'
        /\ \A q : /\ Cardinality(InKdfOf(q)') \in Int /\ Cardinality(InKdfOf(q)) \in Nat
                  /\ Cardinality(InKdfOf(q)') <= Cardinality(InKdfOf(q))
    BY <2>1, <2>2, KdfLeft, KdfCounts DEF GuessInv
  <2>4. ASSUME NEW q \in Peers, buckets[q] # None
        PROVE  BucketSound(buckets[q], Cardinality(InKdfOf(q)'))
    <3>1. buckets[q] \in Bucket /\ BucketSound(buckets[q], Cardinality(InKdfOf(q)))
      BY <2>4 DEF GuessInv, TableInv
    <3> QED
      BY <2>3, <3>1, LoginAssumption DEF BucketSound, Bucket
  <2> QED
    BY <2>1, <2>3, <2>4 DEF GuessInv, TableInv
<1>5. ASSUME NEW a \in Attempt, Claim(a) PROVE GuessInv'
  <2>1. [attempt[a] EXCEPT !.pc = "issue"].pc = "issue"
    BY <1>0 DEF Cores
  <2>2. attempt[a].pc = "claim" /\ buckets' = buckets
    BY <1>5 DEF Claim, At
  <2>3. \E r : r.pc \notin {"lookup", "verify"} /\ (Set(a, r) \/ Disturb(a, r))
    BY <1>5, <1>a, <2>1 DEF Claim
  <2> QED
    BY <1>b, <2>2, <2>3
<1>6. ASSUME NEW a \in Attempt, Issue(a) PROVE GuessInv'
  BY <1>6, <1>a, <1>b DEF Issue, At
<1>7. ASSUME NEW a \in Attempt, Persist(a) PROVE GuessInv'
  <2>1. \E r : r.pc \in {"done", "reread"} /\ (Set(a, r) \/ Disturb(a, r))
    <3> DEFINE n == attempt[a].tries + 1
               m == [attempt[a] EXCEPT !.pc = "reread", !.tries = n]
    <3>1. m.pc = "reread"
      BY <1>0 DEF Cores
    <3>2. Set(a, Done) \/ Disturb(a, Done) \/ Set(a, m)
      BY <1>0, <1>7 DEF Persist, Cores
    <3> HIDE DEF m
    <3> QED
      BY <1>a, <3>1, <3>2
  <2>2. attempt[a].pc = "persist" /\ buckets' = buckets
    BY <1>7 DEF Persist, At
  <2> QED
    BY <1>b, <2>1, <2>2
<1>8. ASSUME NEW a \in Attempt, Reread(a) PROVE GuessInv'
  <2> DEFINE m == [attempt[a] EXCEPT !.pc = "persist", !.expected = user]
  <2>1. m.pc = "persist" /\ (Set(a, Done) \/ Set(a, m))
    BY <1>0, <1>8 DEF Reread, Cores
  <2> HIDE DEF m
  <2>2. \E r : r.pc \in {"done", "persist"} /\ Set(a, r)
    BY <1>a, <2>1
  <2>3. attempt[a].pc = "reread" /\ buckets' = buckets
    BY <1>8 DEF Reread, At
  <2> QED
    BY <1>b, <2>2, <2>3
<1>9. ASSUME NEW a \in Attempt, GiveUp(a) PROVE GuessInv'
  <2>1. Set(a, Lost) \/ Disturb(a, Lost)
    BY <1>9 DEF GiveUp
  <2>2. attempt[a].pc \in {"persist", "reread"} /\ buckets' = buckets
    BY <1>9 DEF GiveUp, At
  <2> QED
    BY <1>a, <1>b, <2>1, <2>2
<1>10. CASE AdminWrite
  <2>1. /\ buckets' = buckets
        /\ attempt' = attempt \/ attempt' = [x \in Attempt |-> Disturbed(attempt[x])]
    BY <1>10 DEF AdminWrite
  <2> QED
    BY <1>a, <2>1, KdfSame, GuessSame
<1>11. CASE AdminRead \/ Tick \/ UNCHANGED vars
  <2>1. buckets' = buckets /\ attempt' = attempt
    BY <1>11 DEF AdminRead, Tick, vars
  <2> QED
    BY <2>1, KdfSame, GuessSame
<1> QED
  BY <1>1, <1>2, <1>3, <1>4, <1>5, <1>6, <1>7, <1>8, <1>9, <1>10, <1>11 DEF Next

LEMMA GuessHolds == Spec => [](LoginInv /\ GuessInv)
<1>1. LoginInv /\ GuessInv /\ [Next]_vars => (LoginInv /\ GuessInv)'
  BY StepInv, GuessStep
<1> QED
  BY <1>1, InitInv, GuessInit, PTL DEF Spec

-------------------------------------------------------------------------------
(* Theorems *)

\* A session that is still accepted was earned with the account's present PIN and
\* carries its present role.
THEOREM SessionsEnd == Spec => []SessionsCurrent
<1>1. LoginInv => SessionsCurrent
  BY DEF LoginInv, SessionsCurrent, Accepted, Within
<1> QED BY <1>1, Invariant, PTL

\* Until it runs out nothing lifts or moves the account's lock, however old the
\* clock an attempt read and whatever the administrator does.
THEOREM LockHolds == Spec => LockStands
<1>1. LoginInv /\ [Next]_vars =>
        [IsLocked(user, clock) => user'.lock = user.lock]_vars
  <2> SUFFICES ASSUME LoginInv, Next, IsLocked(user, clock)
               PROVE  user'.lock = user.lock
    BY DEF vars
  <2>0. /\ user \in Users /\ clock \in Nat /\ admin.read \in Users \cup {None}
        /\ attempt \in [Attempt -> Cores]
        /\ \A x \in Attempt : Holds(attempt[x], user, clock)
    BY DEF LoginInv, Shape
  <2>1. ASSUME NEW a \in Attempt, At(a, "claim") \/ At(a, "persist")
        PROVE  user # attempt[a].expected
    BY <2>0, <2>1 DEF At, Holds, IsLocked, Cores, Users
  <2>2. ASSUME NEW a \in Attempt, Claim(a) \/ Persist(a) \/ GiveUp(a) \/ Reread(a)
        PROVE  user' = user
    BY <2>1, <2>2 DEF Claim, Persist, GiveUp, Reread
  <2>3. CASE AdminWrite
    BY <2>0, <2>3, RecordGrows DEF AdminWrite
  <2>4. ASSUME NEW a \in Attempt,
               \/ \E s \in Peers, p \in Pin : Start(a, s, p)
               \/ Lookup(a) \/ Reject(a) \/ Match(a) \/ Issue(a)
        PROVE  user' = user
    BY <2>4 DEF Start, Lookup, Reject, Match, Issue
  <2>5. CASE AdminRead \/ Tick
    BY <2>5 DEF AdminRead, Tick
  <2> QED BY <2>2, <2>3, <2>4, <2>5 DEF Next
<1> QED BY <1>1, Invariant, PTL DEF Spec, LockStands

\* A login opens only an account that is active, has the typed PIN and was not
\* locked at the time of the attempt.
THEOREM LoginsChecked == Spec => LoginsAreCurrent
<1>1. LoginInv /\ [Next]_vars =>
        [\A a \in Attempt :
           (At(a, "claim") /\ attempt'[a].pc = "issue")
             => /\ user.active /\ user.pin = attempt[a].pin
                /\ ~IsLocked(user, attempt[a].now)]_vars
  <2> SUFFICES ASSUME LoginInv, Next, NEW a \in Attempt,
                      At(a, "claim"), attempt'[a].pc = "issue"
               PROVE  /\ user.active /\ user.pin = attempt[a].pin
                      /\ ~IsLocked(user, attempt[a].now)
    BY DEF vars
  <2>0. /\ attempt \in [Attempt -> Cores] /\ Holds(attempt[a], user, clock)
    BY DEF LoginInv, Shape
  <2>1. attempt[a].pc = "claim"
    BY DEF At
  <2>2. attempt[a].expected = user
    <3>1. /\ \E b \in BOOLEAN : Disturbed(attempt[a]) = [attempt[a] EXCEPT !.disturbed = b]
          /\ Disturbed(attempt[a]).pc = "claim"
      <4>1. (attempt[a].seen # None) \in BOOLEAN
        OBVIOUS
      <4>2. \E b \in BOOLEAN : Disturbed(attempt[a]) = [attempt[a] EXCEPT !.disturbed = b]
        BY <4>1 DEF Disturbed
      <4> QED BY <2>0, <2>1, <4>2 DEF Cores
    <3>2. ASSUME NEW x \in Attempt \ {a}, NEW r, Set(x, r) \/ Disturb(x, r)
          PROVE  FALSE
      BY <2>0, <2>1, <3>1, <3>2 DEF Set, Disturb
    <3>3. ASSUME NEW x \in Attempt,
                 \/ \E s \in Peers, p \in Pin : Start(x, s, p)
                 \/ Lookup(x) \/ Reject(x) \/ Match(x) \/ Issue(x)
                 \/ Persist(x) \/ Reread(x) \/ GiveUp(x)
          PROVE  FALSE
      <4>1. x # a
        BY <2>1, <3>3 DEF At, Start, Lookup, Reject, Match, Issue, Persist, Reread, GiveUp
      <4>2. \E r : Set(x, r) \/ Disturb(x, r)
        BY <3>3 DEF Start, Lookup, Reject, Match, Issue, Persist, Reread, GiveUp
      <4> QED BY <3>2, <4>1, <4>2
    <3>4. CASE AdminRead \/ AdminWrite \/ Tick
      BY <2>0, <2>1, <3>1, <3>4 DEF AdminRead, AdminWrite, Tick
    <3>5. ASSUME NEW x \in Attempt, Claim(x)
          PROVE  attempt[a].expected = user
      <4>1. \E r : Set(x, r) \/ Disturb(x, r)
        BY <3>5 DEF Claim
      <4>2. x = a
        BY <3>2, <4>1
      <4>3. user.pin \in Pin
        BY DEF LoginInv, Shape, Users
      <4>4. CASE Set(a, Done)
        BY <2>0, <4>3, <4>4, DoneIsCore DEF Set
      <4> QED BY <3>5, <4>2, <4>4 DEF Claim
    <3> QED BY <3>3, <3>4, <3>5 DEF Next
  <2> QED BY <2>0, <2>1, <2>2 DEF Holds
<1> QED BY <1>1, Invariant, PTL DEF Spec, LoginsAreCurrent
\* A failed PIN check that ends uncounted leaves an account that has reached the
\* limit, however many failures compete for its record, unless another write came
\* between: each conflict of persistFailedLogin is a failure that was counted.
THEOREM StormsAreCounted == Spec => FailuresCounted
<1>1. LoginInv /\ CountInv /\ [Next]_vars =>
        [\A a \in Attempt :
           (At(a, "reread") /\ attempt'[a].pc = "done" /\ ~attempt[a].disturbed)
             => user.failures >= AccountLimit]_vars
  <2> SUFFICES ASSUME LoginInv, CountInv, Next, NEW a \in Attempt,
                      At(a, "reread"), attempt'[a].pc = "done", ~attempt[a].disturbed
               PROVE  user.failures >= AccountLimit
    BY DEF vars
  <2>0. /\ user \in Users /\ attempt \in [Attempt -> Cores]
        /\ attempt[a].pc = "reread" /\ Follows(attempt[a], user)
    BY DEF LoginInv, Shape, CountInv, At
  <2>1. Disturbed(attempt[a]).pc = "reread"
    BY <2>0, DisturbedIs
  <2>2. ASSUME NEW x \in Attempt \ {a}, NEW r, Set(x, r) \/ Disturb(x, r)
        PROVE  FALSE
    BY <2>0, <2>1, <2>2 DEF Set, Disturb
  <2>3. ASSUME NEW x \in Attempt,
               \/ \E s \in Peers, p \in Pin : Start(x, s, p)
               \/ Lookup(x) \/ Reject(x) \/ Match(x) \/ Claim(x) \/ Issue(x) \/ Persist(x)
        PROVE  FALSE
    <3>1. x # a
      BY <2>0, <2>3 DEF At, Start, Lookup, Reject, Match, Claim, Issue, Persist
    <3>2. \E r : Set(x, r) \/ Disturb(x, r)
      BY <2>3 DEF Start, Lookup, Reject, Match, Claim, Issue, Persist
    <3> QED
      BY <2>2, <3>1, <3>2
  <2>4. CASE AdminRead \/ AdminWrite \/ Tick
    BY <2>0, <2>1, <2>4 DEF AdminRead, AdminWrite, Tick
  <2>5. ASSUME NEW x \in Attempt, GiveUp(x)
        PROVE  FALSE
    <3>1. Set(x, Lost) \/ Disturb(x, Lost)
      BY <2>5 DEF GiveUp
    <3>2. x = a
      BY <2>2, <3>1
    <3>3. Lost.pc = "lost"
      BY DEF Lost, NewAttempt
    <3> QED
      BY <2>0, <3>1, <3>2, <3>3 DEF Set, Disturb
  <2>6. ASSUME NEW x \in Attempt, Reread(x)
        PROVE  user.failures >= AccountLimit
    <3>1. \E r : Set(x, r)
      BY <2>6 DEF Reread
    <3>2. x = a
      BY <2>2, <3>1
    <3>3. \/ ~SameSubject(attempt[a].seen, user) \/ IsLocked(user, attempt[a].now)
          \/ ~TriesLeft(attempt[a])
      <4> DEFINE m == [attempt[a] EXCEPT !.pc = "persist", !.expected = user]
      <4>1. m.pc = "persist"
        BY <2>0 DEF Cores
      <4> QED
        BY <2>0, <2>6, <3>2, <4>1 DEF Reread, Set
    <3>4. /\ SameSubject(attempt[a].seen, user) /\ attempt[a].tries <= user.failures
          /\ IsLocked(user, attempt[a].now) => user.failures >= AccountLimit
      BY <2>0 DEF Follows
    <3>5. attempt[a].tries \in Nat /\ user.failures \in Nat /\ AccountLimit \in Nat
      BY <2>0, LoginAssumption DEF Cores, Users
    <3> QED
      BY <3>3, <3>4, <3>5 DEF TriesLeft
  <2> QED
    BY <2>3, <2>4, <2>5, <2>6 DEF Next
<1> QED
  BY <1>1, CountHolds, PTL DEF Spec, FailuresCounted

\* While its bucket is remembered a source gets at most SourceLimit wrong PINs checked,
\* and those of the attempts that were admitted before it reached the limit.
THEOREM SourcesAreBounded == Spec => []GuessesBounded
<1>1. GuessInv => GuessesBounded
  <2> SUFFICES ASSUME GuessInv, NEW s \in Peers, buckets[s] # None
               PROVE  buckets[s].evaluated <= SourceLimit + KdfLimit - 1
    BY DEF GuessesBounded
  <2>1. buckets[s] \in Bucket /\ BucketSound(buckets[s], Cardinality(InKdfOf(s)))
    BY DEF GuessInv, TableInv
  <2>2. Cardinality(InKdfOf(s)) \in Nat
    BY KdfCounts DEF GuessInv
  <2> QED
    BY <2>1, <2>2, LoginAssumption DEF BucketSound, Bucket
<1> QED
  BY <1>1, GuessHolds, PTL
===============================================================================
