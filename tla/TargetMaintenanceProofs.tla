------------------------ MODULE TargetMaintenanceProofs ------------------------
(***************************************************************************)
(* TargetMaintenance, for every number of invocations, backup runs,        *)
(* admissions and services: the guard is only given back by a host that    *)
(* serves, the records of an apply are what the host runs, an admission    *)
(* serves once, and a backup copies standing containers, undisturbed.      *)
(***************************************************************************)
EXTENDS TargetMaintenance, SequenceTheorems, TLAPS

JobPoints == Points \cup {"idle", "held", "dead"}
AllRunPoints == RunPoints \cup {"idle", "failed", "held", "dead", "proven", "completed"}

\* The parts of TypeOK.
HostType ==
  host \in [image : [App -> Version], compose : Version, running : SUBSET Container,
            policy : SUBSET Container, stops : SUBSET Container]
GuardType == guard \in Invocation \cup Run \cup {None}
BundleType ==
  bundle \in [staged : {"no", "partial", "yes"}, attempt : Nonce \cup {None},
              terminal : {"none", "torn", "aborted", "installed", "restored"},
              receipts : SUBSET {"installed", "restored"}, artifacts : BOOLEAN,
              hold : BOOLEAN, archives : SUBSET [nonce : Nonce, whole : BOOLEAN]]
JobType ==
  job \in [Invocation -> [at : JobPoints, nonce : Nonce \cup {None},
                          aim : Version, place : Nat, pending : SUBSET App]]
RunType ==
  backup \in [Run -> [at : AllRunPoints, binds : Version, place : Nat,
                      pending : SUBSET Container, ok : BOOLEAN, captured : BOOLEAN]]
ServiceType == service \in [active : Run \cup {None}, success : BOOLEAN]
CountType == reserved \in [Nonce -> Nat] /\ changes \in Nat

LEMMA TypeParts ==
  TypeOK <=> /\ HostType /\ GuardType /\ BundleType /\ JobType
             /\ RunType /\ ServiceType /\ CountType
BY DEF TypeOK, HostType, GuardType, BundleType, JobType, RunType, ServiceType, CountType,
       JobPoints, AllRunPoints

-----------------------------------------------------------------------------
(* The inductive invariant *)

\* The points at which a process of either job owns the guard.
Guarded == Points \ {"own"}
Working == {"prepare", "policies", "stop", "copy", "record", "settle", "start", "restart",
            "resumed", "release"}

GuardKept ==
  /\ \A p \in Invocation : job[p].at \in Guarded \cup {"held"} => guard = p
  /\ \A r \in Run : backup[r].at \in Working \cup {"held"} => guard = r

Runs(v) == host.compose = v /\ host.image = [a \in App |-> v]

Calm == host.stops = {} /\ \E v \in Version : Serving(host, v)

HostInv ==
  /\ guard = None => Calm
  /\ host.stops \subseteq host.running
  /\ changes = 0 => Runs("old")

\* A nonce that was reserved is still on record, and so is an apply that stopped writers.
BundleInv ==
  /\ \A n \in Nonce : reserved[n] # 0 =>
       bundle.hold \/ bundle.attempt = n \/ \E d \in bundle.archives : d.nonce = n
  /\ changes # 0 => bundle.attempt # None /\ bundle.terminal # "aborted"
  /\ AttemptOnce
  /\ "installed" \in bundle.receipts => Runs("new")
  /\ "restored" \in bundle.receipts => Runs("old")
  /\ bundle.terminal \in {"installed", "restored"} => bundle.terminal \in bundle.receipts

\* The points of the update tool before a writer is changed, and after.
Quiet == {"busy", "stage", "copy", "fresh", "archive", "reserve", "load", "abort", "unlock"}
Changed == {"settle", "policies", "stop", "compose", "up", "restart", "verify", "receipt",
            "terminal"}

JobInv(p) ==
  /\ job[p].at \in {"policies", "stop", "restart"} => job[p].place \in 1..Len(Service)
  /\ job[p].at \in Guarded => host.stops = {}
  /\ job[p].at \in Quiet => Calm
  /\ job[p].at \in {"receipt", "terminal"} => Serving(host, job[p].aim)
  /\ job[p].at \in {"fresh", "archive", "reserve"} => job[p].nonce \in Nonce
  /\ job[p].at \in {"archive", "reserve"} => reserved[job[p].nonce] = 0
  /\ job[p].at \in {"archive", "reserve", "load", "abort"} =>
       changes = 0 /\ bundle.receipts = {}
  /\ job[p].at = "archive" =>
       /\ job[p].place \in 1..4
       /\ (job[p].place = 4 <=> bundle.attempt = None)
       /\ job[p].place \in {2, 3} => \E d \in bundle.archives : d.nonce = bundle.attempt
  /\ job[p].at = "reserve" => bundle.attempt = None
  /\ job[p].at \in {"reserve", "load"} => bundle.terminal = "none"
  /\ job[p].at = "load" => bundle.attempt # None
  /\ job[p].at \in Changed => changes # 0
  /\ job[p].at \in Changed \ {"terminal"} => bundle.receipts = {}
  /\ job[p].at = "terminal" => Outcome(p) \in bundle.receipts

Uncaptured == {"idle", "gate", "mkdir", "prepare", "policies", "stop", "copy", "record"}

RunInv(r) ==
  /\ backup[r].at \in {"policies", "stop", "start", "restart"} =>
       backup[r].place \in 1..Len(StopOrder)
  /\ backup[r].at \in {"prepare", "release"} => Calm
  /\ backup[r].at \in Working => Runs(backup[r].binds)
  /\ backup[r].at \in Working \ {"settle"} => host.stops = {}
  /\ backup[r].at = "settle" => host.stops \subseteq backup[r].pending
  /\ backup[r].captured /\ guard = r => host.stops = {}
  /\ backup[r].at \in Uncaptured => ~backup[r].captured
  /\ backup[r].at = "policies" =>
       \A i \in 1..(backup[r].place - 1) : StopOrder[i] \notin host.policy
  /\ backup[r].at \in {"stop", "copy", "record"} => host.policy = {}
  /\ backup[r].at = "stop" =>
       \A i \in 1..(backup[r].place - 1) : StopOrder[i] \notin host.running
  /\ backup[r].at \in {"copy", "record"} => host.running = {}

\* Past the check that no backup is at work.
Beyond == Points \ {"own", "busy", "unlock"}

ServiceInv ==
  /\ \A r \in Run : backup[r].at \in RunPoints => service.active = r
  /\ \A p \in Invocation : job[p].at \in Beyond =>
       \A r \in Run : backup[r].at \in RunPoints => backup[r].at = "gate"

IInv ==
  /\ TypeOK /\ GuardKept /\ HostInv /\ BundleInv /\ ServiceInv
  /\ \A p \in Invocation : JobInv(p)
  /\ \A r \in Run : RunInv(r)

-----------------------------------------------------------------------------
(* The containers, and the orders the jobs go through them in *)

LEMMA Containers ==
  /\ Service \in Seq(App) /\ Len(Service) \in Nat \ {0}
  /\ \A i \in 1..Len(Service) : Service[i] \in App
  /\ Database \in Container /\ App \subseteq Container
  /\ Len(StopOrder) = Len(Service) + 1 /\ Len(StartOrder) = Len(Service) + 1
  /\ \A i \in 1..(Len(Service) + 1) : StopOrder[i] \in Container /\ StartOrder[i] \in Container
  /\ \A c \in Container : \E i \in 1..Len(StopOrder) : StopOrder[i] = c
<1>1. /\ Service \in Seq(App) /\ Len(Service) \in Nat \ {0}
      /\ \A i \in 1..Len(Service) : Service[i] \in App
  <2>1. Service \in Seq(App) /\ Service # <<>>
    BY HostAssumption
  <2> QED
    BY <2>1
<1>2. Database \in Container /\ App \subseteq Container
  BY DEF Container
<1>3. Service \in Seq(Container) /\ <<Database>> \in Seq(Container)
  BY <1>1, <1>2
<1>4. Len(StopOrder) = Len(Service) + 1 /\ Len(StartOrder) = Len(Service) + 1
  BY <1>3 DEF StopOrder, StartOrder
<1>5. /\ \A i \in 1..Len(Service) : StopOrder[i] = Service[i] /\ StartOrder[i + 1] = Service[i]
      /\ StopOrder[Len(Service) + 1] = Database /\ StartOrder[1] = Database
  BY <1>1, <1>3 DEF StopOrder, StartOrder
<1>6. ASSUME NEW i \in 1..(Len(Service) + 1)
      PROVE  StopOrder[i] \in Container /\ StartOrder[i] \in Container
  <2>1. StopOrder[i] \in Container
    <3>1. CASE i = Len(Service) + 1
      BY <1>2, <1>5, <3>1
    <3>2. CASE i \in 1..Len(Service)
      BY <1>1, <1>2, <1>5, <3>2
    <3> QED
      BY <1>1, <3>1, <3>2
  <2>2. StartOrder[i] \in Container
    <3>1. CASE i = 1
      BY <1>2, <1>5, <3>1
    <3>2. CASE i - 1 \in 1..Len(Service)
      <4>1. StartOrder[(i - 1) + 1] = Service[i - 1] /\ Service[i - 1] \in Container
        BY <1>1, <1>2, <1>5, <3>2
      <4> QED
        BY <1>1, <3>2, <4>1
    <3> QED
      BY <1>1, <3>1, <3>2
  <2> QED
    BY <2>1, <2>2
<1>7. ASSUME NEW c \in Container
      PROVE  \E i \in 1..Len(StopOrder) : StopOrder[i] = c
  <2>1. CASE c = Database
    BY <1>1, <1>4, <1>5, <2>1
  <2>2. CASE c \in App
    <3>1. PICK i \in 1..Len(Service) : Service[i] = c
      BY <2>2 DEF App
    <3> QED
      BY <1>1, <1>4, <1>5, <3>1
  <2> QED
    BY <2>1, <2>2 DEF Container
<1> QED
  BY <1>1, <1>2, <1>4, <1>6, <1>7

-----------------------------------------------------------------------------
(* How a process moves on *)

LEMMA Gone ==
  ASSUME JobType, NEW p \in Invocation, NEW point \in JobPoints, Goto(p, point)
  PROVE  /\ JobType'
         /\ job'[p].at = point /\ job'[p].place = 1 /\ job'[p].nonce = job[p].nonce
         /\ job'[p].aim = job[p].aim /\ job'[p].pending = job[p].pending
         /\ \A q \in Invocation \ {p} : job'[q] = job[q]
BY DEF JobType, Goto

LEMMA Advanced ==
  ASSUME JobType, NEW p \in Invocation, Advance(p)
  PROVE  /\ JobType'
         /\ job'[p].at = job[p].at /\ job'[p].place = job[p].place + 1
         /\ job'[p].nonce = job[p].nonce /\ job'[p].aim = job[p].aim
         /\ job'[p].pending = job[p].pending
         /\ \A q \in Invocation \ {p} : job'[q] = job[q]
BY DEF JobType, Advance

LEMMA RunGone ==
  ASSUME RunType, NEW r \in Run, NEW point \in AllRunPoints, Go(r, point)
  PROVE  /\ RunType'
         /\ backup'[r].at = point /\ backup'[r].place = 1
         /\ backup'[r].binds = backup[r].binds /\ backup'[r].pending = backup[r].pending
         /\ backup'[r].ok = backup[r].ok /\ backup'[r].captured = backup[r].captured
         /\ \A q \in Run \ {r} : backup'[q] = backup[q]
BY DEF RunType, Go

LEMMA RunAdvanced ==
  ASSUME RunType, NEW r \in Run, Further(r)
  PROVE  /\ RunType'
         /\ backup'[r].at = backup[r].at /\ backup'[r].place = backup[r].place + 1
         /\ backup'[r].binds = backup[r].binds /\ backup'[r].pending = backup[r].pending
         /\ backup'[r].ok = backup[r].ok /\ backup'[r].captured = backup[r].captured
         /\ \A q \in Run \ {r} : backup'[q] = backup[q]
BY DEF RunType, Further

\* While a process of the update tool owns the guard, a step of it disturbs nobody else.
LEMMA JobStep ==
  ASSUME IInv, NEW p \in Invocation, guard = p,
         guard' \in {p, None}, UNCHANGED <<backup, service>>,
         \A q \in Invocation \ {p} : job'[q] = job[q],
         TypeOK', HostInv', BundleInv', JobInv(p)',
         job'[p].at \in Guarded \cup {"held"} => guard' = p,
         job'[p].at \in Beyond => job[p].at \in Beyond \/ service.active = None
  PROVE  IInv'
<1>1. p # None /\ p \notin Run
  BY HostAssumption
<1>2. \A q \in Invocation \ {p} : job'[q].at \notin Guarded \cup {"held"}
  BY <1>1 DEF IInv, GuardKept
<1>3. \A r \in Run : backup'[r].at \notin Working \cup {"held"}
  BY <1>1 DEF IInv, GuardKept
<1>4. GuardKept'
  BY <1>2, <1>3 DEF GuardKept
<1>5. ASSUME NEW q \in Invocation
      PROVE  JobInv(q)'
  <2>1. CASE q = p
    BY <2>1
  <2>2. CASE q # p
    <3>1. job'[q].at \notin Guarded
      BY <1>2, <2>2
    <3> QED
      BY <3>1 DEF JobInv, Guarded, Quiet, Changed, Points
  <2> QED
    BY <2>1, <2>2
<1>6. ASSUME NEW r \in Run
      PROVE  RunInv(r)'
  <2>1. backup'[r].at \notin Working /\ guard' # r
    BY <1>1, <1>3, HostAssumption
  <2>2. backup[r].at \in Uncaptured => ~backup[r].captured
    BY DEF IInv, RunInv
  <2> QED
    BY <2>1, <2>2 DEF RunInv, Working
<1>7. ServiceInv'
  <2>1. ServiceInv /\ TypeOK
    BY DEF IInv
  <2>2. \A r \in Run : backup'[r].at \in RunPoints => service'.active = r
    BY <2>1 DEF ServiceInv
  <2>3. ASSUME NEW q \in Invocation, job'[q].at \in Beyond,
               NEW r \in Run, backup'[r].at \in RunPoints
        PROVE  backup'[r].at = "gate"
    <3>1. CASE q # p
      BY <2>1, <2>3, <3>1 DEF ServiceInv
    <3>2. CASE q = p /\ job[p].at \in Beyond
      BY <2>1, <2>3, <3>2 DEF ServiceInv
    <3>3. CASE service.active = None
      BY <2>1, <2>3, <3>3, HostAssumption DEF ServiceInv
    <3> QED
      BY <2>3, <3>1, <3>2, <3>3
  <2> QED
    BY <2>2, <2>3 DEF ServiceInv
<1> QED
  BY <1>4, <1>5, <1>6, <1>7 DEF IInv

\* The same of a backup run.
LEMMA RunStep ==
  ASSUME IInv, NEW r \in Run, guard = r, backup[r].at # "idle",
         guard' \in {r, None}, UNCHANGED jobVars,
         \A q \in Run \ {r} : backup'[q] = backup[q],
         TypeOK', HostInv', BundleInv', RunInv(r)',
         backup'[r].at \in Working \cup {"held"} => guard' = r,
         backup'[r].at \in RunPoints =>
           backup[r].at \in RunPoints \ {"gate"} /\ service' = service,
         service' = service \/ (service'.active = None /\ backup[r].at \in RunPoints)
  PROVE  IInv'
<1>1. r # None /\ r \notin Invocation
  BY HostAssumption
<1>2. \A p \in Invocation : job'[p].at \notin Guarded \cup {"held"}
  BY <1>1 DEF IInv, GuardKept, jobVars
<1>3. \A q \in Run \ {r} : backup'[q].at \notin Working \cup {"held"}
  BY <1>1 DEF IInv, GuardKept
<1>4. GuardKept'
  BY <1>2, <1>3 DEF GuardKept
<1>5. ASSUME NEW p \in Invocation
      PROVE  JobInv(p)'
  <2>1. job'[p].at \notin Guarded
    BY <1>2
  <2> QED
    BY <2>1 DEF JobInv, Guarded, Quiet, Changed, Points
<1>6. ASSUME NEW q \in Run
      PROVE  RunInv(q)'
  <2>1. CASE q = r
    BY <2>1
  <2>2. CASE q # r
    <3>1. backup'[q].at \notin Working /\ guard' # q /\ backup'[q] = backup[q]
      BY <1>1, <1>3, <2>2, HostAssumption
    <3>2. backup[q].at \in Uncaptured => ~backup[q].captured
      BY DEF IInv, RunInv
    <3> QED
      BY <3>1, <3>2 DEF RunInv, Working
  <2> QED
    BY <2>1, <2>2
<1>7. ServiceInv'
  <2>1. ServiceInv /\ UNCHANGED job
    BY DEF IInv, jobVars
  <2>2. ASSUME NEW q \in Run, backup'[q].at \in RunPoints
        PROVE  service'.active = q
    <3>1. CASE q = r
      BY <2>1, <2>2, <3>1 DEF ServiceInv
    <3>2. CASE q # r
      <4>1. service.active = q /\ backup[q].at \in RunPoints
        BY <2>1, <2>2, <3>2 DEF ServiceInv
      <4>2. service' = service
        BY <2>1, <3>2, <4>1 DEF ServiceInv
      <4> QED
        BY <4>1, <4>2
    <3> QED
      BY <3>1, <3>2
  <2>3. \A p \in Invocation : job'[p].at \notin Beyond
    BY <1>2 DEF Beyond, Guarded
  <2> QED
    BY <2>2, <2>3 DEF ServiceInv
<1> QED
  BY <1>4, <1>5, <1>6, <1>7 DEF IInv

LEMMA NextTypes ==
  HostType' /\ GuardType' /\ BundleType' /\ JobType' /\ RunType' /\ ServiceType' /\ CountType'
    => TypeOK'
BY DEF TypeOK, HostType, GuardType, BundleType, JobType, RunType, ServiceType, CountType,
       JobPoints, AllRunPoints

LEMMA Parts ==
  ASSUME IInv
  PROVE  /\ HostType /\ GuardType /\ BundleType /\ JobType /\ RunType /\ ServiceType /\ CountType
         /\ GuardKept /\ HostInv /\ BundleInv /\ ServiceInv
BY TypeParts DEF IInv

LEMMA Owner ==
  ASSUME IInv, NEW p \in Invocation, job[p].at \in Guarded
  PROVE  guard = p /\ host.stops = {} /\ JobInv(p)
BY DEF IInv, GuardKept, JobInv

LEMMA RunOwner ==
  ASSUME IInv, NEW r \in Run, backup[r].at \in Working \cup {"held"}
  PROVE  guard = r /\ RunInv(r)
BY DEF IInv, GuardKept

\* A process that does not own the guard, or takes it, touches nothing else.
LEMMA OffJob ==
  ASSUME IInv, NEW p \in Invocation, job[p].at \in {"idle", "own"},
         UNCHANGED <<host, bundle, runVars, reserved, changes>>,
         \A q \in Invocation \ {p} : job'[q] = job[q],
         JobType', JobInv(p)',
         \/ guard' = guard /\ job'[p].at \in {"own", "idle", "dead"}
         \/ guard = None /\ guard' = p /\ job'[p].at \in {"busy", "dead"}
  PROVE  IInv'
<1>1. p # None /\ p \notin Run
  BY HostAssumption
<1>2. TypeOK'
  BY Parts, NextTypes DEF HostType, GuardType, BundleType, RunType, ServiceType, CountType, runVars
<1>3. GuardKept'
  BY Parts, HostAssumption DEF GuardKept, Guarded, Points, runVars
<1>4. HostInv'
  BY Parts, <1>1 DEF HostInv, Calm, Serving, Runs
<1>5. BundleInv'
  BY Parts DEF BundleInv, AttemptOnce, Runs
<1>6. ServiceInv'
  <2>1. ServiceInv /\ UNCHANGED <<backup, service>>
    BY Parts DEF runVars
  <2>2. job'[p].at \notin Beyond
    BY DEF Beyond, Points
  <2> QED
    BY <2>1, <2>2 DEF ServiceInv
<1>7. ASSUME NEW q \in Invocation
      PROVE  JobInv(q)'
  <2>1. CASE q = p
    BY <2>1
  <2>2. CASE q # p
    <3>1. JobInv(q) /\ job'[q] = job[q]
      BY <2>2 DEF IInv
    <3> QED
      BY <3>1 DEF JobInv, Outcome, Calm, Serving
  <2> QED
    BY <2>1, <2>2
<1>8. ASSUME NEW r \in Run
      PROVE  RunInv(r)'
  <2>1. RunInv(r) /\ backup' = backup /\ host' = host
    BY DEF IInv, runVars
  <2>2. guard' = r => guard = r
    BY <1>1
  <2> QED
    BY <2>1, <2>2 DEF RunInv, Calm, Serving, Runs
<1> QED
  BY <1>2, <1>3, <1>4, <1>5, <1>6, <1>7, <1>8 DEF IInv

LEMMA OffRun ==
  ASSUME IInv, NEW r \in Run, backup[r].at \in {"idle", "gate", "mkdir", "transfer", "restore"},
         UNCHANGED <<host, jobVars>>,
         \A q \in Run \ {r} : backup'[q] = backup[q],
         RunType', ServiceType', RunInv(r)',
         \/ /\ guard' = guard
            /\ backup'[r].at \in {"gate", "mkdir", "transfer", "restore", "failed", "proven",
                                  "dead"}
         \/ guard = None /\ guard' = r /\ backup'[r].at = "prepare",
         backup'[r].at \in RunPoints => service'.active = r,
         backup'[r].at \in RunPoints \ {"gate"} =>
           backup[r].at \in RunPoints \ {"gate"} \/ guard = None,
         service' = service \/ service.active \in {None, r}
  PROVE  IInv'
<1>1. r # None /\ r \notin Invocation
  BY HostAssumption
<1>2. TypeOK'
  BY Parts, NextTypes DEF HostType, GuardType, BundleType, JobType, CountType, jobVars
<1>3. GuardKept'
  BY Parts, HostAssumption DEF GuardKept, Working, jobVars
<1>4. HostInv'
  BY Parts, <1>1 DEF HostInv, Calm, Serving, Runs, jobVars
<1>5. BundleInv'
  BY Parts DEF BundleInv, AttemptOnce, Runs, jobVars
<1>6. ServiceInv'
  <2>1. ServiceInv /\ GuardKept /\ job' = job
    BY Parts DEF jobVars
  <2>2. ASSUME NEW q \in Run, backup'[q].at \in RunPoints
        PROVE  service'.active = q
    <3>1. CASE q = r
      BY <2>2, <3>1
    <3>2. CASE q # r
      <4>1. service.active = q
        BY <2>1, <2>2, <3>2 DEF ServiceInv
      <4> QED
        BY <3>2, <4>1, HostAssumption
    <3> QED
      BY <3>1, <3>2
  <2>3. ASSUME NEW p \in Invocation, job'[p].at \in Beyond,
               NEW q \in Run, backup'[q].at \in RunPoints
        PROVE  backup'[q].at = "gate"
    <3>1. guard = p /\ p # None
      BY <2>1, <2>3, HostAssumption DEF GuardKept, Beyond, Guarded
    <3> QED
      BY <2>1, <2>3, <3>1 DEF ServiceInv
  <2> QED
    BY <2>2, <2>3 DEF ServiceInv
<1>7. ASSUME NEW p \in Invocation
      PROVE  JobInv(p)'
  <2>1. JobInv(p) /\ UNCHANGED <<host, job, bundle, reserved, changes>>
    BY DEF IInv, jobVars
  <2> QED
    BY <2>1 DEF JobInv, Outcome, Calm, Serving
<1>8. ASSUME NEW q \in Run
      PROVE  RunInv(q)'
  <2>1. CASE q = r
    BY <2>1
  <2>2. CASE q # r
    <3>1. RunInv(q) /\ backup'[q] = backup[q] /\ host' = host
      BY <2>2 DEF IInv
    <3>2. guard' = q => guard = q
      BY <2>2
    <3> QED
      BY <3>1, <3>2 DEF RunInv, Calm, Serving, Runs
  <2> QED
    BY <2>1, <2>2
<1> QED
  BY <1>2, <1>3, <1>4, <1>5, <1>6, <1>7, <1>8 DEF IInv

\* A step of the guard's owner that leaves the host and the records as they are.
LEMMA StillWorld ==
  ASSUME IInv, UNCHANGED <<host, bundle, reserved, changes>>, guard' # None \/ Calm
  PROVE  HostType' /\ BundleType' /\ CountType' /\ HostInv' /\ BundleInv'
<1>1. HostType' /\ BundleType' /\ CountType'
  BY Parts DEF HostType, BundleType, CountType
<1>2. HostInv'
  BY Parts DEF HostInv, Calm, Serving, Runs
<1>3. BundleInv'
  BY Parts DEF BundleInv, AttemptOnce, Runs
<1> QED
  BY <1>1, <1>2, <1>3

\* A step of the update tool that leaves all records as they are, and may change the host.
LEMMA StillRecords ==
  ASSUME IInv, UNCHANGED <<bundle, reserved, changes>>, host' = host \/ changes # 0,
         host' = host \/ bundle.receipts = {}, host'.stops \subseteq host'.running,
         guard' # None \/ Calm'
  PROVE  BundleType' /\ CountType' /\ HostInv' /\ BundleInv'
<1>1. BundleType' /\ CountType'
  BY Parts DEF BundleType, CountType
<1>2. HostInv'
  BY Parts DEF HostInv, Runs
<1>3. BundleInv'
  <2>1. CASE host' = host
    BY Parts, <2>1 DEF BundleInv, AttemptOnce, Runs
  <2>2. CASE bundle.receipts = {}
    BY Parts, <2>2 DEF BundleInv, AttemptOnce
  <2> QED
    BY <2>1, <2>2
<1> QED
  BY <1>1, <1>2, <1>3

-----------------------------------------------------------------------------
(* The update tool, step by step *)

LEMMA Begins ==
  ASSUME IInv, NEW p \in Invocation, BeginStage(p) \/ \E n \in Nonce : BeginApply(p, n)
  PROVE  IInv'
<1>1. PICK n \in Nonce \cup {None} :
        job' = [job EXCEPT ![p].at = "own", ![p].nonce = n, ![p].aim = "new"]
  BY DEF BeginStage, BeginApply
<1>2. JobType' /\ job'[p].at = "own" /\ \A q \in Invocation \ {p} : job'[q] = job[q]
  <2>1. JobType /\ "own" \in JobPoints /\ "new" \in Version
    BY Parts DEF JobPoints, Points, Version
  <2> QED
    BY <1>1, <2>1 DEF JobType
<1>3. JobInv(p)'
  BY <1>2 DEF JobInv, Guarded, Quiet, Changed
<1> QED
  BY <1>2, <1>3, OffJob DEF BeginStage, BeginApply, At

LEMMA OwnLockStep ==
  ASSUME IInv, NEW p \in Invocation, OwnLock(p)
  PROVE  IInv'
<1>1. CASE guard = None
  <2>1. guard' = p /\ Goto(p, "busy")
    BY <1>1 DEF OwnLock
  <2>2. /\ JobType' /\ job'[p].at = "busy"
        /\ \A q \in Invocation \ {p} : job'[q] = job[q]
    <3>1. JobType /\ "busy" \in JobPoints
      BY Parts DEF JobPoints, Points
    <3> QED
      BY <2>1, <3>1, Gone
  <2>3. Calm'
    BY <1>1, Parts DEF HostInv, OwnLock, Calm, Serving
  <2>4. JobInv(p)'
    BY <2>2, <2>3 DEF JobInv, Guarded, Quiet, Changed, Calm
  <2> QED
    BY <1>1, <2>1, <2>2, <2>4, OffJob DEF OwnLock, At
<1>2. CASE guard # None
  <2>1. guard' = guard /\ Goto(p, "idle")
    BY <1>2 DEF OwnLock
  <2>2. /\ JobType' /\ job'[p].at = "idle"
        /\ \A q \in Invocation \ {p} : job'[q] = job[q]
    <3>1. JobType /\ "idle" \in JobPoints
      BY Parts DEF JobPoints, Points
    <3> QED
      BY <2>1, <3>1, Gone
  <2>3. JobInv(p)'
    BY <2>2 DEF JobInv, Guarded, Quiet, Changed, Points
  <2> QED
    BY <2>1, <2>2, <2>3, OffJob DEF OwnLock, At
<1> QED
  BY <1>1, <1>2

\* What an owner of the guard that goes on must show of the state it leaves behind.
LEMMA Going ==
  ASSUME IInv, NEW p \in Invocation, job[p].at \in Guarded, NEW point \in JobPoints,
         Goto(p, point), guard' = guard, UNCHANGED <<backup, service>>,
         HostType' /\ BundleType' /\ CountType', HostInv', BundleInv',
         job'[p].at = point => JobInv(p)',
         point \in Beyond => job[p].at \in Beyond \/ service.active = None
  PROVE  IInv'
<1>1. /\ JobType' /\ job'[p].at = point
      /\ \A q \in Invocation \ {p} : job'[q] = job[q]
  BY Gone, Parts
<1>2. guard = p
  BY Owner
<1>3. TypeOK'
  BY <1>1, Parts, NextTypes DEF GuardType, RunType, ServiceType
<1> QED
  BY <1>1, <1>2, <1>3, JobStep

LEMMA Advancing ==
  ASSUME IInv, NEW p \in Invocation, job[p].at \in Guarded, Advance(p),
         guard' = guard, UNCHANGED <<backup, service>>,
         HostType' /\ BundleType' /\ CountType', HostInv', BundleInv',
         job'[p].at = job[p].at => JobInv(p)'
  PROVE  IInv'
<1>1. /\ JobType' /\ job'[p].at = job[p].at
      /\ \A q \in Invocation \ {p} : job'[q] = job[q]
  BY Advanced, Parts
<1>2. guard = p
  BY Owner
<1>3. TypeOK'
  BY <1>1, Parts, NextTypes DEF GuardType, RunType, ServiceType
<1> QED
  BY <1>1, <1>2, <1>3, JobStep

LEMMA PointsAre ==
  /\ \A point \in Points : point \in JobPoints
  /\ "held" \in JobPoints /\ "dead" \in JobPoints /\ "idle" \in JobPoints
  /\ \A point \in {"fresh", "stage", "unlock", "copy", "archive", "reserve", "load", "abort",
        "policies", "stop", "compose", "up", "restart", "verify", "receipt", "terminal",
        "settle", "busy"} : point \in JobPoints /\ point \in Guarded /\ point \in Points
BY DEF JobPoints, Points, Guarded

LEMMA IdleStep ==
  ASSUME IInv, NEW p \in Invocation, Idle(p)
  PROVE  IInv'
<1>1. /\ job[p].at = "busy" /\ job[p].at \in Guarded
      /\ UNCHANGED <<host, guard, bundle, backup, service, reserved, changes>>
  BY DEF Idle, At, Guarded, Points, runVars
<1>2. guard = p /\ Calm /\ host.stops = {}
  BY <1>1, Owner DEF JobInv, Quiet
<1>3. HostType' /\ BundleType' /\ CountType' /\ HostInv' /\ BundleInv'
  BY <1>1, <1>2, StillWorld
<1>4. Calm' /\ host'.stops = {}
  BY <1>1, <1>2 DEF Calm, Serving
<1>5. CASE Goto(p, "unlock")
  <2>1. job'[p].at = "unlock" => JobInv(p)'
    BY <1>4 DEF JobInv, Guarded, Quiet, Changed
  <2>2. "unlock" \notin Beyond
    BY DEF Beyond
  <2> QED
    BY <1>1, <1>3, <1>5, <2>1, <2>2, Going, PointsAre
<1>6. CASE Goto(p, "stage") /\ service.active = None
  <2>1. job'[p].at = "stage" => JobInv(p)'
    BY <1>4 DEF JobInv, Guarded, Quiet, Changed
  <2> QED
    BY <1>1, <1>3, <1>6, <2>1, Going, PointsAre
<1>7. CASE Goto(p, "fresh") /\ service.active = None /\ job[p].nonce # None
  <2>1. job[p].nonce \in Nonce /\ job'[p].nonce = job[p].nonce
    BY <1>7, Parts, PointsAre, Gone DEF JobType
  <2>2. job'[p].at = "fresh" => JobInv(p)'
    BY <1>4, <2>1 DEF JobInv, Guarded, Quiet, Changed
  <2> QED
    BY <1>1, <1>3, <1>7, <2>2, Going, PointsAre
<1> QED
  BY <1>5, <1>6, <1>7 DEF Idle

LEMMA StageStep ==
  ASSUME IInv, NEW p \in Invocation, Stage(p) \/ Staged(p)
  PROVE  IInv'
<1>1. /\ job[p].at \in {"stage", "copy"} /\ job[p].at \in Guarded
      /\ UNCHANGED <<host, guard, backup, service, reserved, changes>>
  BY DEF Stage, Staged, At, Guarded, Points, runVars
<1>2. guard = p /\ Calm /\ host.stops = {} /\ p # None
  BY <1>1, Owner, HostAssumption DEF JobInv, Quiet
<1>3. PICK s \in {"no", "partial", "yes"} : bundle' = [bundle EXCEPT !.staged = s]
  BY Parts DEF Stage, Staged, BundleType
<1>4. HostType' /\ BundleType' /\ CountType' /\ HostInv'
  BY <1>1, <1>3, Parts DEF HostType, BundleType, CountType, HostInv, Calm, Serving, Runs
<1>5. BundleInv'
  <2>1. bundle'.hold = bundle.hold /\ bundle'.attempt = bundle.attempt
        /\ bundle'.archives = bundle.archives /\ bundle'.terminal = bundle.terminal
        /\ bundle'.receipts = bundle.receipts
    BY <1>3, Parts DEF BundleType
  <2> QED
    BY <1>1, <2>1, Parts DEF BundleInv, AttemptOnce, Runs
<1>6. Calm' /\ host'.stops = {}
  BY <1>1, <1>2 DEF Calm, Serving
<1>7. PICK point \in {"copy", "unlock"} : Goto(p, point)
  BY DEF Stage, Staged
<1>8. job'[p].at = point => JobInv(p)'
  BY <1>6 DEF JobInv, Guarded, Quiet, Changed
<1> QED
  BY <1>1, <1>4, <1>5, <1>7, <1>8, Going, PointsAre DEF Beyond, Points

\* A fresh attempt finds no writer changed, and its nonce on no record.
LEMMA FreshMeans ==
  ASSUME IInv, NEW n \in Nonce, Fresh(n)
  PROVE  /\ reserved[n] = 0 /\ changes = 0 /\ bundle.receipts = {}
         /\ bundle.attempt = None => bundle.terminal = "none"
<1>1. BundleInv /\ n # None
  BY Parts, HostAssumption
<1> QED
  BY <1>1 DEF Fresh, BundleInv

LEMMA FreshStep ==
  ASSUME IInv, NEW p \in Invocation, FreshApply(p)
  PROVE  IInv'
<1>1. /\ job[p].at = "fresh" /\ job[p].at \in Guarded /\ job[p].at \in Beyond
      /\ UNCHANGED <<host, guard, bundle, backup, service, reserved, changes>>
  BY DEF FreshApply, At, Guarded, Points, Beyond, runVars
<1>2. guard = p /\ Calm /\ host.stops = {} /\ job[p].nonce \in Nonce
  BY <1>1, Owner DEF JobInv, Quiet
<1>3. HostType' /\ BundleType' /\ CountType' /\ HostInv' /\ BundleInv'
  BY <1>1, <1>2, StillWorld
<1>4. Calm' /\ host'.stops = {}
  BY <1>1, <1>2 DEF Calm, Serving
<1>5. CASE Goto(p, "unlock")
  <2>1. job'[p].at = "unlock" => JobInv(p)'
    BY <1>4 DEF JobInv, Guarded, Quiet, Changed
  <2> QED
    BY <1>1, <1>3, <1>5, <2>1, Going, PointsAre
<1>6. CASE Fresh(job[p].nonce) /\ bundle.attempt # None /\ Goto(p, "archive")
  <2>1. job'[p].nonce = job[p].nonce /\ job'[p].place = 1
    BY <1>6, Parts, PointsAre, Gone
  <2>2. reserved'[job'[p].nonce] = 0 /\ changes' = 0 /\ bundle'.receipts = {}
    BY <1>1, <1>2, <1>6, <2>1, FreshMeans
  <2>3. job'[p].at = "archive" => JobInv(p)'
    BY <1>1, <1>2, <1>4, <1>6, <2>1, <2>2 DEF JobInv, Guarded, Quiet, Changed
  <2> QED
    BY <1>1, <1>3, <1>6, <2>3, Going, PointsAre
<1>7. CASE Fresh(job[p].nonce) /\ bundle.attempt = None /\ Goto(p, "reserve")
  <2>1. job'[p].nonce = job[p].nonce
    BY <1>7, Parts, PointsAre, Gone
  <2>2. reserved'[job'[p].nonce] = 0 /\ changes' = 0 /\ bundle'.receipts = {}
        /\ bundle'.terminal = "none"
    BY <1>1, <1>2, <1>7, <2>1, FreshMeans
  <2>3. job'[p].at = "reserve" => JobInv(p)'
    BY <1>1, <1>2, <1>4, <1>7, <2>1, <2>2 DEF JobInv, Guarded, Quiet, Changed
  <2> QED
    BY <1>1, <1>3, <1>7, <2>3, Going, PointsAre
<1> QED
  BY <1>5, <1>6, <1>7 DEF FreshApply

LEMMA VerifyStep ==
  ASSUME IInv, NEW p \in Invocation, VerifyRuntime(p)
  PROVE  IInv'
<1>1. /\ job[p].at = "verify" /\ job[p].at \in Guarded /\ job[p].at \in Beyond
      /\ UNCHANGED <<host, guard, bundle, backup, service, reserved, changes>>
  BY DEF VerifyRuntime, At, Guarded, Points, Beyond, runVars
<1>2. guard = p /\ p # None /\ host.stops = {} /\ changes # 0 /\ bundle.receipts = {}
  BY <1>1, Owner, HostAssumption DEF JobInv, Changed
<1>3. HostType' /\ BundleType' /\ CountType' /\ HostInv' /\ BundleInv'
  BY <1>1, <1>2, StillWorld
<1>4. PICK point \in {"receipt", "settle", "held"} :
        Goto(p, point) /\ (point = "receipt" => Serving(host, job[p].aim))
  BY DEF VerifyRuntime
<1>5. job'[p].aim = job[p].aim
  BY <1>4, Parts, PointsAre, Gone
<1>6. job'[p].at = point => JobInv(p)'
  BY <1>1, <1>2, <1>4, <1>5 DEF JobInv, Guarded, Quiet, Changed, Serving, Points
<1> QED
  BY <1>1, <1>3, <1>4, <1>6, Going, PointsAre

LEMMA UnlockStep ==
  ASSUME IInv, NEW p \in Invocation, Unlock(p)
  PROVE  IInv'
<1>1. /\ job[p].at = "unlock" /\ job[p].at \in Guarded /\ guard = p /\ guard' = None
      /\ UNCHANGED <<host, bundle, backup, service, reserved, changes>> /\ Goto(p, "idle")
  BY DEF Unlock, At, Guarded, Points, runVars
<1>2. Calm
  BY <1>1, Owner DEF JobInv, Quiet
<1>3. HostType' /\ BundleType' /\ CountType' /\ HostInv' /\ BundleInv'
  BY <1>1, <1>2, StillWorld
<1>4. /\ JobType' /\ job'[p].at = "idle"
      /\ \A q \in Invocation \ {p} : job'[q] = job[q]
  BY <1>1, Parts, PointsAre, Gone
<1>5. JobInv(p)'
  BY <1>4 DEF JobInv, Guarded, Quiet, Changed, Points
<1>6. TypeOK'
  BY <1>1, <1>3, <1>4, Parts, NextTypes DEF GuardType, RunType, ServiceType
<1> QED
  BY <1>1, <1>3, <1>4, <1>5, <1>6, JobStep DEF Beyond, Guarded, Points

LEMMA ArchiveStep ==
  ASSUME IInv, NEW p \in Invocation, Archive(p)
  PROVE  IInv'
<1>1. /\ job[p].at = "archive" /\ job[p].at \in Guarded /\ job[p].at \in Beyond
      /\ UNCHANGED <<host, guard, backup, service, reserved, changes>>
  BY DEF Archive, At, Guarded, Points, Beyond, runVars
<1>2. /\ guard = p /\ p # None /\ Calm /\ host.stops = {} /\ job[p].nonce \in Nonce
      /\ reserved[job[p].nonce] = 0 /\ changes = 0 /\ bundle.receipts = {}
      /\ job[p].place \in 1..4 /\ (job[p].place = 4 <=> bundle.attempt = None)
      /\ job[p].place \in {2, 3} => \E d \in bundle.archives : d.nonce = bundle.attempt
  BY <1>1, Owner, HostAssumption DEF JobInv, Quiet
<1>3. HostType' /\ CountType' /\ HostInv' /\ Calm' /\ host'.stops = {}
  BY <1>1, <1>2, Parts DEF HostType, CountType, HostInv, Calm, Serving, Runs
<1>4. BundleType /\ BundleInv
  BY Parts
<1>5. CASE job[p].place = 1
  <2>1. /\ bundle.attempt \in Nonce
        /\ bundle' = [bundle EXCEPT !.archives =
                        bundle.archives \cup {[nonce |-> bundle.attempt, whole |-> FALSE]}]
        /\ Advance(p)
    BY <1>2, <1>4, <1>5 DEF Archive, BundleType
  <2>2. BundleType'
    <3>1. [nonce |-> bundle.attempt, whole |-> FALSE] \in [nonce : Nonce, whole : BOOLEAN]
      BY <2>1
    <3>2. bundle.archives \cup {[nonce |-> bundle.attempt, whole |-> FALSE]}
            \in SUBSET [nonce : Nonce, whole : BOOLEAN]
      BY <1>4, <3>1 DEF BundleType
    <3> QED
      BY <1>4, <2>1, <3>2 DEF BundleType
  <2>3. /\ bundle'.hold = bundle.hold /\ bundle'.attempt = bundle.attempt
        /\ bundle'.terminal = bundle.terminal /\ bundle'.receipts = bundle.receipts
        /\ bundle.archives \subseteq bundle'.archives
        /\ [nonce |-> bundle.attempt, whole |-> FALSE] \in bundle'.archives
    BY <1>4, <2>1 DEF BundleType
  <2>4. BundleInv'
    BY <1>1, <1>4, <2>3 DEF BundleInv, AttemptOnce, Runs
  <2>5. \E d \in bundle'.archives : d.nonce = bundle'.attempt
    BY <2>3
  <2>6. job'[p].at = job[p].at /\ job'[p].nonce = job[p].nonce /\ job'[p].place = 2
    BY <1>5, <2>1, Parts, Advanced
  <2>7. job'[p].at = job[p].at => JobInv(p)'
    BY <1>1, <1>2, <1>3, <2>1, <2>3, <2>5, <2>6, HostAssumption
       DEF JobInv, Guarded, Quiet, Changed
  <2> QED
    BY <1>1, <1>3, <2>1, <2>2, <2>4, <2>7, Advancing
<1>6. CASE job[p].place = 2
  <2>1. bundle' = [bundle EXCEPT !.artifacts = FALSE] /\ Advance(p)
    BY <1>6 DEF Archive
  <2>2. BundleType'
    BY <1>4, <2>1 DEF BundleType
  <2>3. /\ bundle'.hold = bundle.hold /\ bundle'.attempt = bundle.attempt
        /\ bundle'.terminal = bundle.terminal /\ bundle'.receipts = bundle.receipts
        /\ bundle'.archives = bundle.archives
    BY <1>4, <2>1 DEF BundleType
  <2>4. BundleInv'
    BY <1>1, <1>4, <2>3 DEF BundleInv, AttemptOnce, Runs
  <2>5. job'[p].at = job[p].at /\ job'[p].nonce = job[p].nonce /\ job'[p].place = 3
    BY <1>6, <2>1, Parts, Advanced
  <2>6. job'[p].at = job[p].at => JobInv(p)'
    BY <1>1, <1>2, <1>3, <1>6, <2>3, <2>5 DEF JobInv, Guarded, Quiet, Changed
  <2> QED
    BY <1>1, <1>3, <2>1, <2>2, <2>4, <2>6, Advancing
<1>7. CASE job[p].place = 3
  <2>1. bundle' = [bundle EXCEPT !.attempt = None] /\ Advance(p)
    BY <1>7 DEF Archive
  <2>2. BundleType'
    BY <1>4, <2>1 DEF BundleType
  <2>3. /\ bundle'.hold = bundle.hold /\ bundle'.attempt = None
        /\ bundle'.terminal = bundle.terminal /\ bundle'.receipts = bundle.receipts
        /\ bundle'.archives = bundle.archives
    BY <1>4, <2>1 DEF BundleType
  <2>4. BundleInv'
    BY <1>1, <1>2, <1>4, <1>7, <2>3 DEF BundleInv, AttemptOnce, Runs
  <2>5. job'[p].at = job[p].at /\ job'[p].nonce = job[p].nonce /\ job'[p].place = 4
    BY <1>7, <2>1, Parts, Advanced
  <2>6. job'[p].at = job[p].at => JobInv(p)'
    BY <1>1, <1>2, <1>3, <2>3, <2>5 DEF JobInv, Guarded, Quiet, Changed
  <2> QED
    BY <1>1, <1>3, <2>1, <2>2, <2>4, <2>6, Advancing
<1>8. CASE job[p].place = 4
  <2>1. /\ bundle' = [bundle EXCEPT !.terminal = "none",
               !.archives = {[d EXCEPT !.whole = TRUE] : d \in bundle.archives}]
        /\ Goto(p, "reserve")
    BY <1>8 DEF Archive
  <2>2. /\ bundle'.hold = bundle.hold /\ bundle'.attempt = bundle.attempt
        /\ bundle'.terminal = "none" /\ bundle'.receipts = bundle.receipts
        /\ bundle'.archives = {[d EXCEPT !.whole = TRUE] : d \in bundle.archives}
    BY <1>4, <2>1 DEF BundleType
  <2>3. ASSUME NEW d \in bundle.archives
        PROVE  /\ [d EXCEPT !.whole = TRUE] \in [nonce : Nonce, whole : BOOLEAN]
               /\ [d EXCEPT !.whole = TRUE].nonce = d.nonce
    <3>1. d \in [nonce : Nonce, whole : BOOLEAN]
      BY <1>4 DEF BundleType
    <3> QED
      BY <3>1
  <2>4. BundleType'
    <3>1. bundle'.archives \subseteq [nonce : Nonce, whole : BOOLEAN]
      BY <2>2, <2>3
    <3> QED
      BY <1>4, <2>1, <2>2, <3>1 DEF BundleType
  <2>5. BundleInv'
    <3>1. ASSUME NEW n \in Nonce, reserved'[n] # 0
          PROVE  bundle'.hold \/ bundle'.attempt = n \/ \E d \in bundle'.archives : d.nonce = n
      <4>1. bundle.hold \/ bundle.attempt = n \/ \E d \in bundle.archives : d.nonce = n
        BY <1>1, <1>4, <3>1 DEF BundleInv
      <4> QED
        BY <2>2, <2>3, <4>1
    <3> QED
      BY <1>1, <1>2, <1>4, <2>2, <3>1 DEF BundleInv, AttemptOnce
  <2>6. job'[p].nonce = job[p].nonce
    BY <2>1, Parts, PointsAre, Gone
  <2>7. job'[p].at = "reserve" => JobInv(p)'
    BY <1>1, <1>2, <1>3, <1>8, <2>2, <2>6 DEF JobInv, Guarded, Quiet, Changed
  <2> QED
    BY <1>1, <1>3, <2>1, <2>4, <2>5, <2>7, Going, PointsAre
<1> QED
  BY <1>2, <1>5, <1>6, <1>7, <1>8

LEMMA ReserveStep ==
  ASSUME IInv, NEW p \in Invocation, Reserve(p)
  PROVE  IInv'
<1>1. /\ job[p].at = "reserve" /\ job[p].at \in Guarded /\ job[p].at \in Beyond
      /\ UNCHANGED <<host, guard, backup, service, changes>> /\ Goto(p, "load")
      /\ bundle' = [bundle EXCEPT !.attempt = job[p].nonce]
      /\ reserved' = [reserved EXCEPT ![job[p].nonce] = reserved[job[p].nonce] + 1]
  BY DEF Reserve, At, Guarded, Points, Beyond, runVars
<1>2. /\ guard = p /\ p # None /\ Calm /\ host.stops = {} /\ job[p].nonce \in Nonce
      /\ reserved[job[p].nonce] = 0 /\ changes = 0 /\ bundle.receipts = {}
      /\ bundle.attempt = None /\ bundle.terminal = "none"
  BY <1>1, Owner, HostAssumption DEF JobInv, Quiet
<1>3. HostType' /\ HostInv' /\ Calm' /\ host'.stops = {}
  BY <1>1, <1>2, Parts DEF HostType, HostInv, Calm, Serving, Runs
<1>4. BundleType /\ BundleInv /\ CountType
  BY Parts
<1>5. BundleType' /\ CountType'
  BY <1>1, <1>2, <1>4 DEF BundleType, CountType
<1>6. /\ bundle'.hold = bundle.hold /\ bundle'.attempt = job[p].nonce
      /\ bundle'.terminal = "none" /\ bundle'.receipts = {}
      /\ bundle'.archives = bundle.archives
  BY <1>1, <1>2, <1>4 DEF BundleType
<1>7. BundleInv'
  <2>1. ASSUME NEW n \in Nonce
        PROVE  /\ reserved'[n] # 0 => bundle'.hold \/ bundle'.attempt = n
                                        \/ \E d \in bundle'.archives : d.nonce = n
               /\ reserved'[n] <= 1
    <3>1. CASE n = job[p].nonce
      BY <1>1, <1>2, <1>4, <1>6, <3>1 DEF CountType
    <3>2. CASE n # job[p].nonce
      <4>1. reserved'[n] = reserved[n]
        BY <1>1, <1>4, <3>2 DEF CountType
      <4> QED
        BY <1>2, <1>4, <1>6, <4>1, HostAssumption DEF BundleInv, AttemptOnce
    <3> QED
      BY <3>1, <3>2
  <2> QED
    BY <1>1, <1>2, <1>6, <2>1 DEF BundleInv, AttemptOnce
<1>8. job'[p].at = "load" => JobInv(p)'
  BY <1>1, <1>2, <1>3, <1>6, HostAssumption DEF JobInv, Guarded, Quiet, Changed
<1> QED
  BY <1>1, <1>3, <1>5, <1>7, <1>8, Going, PointsAre

LEMMA LoadStep ==
  ASSUME IInv, NEW p \in Invocation, Load(p)
  PROVE  IInv'
<1>1. /\ job[p].at = "load" /\ job[p].at \in Guarded /\ job[p].at \in Beyond
      /\ UNCHANGED <<host, guard, backup, service, reserved>>
  BY DEF Load, At, Guarded, Points, Beyond, runVars
<1>2. /\ guard = p /\ p # None /\ Calm /\ host.stops = {} /\ changes = 0
      /\ bundle.receipts = {} /\ bundle.attempt # None /\ bundle.terminal = "none"
  BY <1>1, Owner, HostAssumption DEF JobInv, Quiet
<1>3. Calm' /\ host'.stops = {}
  BY <1>1, <1>2 DEF Calm, Serving
<1>4. CASE Goto(p, "abort") /\ UNCHANGED <<bundle, changes>>
  <2>1. HostType' /\ BundleType' /\ CountType' /\ HostInv' /\ BundleInv'
    BY <1>1, <1>2, <1>4, StillWorld
  <2>2. job'[p].at = "abort" => JobInv(p)'
    BY <1>1, <1>2, <1>3, <1>4 DEF JobInv, Guarded, Quiet, Changed
  <2> QED
    BY <1>1, <1>4, <2>1, <2>2, Going, PointsAre
<1>5. CASE /\ bundle' = [bundle EXCEPT !.artifacts = TRUE]
           /\ changes' = changes + 1
           /\ Goto(p, "policies")
  <2>1. BundleType /\ BundleInv /\ CountType
    BY Parts
  <2>2. HostType' /\ HostInv' /\ CountType'
    BY <1>1, <1>2, <1>5, Parts DEF HostType, HostInv, Calm, Serving, Runs, CountType
  <2>3. BundleType'
    BY <1>5, <2>1 DEF BundleType
  <2>4. /\ bundle'.hold = bundle.hold /\ bundle'.attempt = bundle.attempt
        /\ bundle'.terminal = bundle.terminal /\ bundle'.receipts = bundle.receipts
        /\ bundle'.archives = bundle.archives
    BY <1>5, <2>1 DEF BundleType
  <2>5. BundleInv'
    BY <1>1, <1>2, <1>5, <2>1, <2>4 DEF BundleInv, AttemptOnce
  <2>6. job'[p].place = 1 /\ 1 \in 1..Len(Service)
    BY <1>5, Parts, PointsAre, Gone, Containers
  <2>7. job'[p].at = "policies" => JobInv(p)'
    BY <1>2, <1>3, <1>5, <2>4, <2>6 DEF JobInv, Guarded, Quiet, Changed
  <2> QED
    BY <1>1, <1>5, <2>2, <2>3, <2>5, <2>7, Going, PointsAre
<1> QED
  BY <1>4, <1>5 DEF Load

LEMMA ReceiptStep ==
  ASSUME IInv, NEW p \in Invocation, Receipt(p)
  PROVE  IInv'
<1>1. /\ job[p].at = "receipt" /\ job[p].at \in Guarded /\ job[p].at \in Beyond
      /\ UNCHANGED <<host, guard, backup, service, reserved, changes>> /\ Goto(p, "terminal")
      /\ bundle' = [bundle EXCEPT !.receipts = bundle.receipts \cup {Outcome(p)}]
  BY DEF Receipt, At, Guarded, Points, Beyond, runVars
<1>2. /\ guard = p /\ p # None /\ host.stops = {} /\ changes # 0 /\ bundle.receipts = {}
      /\ Serving(host, job[p].aim)
  BY <1>1, Owner, HostAssumption DEF JobInv, Changed
<1>3. HostType' /\ CountType' /\ HostInv' /\ host'.stops = {}
  BY <1>1, <1>2, Parts DEF HostType, CountType, HostInv, Calm, Serving, Runs
<1>4. BundleType /\ BundleInv /\ job[p].aim \in Version
  BY Parts DEF JobType
<1>5. Outcome(p) \in {"installed", "restored"}
      /\ (Outcome(p) = "installed" <=> job[p].aim = "new")
  BY DEF Outcome
<1>6. BundleType'
  BY <1>1, <1>4, <1>5 DEF BundleType
<1>7. /\ bundle'.hold = bundle.hold /\ bundle'.attempt = bundle.attempt
      /\ bundle'.terminal = bundle.terminal /\ bundle'.receipts = {Outcome(p)}
      /\ bundle'.archives = bundle.archives
  BY <1>1, <1>2, <1>4 DEF BundleType
<1>8. BundleInv'
  <2>1. "installed" \in bundle'.receipts => Runs("new")'
    BY <1>1, <1>2, <1>5, <1>7 DEF Runs, Serving
  <2>2. "restored" \in bundle'.receipts => Runs("old")'
    BY <1>1, <1>2, <1>4, <1>5, <1>7 DEF Runs, Serving, Version
  <2>3. bundle'.terminal \notin {"installed", "restored"}
    BY <1>2, <1>4, <1>7 DEF BundleInv
  <2> QED
    BY <1>1, <1>4, <1>7, <2>1, <2>2, <2>3 DEF BundleInv, AttemptOnce
<1>9. job'[p].aim = job[p].aim
  BY <1>1, Parts, PointsAre, Gone
<1>10. job'[p].at = "terminal" => JobInv(p)'
  BY <1>1, <1>2, <1>3, <1>7, <1>9 DEF JobInv, Guarded, Quiet, Changed, Outcome, Serving
<1> QED
  BY <1>1, <1>3, <1>6, <1>8, <1>10, Going, PointsAre

LEMMA TerminalStep ==
  ASSUME IInv, NEW p \in Invocation, Terminal(p)
  PROVE  IInv'
<1>1. /\ job[p].at \in {"terminal", "abort"} /\ job[p].at \in Guarded /\ job[p].at \in Beyond
      /\ UNCHANGED <<host, guard, backup, service, reserved, changes>> /\ Goto(p, "unlock")
      /\ bundle' = [bundle EXCEPT !.terminal = IF job[p].at = "abort" THEN "aborted"
                                               ELSE Outcome(p)]
  BY DEF Terminal, At, Guarded, Points, Beyond, runVars
<1>2. /\ guard = p /\ p # None /\ host.stops = {} /\ Calm
      /\ job[p].at = "abort" => changes = 0 /\ bundle.receipts = {}
      /\ job[p].at = "terminal" => changes # 0 /\ Outcome(p) \in bundle.receipts
  <2>1. JobInv(p) /\ guard = p /\ p # None /\ host.stops = {} /\ job[p].aim \in Version
    BY <1>1, Owner, Parts, HostAssumption DEF JobType
  <2> QED
    BY <1>1, <2>1 DEF JobInv, Quiet, Changed, Calm
<1>3. HostType' /\ CountType' /\ HostInv' /\ host'.stops = {} /\ Calm'
  BY <1>1, <1>2, Parts DEF HostType, CountType, HostInv, Calm, Serving, Runs
<1>4. BundleType /\ BundleInv
  BY Parts
<1>5. Outcome(p) \in {"installed", "restored"}
  BY DEF Outcome
<1>6. BundleType'
  BY <1>1, <1>4, <1>5 DEF BundleType
<1>7. /\ bundle'.hold = bundle.hold /\ bundle'.attempt = bundle.attempt
      /\ bundle'.receipts = bundle.receipts /\ bundle'.archives = bundle.archives
      /\ bundle'.terminal = IF job[p].at = "abort" THEN "aborted" ELSE Outcome(p)
  BY <1>1, <1>4 DEF BundleType
<1>8. BundleInv'
  BY <1>1, <1>2, <1>4, <1>5, <1>7 DEF BundleInv, AttemptOnce, Runs
<1>9. job'[p].at = "unlock" => JobInv(p)'
  BY <1>3 DEF JobInv, Guarded, Quiet, Changed
<1> QED
  BY <1>1, <1>3, <1>6, <1>8, <1>9, Going, PointsAre

-----------------------------------------------------------------------------
(* The update tool changes the host *)

\* What is in hand when an application is being worked on.
LEMMA Writing ==
  ASSUME IInv, NEW p \in Invocation,
         job[p].at \in {"policies", "stop", "compose", "up", "restart"}
  PROVE  /\ job[p].at \in Guarded /\ job[p].at \in Beyond
         /\ guard = p /\ p # None /\ host.stops = {} /\ changes # 0 /\ bundle.receipts = {}
         /\ job[p].at \in {"policies", "stop", "restart"} => Current(p) \in App
<1>1. job[p].at \in Guarded /\ job[p].at \in Beyond
  BY DEF Guarded, Beyond, Points
<1>2. guard = p /\ p # None /\ host.stops = {} /\ JobInv(p)
  BY <1>1, Owner, HostAssumption
<1>3. changes # 0 /\ bundle.receipts = {}
  BY <1>2 DEF JobInv, Changed
<1>4. job[p].at \in {"policies", "stop", "restart"} => Current(p) \in App
  BY <1>2, Containers DEF JobInv, Current
<1> QED
  BY <1>1, <1>2, <1>3, <1>4

\* A host changed by its writer: any host without a stop under way.
LEMMA WriterGoes ==
  ASSUME IInv, NEW p \in Invocation,
         job[p].at \in {"policies", "stop", "compose", "up", "restart"},
         NEW point \in {"settle", "policies", "stop", "compose", "up", "restart", "verify"},
         Goto(p, point), HostType', host'.stops = {},
         UNCHANGED <<guard, bundle, backup, service, reserved, changes>>
  PROVE  IInv'
<1>1. /\ job[p].at \in Guarded /\ job[p].at \in Beyond /\ guard = p /\ p # None
      /\ changes # 0 /\ bundle.receipts = {}
  BY Writing
<1>2. HostType /\ HostType'
  BY Parts
<1>3. BundleType' /\ CountType' /\ HostInv' /\ BundleInv'
  BY <1>1, <1>2, StillRecords DEF HostType
<1>4. job'[p].place = 1 /\ 1 \in 1..Len(Service)
  BY Parts, PointsAre, Gone, Containers
<1>5. job'[p].at = point => JobInv(p)'
  BY <1>1, <1>4 DEF JobInv, Guarded, Quiet, Changed
<1> QED
  BY <1>1, <1>3, <1>5, Going, PointsAre

LEMMA EachStep ==
  ASSUME IInv, NEW p \in Invocation, NEW point \in {"policies", "stop", "restart"},
         NEW next \in {"stop", "compose", "verify"}, NEW after, Each(p, point, after, next),
         HostType', host'.stops = {}
  PROVE  IInv'
<1>1. job[p].at = point /\ UNCHANGED <<guard, bundle, backup, service, reserved, changes>>
  BY DEF Each, At, runVars
<1>2. CASE Goto(p, next)
  BY <1>1, <1>2, WriterGoes
<1>3. CASE job[p].place < Len(Service) /\ Advance(p)
  <2>1. /\ job[p].at \in Guarded /\ job[p].at \in Beyond /\ guard = p /\ p # None
        /\ changes # 0 /\ bundle.receipts = {}
    BY <1>1, Writing
  <2>2. HostType /\ HostType'
    BY Parts
  <2>3. BundleType' /\ CountType' /\ HostInv' /\ BundleInv'
    BY <1>1, <2>1, <2>2, StillRecords DEF HostType
  <2>4. job'[p].place = job[p].place + 1 /\ job[p].place \in 1..Len(Service)
    BY <1>1, <1>3, <2>1, Parts, Advanced, Owner DEF JobInv
  <2>5. job'[p].place \in 1..Len(Service)
    <3>1. Len(Service) \in Nat /\ job[p].place < Len(Service)
      BY <1>3, Containers
    <3> QED
      BY <2>4, <3>1
  <2>6. job'[p].at = job[p].at => JobInv(p)'
    BY <1>1, <2>1, <2>5 DEF JobInv, Guarded, Quiet, Changed
  <2> QED
    BY <1>1, <1>3, <2>1, <2>3, <2>6, Advancing
<1> QED
  BY <1>2, <1>3 DEF Each

\* One docker command on one container keeps the form of the host.
LEMMA Commands ==
  ASSUME HostType, NEW c \in Container
  PROVE  /\ host' = NoRestart(c) => HostType' /\ host'.stops = host.stops
                                      /\ host'.running = host.running
                                      /\ host'.policy = host.policy \ {c}
                                      /\ host'.image = host.image /\ host'.compose = host.compose
         /\ host' = OwnPolicy(c) => HostType' /\ host'.stops = host.stops
                                      /\ host'.running = host.running
                                      /\ host'.policy = host.policy \cup {c}
                                      /\ host'.image = host.image /\ host'.compose = host.compose
         /\ host' = Stop(c) => HostType' /\ host'.stops = host.stops \ {c}
                                 /\ host'.running = host.running \ {c}
                                 /\ host'.policy = host.policy
                                 /\ host'.image = host.image /\ host'.compose = host.compose
         /\ host' = Start(c) => HostType' /\ host'.stops = host.stops
                                  /\ host'.running = host.running \cup {c}
                                  /\ host'.policy = host.policy
                                  /\ host'.image = host.image /\ host'.compose = host.compose
<1>1. host' = NoRestart(c) => HostType' /\ host'.stops = host.stops
        /\ host'.running = host.running /\ host'.policy = host.policy \ {c}
        /\ host'.image = host.image /\ host'.compose = host.compose
  BY DEF HostType, NoRestart
<1>2. host' = OwnPolicy(c) => HostType' /\ host'.stops = host.stops
        /\ host'.running = host.running /\ host'.policy = host.policy \cup {c}
        /\ host'.image = host.image /\ host'.compose = host.compose
  BY DEF HostType, OwnPolicy
<1>3. host' = Stop(c) => HostType' /\ host'.stops = host.stops \ {c}
        /\ host'.running = host.running \ {c} /\ host'.policy = host.policy
        /\ host'.image = host.image /\ host'.compose = host.compose
  BY DEF HostType, Stop
<1>4. host' = Start(c) => HostType' /\ host'.stops = host.stops
        /\ host'.running = host.running \cup {c} /\ host'.policy = host.policy
        /\ host'.image = host.image /\ host'.compose = host.compose
  BY DEF HostType, Start
<1> QED
  BY <1>1, <1>2, <1>3, <1>4

LEMMA UpKeeps ==
  ASSUME HostType, NEW A \in SUBSET App, host' = UpTo(A)
  PROVE  HostType' /\ host'.stops = host.stops /\ host.running \subseteq host'.running
<1>1. App \subseteq Container
  BY Containers
<1>2. PICK I \in [App -> Version], F \in SUBSET Container :
        UpTo(A) = [host EXCEPT !.image = I, !.running = host.running \cup A,
                               !.policy = host.policy \cup F]
  <2> DEFINE fresh == {a \in A : host.image[a] # host.compose}
             I == [a \in App |-> IF a \in fresh THEN host.compose ELSE host.image[a]]
  <2>1. I \in [App -> Version] /\ fresh \in SUBSET Container
    BY <1>1 DEF HostType
  <2>2. UpTo(A) = [host EXCEPT !.image = I, !.running = host.running \cup A,
                               !.policy = host.policy \cup fresh]
    BY DEF UpTo
  <2> QED
    BY <2>1, <2>2
<1> QED
  BY <1>1, <1>2 DEF HostType

LEMMA WriterStep ==
  ASSUME IInv, NEW p \in Invocation,
         DisableRestart(p) \/ StopService(p) \/ ReplaceCompose(p) \/ ComposeUp(p)
           \/ SetPolicies(p)
  PROVE  IInv'
<1> HostType
  BY Parts
<1>1. CASE DisableRestart(p)
  <2>1. Each(p, "policies", NoRestart(Current(p)), "stop")
    BY <1>1 DEF DisableRestart
  <2>2. Current(p) \in Container /\ host.stops = {} /\ host' = NoRestart(Current(p))
    BY <2>1, Writing, Containers DEF Each, At
  <2> QED
    BY <2>1, <2>2, Commands, EachStep
<1>2. CASE StopService(p)
  <2>1. Each(p, "stop", Stop(Current(p)), "compose")
    BY <1>2 DEF StopService
  <2>2. Current(p) \in Container /\ host.stops = {} /\ host' = Stop(Current(p))
    BY <2>1, Writing, Containers DEF Each, At
  <2> QED
    BY <2>1, <2>2, Commands, EachStep
<1>3. CASE ReplaceCompose(p)
  <2>1. /\ job[p].at = "compose" /\ host' = [host EXCEPT !.compose = job[p].aim]
        /\ Goto(p, "up") /\ UNCHANGED <<guard, bundle, backup, service, reserved, changes>>
    BY <1>3 DEF ReplaceCompose, At, runVars
  <2>2. HostType' /\ host'.stops = {}
    BY <2>1, Writing, Parts DEF HostType, JobType
  <2> QED
    BY <2>1, <2>2, WriterGoes
<1>4. CASE ComposeUp(p)
  <2>1. /\ job[p].at = "up" /\ host' = UpTo(App)
        /\ Goto(p, "restart") /\ UNCHANGED <<guard, bundle, backup, service, reserved, changes>>
    BY <1>4 DEF ComposeUp, At, runVars
  <2>2. HostType' /\ host'.stops = {}
    BY <2>1, Writing, UpKeeps
  <2> QED
    BY <2>1, <2>2, WriterGoes
<1>5. CASE SetPolicies(p)
  <2>1. Each(p, "restart", OwnPolicy(Current(p)), "verify")
    BY <1>5 DEF SetPolicies
  <2>2. Current(p) \in Container /\ host.stops = {} /\ host' = OwnPolicy(Current(p))
    BY <2>1, Writing, Containers DEF Each, At
  <2> QED
    BY <2>1, <2>2, Commands, EachStep
<1> QED
  BY <1>1, <1>2, <1>3, <1>4, <1>5

LEMMA SettleStep ==
  ASSUME IInv, NEW p \in Invocation, Settle(p)
  PROVE  IInv'
<1>1. /\ job[p].at = "settle" /\ job[p].at \in Guarded /\ job[p].at \in Beyond
      /\ UNCHANGED <<host, guard, backup, service, reserved, changes>>
  BY DEF Settle, At, Guarded, Points, Beyond, runVars
<1>2. guard = p /\ p # None /\ host.stops = {} /\ changes # 0 /\ bundle.receipts = {}
  BY <1>1, Owner, HostAssumption DEF JobInv, Changed
<1>3. CASE /\ job' = [job EXCEPT ![p] = [at |-> "policies", nonce |-> job[p].nonce, aim |-> "old",
                                        place |-> 1, pending |-> {}]]
           /\ UNCHANGED bundle
  <2>1. HostType' /\ BundleType' /\ CountType' /\ HostInv' /\ BundleInv'
    BY <1>1, <1>2, <1>3, StillWorld
  <2>2. JobType /\ "policies" \in JobPoints /\ "old" \in Version
    BY Parts, PointsAre DEF Version
  <2>3. /\ JobType' /\ job'[p].at = "policies" /\ job'[p].place = 1
        /\ \A q \in Invocation \ {p} : job'[q] = job[q]
    <3>1. /\ job[p] \in [at : JobPoints, nonce : Nonce \cup {None}, aim : Version,
                         place : Nat, pending : SUBSET App]
          /\ {} \in SUBSET App /\ 1 \in Nat
      BY <2>2 DEF JobType
    <3> QED
      BY <1>3, <2>2, <3>1 DEF JobType
  <2>4. 1 \in 1..Len(Service)
    BY Containers
  <2>5. JobInv(p)'
    BY <1>1, <1>2, <1>3, <2>3, <2>4 DEF JobInv, Guarded, Quiet, Changed
  <2>6. TypeOK'
    BY <1>1, <2>1, <2>3, Parts, NextTypes DEF GuardType, RunType, ServiceType
  <2> QED
    BY <1>1, <1>2, <2>1, <2>3, <2>5, <2>6, JobStep
<1>4. CASE Goto(p, "held") /\ bundle' = Held(bundle)
  <2>1. BundleType /\ BundleInv
    BY Parts
  <2>2. HostType' /\ CountType' /\ HostInv'
    BY <1>1, <1>2, Parts DEF HostType, CountType, HostInv, Calm, Serving, Runs
  <2>3. BundleType' /\ BundleInv'
    BY <1>1, <1>4, <2>1 DEF BundleType, BundleInv, Held, AttemptOnce, Runs
  <2>4. job'[p].at = "held" => JobInv(p)'
    BY DEF JobInv, Guarded, Quiet, Changed, Points
  <2> QED
    BY <1>1, <1>4, <2>2, <2>3, <2>4, Going, PointsAre
<1> QED
  BY <1>3, <1>4 DEF Settle

-----------------------------------------------------------------------------
(* Failures and deaths of the update tool *)

\* The points at which a step that does not return may have changed the host.
Commanding == {"policies", "stop", "up", "restart", "start"}

LEMMA PartOfStepIs ==
  ASSUME HostType, NEW point \in Points \cup RunPoints, NEW c,
         point \in Commanding \ {"up"} => c \in Container,
         point \in Commanding => host.stops = {},
         host.stops \subseteq host.running,
         host' \in PartOfStep(point, c)
  PROVE  /\ HostType' /\ host'.stops \subseteq host'.running
         /\ point \notin Commanding => host' = host
         /\ point # "stop" => host'.stops = host.stops
         /\ host'.stops \subseteq host.stops \cup {c}
         /\ point # "up" => host'.image = host.image /\ host'.compose = host.compose
<1>1. CASE host' = host
  BY <1>1 DEF HostType
<1>2. ASSUME point \in Commanding \ {"up"}
      PROVE  c \in Container /\ host.stops = {}
  BY <1>2 DEF Commanding
<1>3. CASE point = "policies" /\ host' # host
  <2>1. host' = NoRestart(c) /\ c \in Container /\ host.stops = {}
    BY <1>2, <1>3 DEF PartOfStep, NoRestart, Commanding
  <2> QED
    BY <1>3, <2>1, Commands DEF Commanding
<1>4. CASE point = "restart" /\ host' # host
  <2>1. host' = OwnPolicy(c) /\ c \in Container /\ host.stops = {}
    BY <1>2, <1>4 DEF PartOfStep, OwnPolicy, Commanding
  <2> QED
    BY <1>4, <2>1, Commands DEF Commanding
<1>5. CASE point = "start" /\ host' # host
  <2>1. host' = Start(c) /\ c \in Container /\ host.stops = {}
    BY <1>2, <1>5 DEF PartOfStep, Start, Commanding
  <2> QED
    BY <1>5, <2>1, Commands DEF Commanding
<1>6. CASE point = "stop" /\ host' # host
  <2>1. c \in Container /\ host.stops = {}
    BY <1>2, <1>6 DEF Commanding
  <2>2. CASE host' = [host EXCEPT !.running = host.running \ {c}]
    BY <1>6, <2>1, <2>2 DEF HostType, Commanding
  <2>3. CASE c \in host.running /\ host' = [host EXCEPT !.stops = host.stops \cup {c}]
    BY <1>6, <2>1, <2>3 DEF HostType, Commanding
  <2> QED
    BY <1>6, <2>2, <2>3 DEF PartOfStep
<1>7. CASE point = "up" /\ host' # host
  <2>1. PICK A \in SUBSET App : host' = UpTo(A)
    BY <1>7 DEF PartOfStep
  <2>2. HostType' /\ host'.stops = host.stops /\ host.running \subseteq host'.running
    BY <2>1, UpKeeps
  <2> QED
    BY <1>7, <2>2 DEF Commanding
<1>8. CASE point \notin Commanding
  <2>1. host' = host
    BY <1>8 DEF PartOfStep, Commanding
  <2> QED
    BY <1>1, <2>1
<1> QED
  BY <1>1, <1>3, <1>4, <1>5, <1>6, <1>7, <1>8 DEF Commanding

LEMMA PartOfRecordIs ==
  ASSUME IInv, NEW p \in Invocation, NEW b \in PartOfRecord(p),
         job[p].at \in {"reserve"} => job[p].nonce \in Nonce,
         bundle' = b \/ bundle' = Held(b)
  PROVE  /\ BundleType' /\ bundle'.archives = bundle.archives
         /\ bundle'.hold \/ bundle'.hold = bundle.hold
         /\ bundle' = Held(b) => bundle'.hold
         /\ \/ bundle'.attempt = bundle.attempt
            \/ job[p].at = "reserve" /\ bundle'.attempt = job[p].nonce
         /\ bundle'.terminal \in {bundle.terminal, "torn"}
         /\ \/ bundle'.receipts = bundle.receipts
            \/ job[p].at = "receipt" /\ bundle'.receipts = bundle.receipts \cup {Outcome(p)}
<1>1. BundleType
  BY Parts
<1> DEFINE B == [staged : {"no", "partial", "yes"}, attempt : Nonce \cup {None},
                 terminal : {"none", "torn", "aborted", "installed", "restored"},
                 receipts : SUBSET {"installed", "restored"}, artifacts : BOOLEAN,
                 hold : BOOLEAN, archives : SUBSET [nonce : Nonce, whole : BOOLEAN]]
            Part == /\ b \in B /\ b.archives = bundle.archives /\ b.hold = bundle.hold
                    /\ b.attempt = bundle.attempt
                         \/ (job[p].at = "reserve" /\ b.attempt = job[p].nonce)
                    /\ b.terminal \in {bundle.terminal, "torn"}
                    /\ b.receipts = bundle.receipts
                         \/ (job[p].at = "receipt" /\ b.receipts = bundle.receipts \cup {Outcome(p)})
<1>2. Part
  <2>1. CASE b = bundle
    BY <1>1, <2>1 DEF BundleType
  <2>2. CASE job[p].at = "reserve" /\ b = [bundle EXCEPT !.attempt = job[p].nonce]
    BY <1>1, <2>2 DEF BundleType
  <2>3. CASE b = [bundle EXCEPT !.staged = "yes"]
    BY <1>1, <2>3 DEF BundleType
  <2>4. CASE b = [bundle EXCEPT !.artifacts = TRUE]
    BY <1>1, <2>4 DEF BundleType
  <2>5. CASE /\ job[p].at = "receipt"
             /\ b = [bundle EXCEPT !.receipts = bundle.receipts \cup {Outcome(p)}]
    <3>1. bundle.receipts \cup {Outcome(p)} \in SUBSET {"installed", "restored"}
      BY <1>1 DEF BundleType, Outcome
    <3> QED
      BY <1>1, <2>5, <3>1 DEF BundleType
  <2>6. CASE b = [bundle EXCEPT !.terminal = "torn"]
    BY <1>1, <2>6 DEF BundleType
  <2> QED
    BY <2>1, <2>2, <2>3, <2>4, <2>5, <2>6 DEF PartOfRecord, At
<1>3. CASE bundle' = b
  BY <1>2, <1>3 DEF BundleType, Held
<1>4. CASE bundle' = Held(b)
  BY <1>2, <1>4 DEF BundleType, Held
<1> QED
  BY <1>3, <1>4

\* A record that is half written keeps what the records promise.
LEMMA RecordKept ==
  ASSUME IInv, NEW p \in Invocation, job[p].at \in Guarded, NEW b \in PartOfRecord(p),
         bundle' = b \/ bundle' = Held(b), changes' = changes,
         \/ reserved' = reserved
         \/ /\ job[p].at = "reserve" /\ bundle' = Held(b)
            /\ reserved' = [reserved EXCEPT ![job[p].nonce] = @ + 1],
         host' = host \/ (changes # 0 /\ bundle.receipts = {} /\ job[p].at # "receipt")
  PROVE  BundleType' /\ CountType' /\ BundleInv'
<1>1. JobInv(p) /\ BundleInv /\ CountType /\ job[p].aim \in Version
  BY Owner, Parts DEF JobType
<1>2. /\ BundleType' /\ bundle'.archives = bundle.archives
      /\ bundle'.hold \/ bundle'.hold = bundle.hold
      /\ bundle' = Held(b) => bundle'.hold
      /\ \/ bundle'.attempt = bundle.attempt
         \/ job[p].at = "reserve" /\ bundle'.attempt = job[p].nonce
      /\ bundle'.terminal \in {bundle.terminal, "torn"}
      /\ \/ bundle'.receipts = bundle.receipts
         \/ job[p].at = "receipt" /\ bundle'.receipts = bundle.receipts \cup {Outcome(p)}
  BY <1>1, PartOfRecordIs DEF JobInv
<1>3. job[p].at = "reserve" => /\ job[p].nonce \in Nonce /\ bundle.attempt = None
                               /\ reserved[job[p].nonce] = 0 /\ changes = 0
  BY <1>1 DEF JobInv
<1>4. ASSUME NEW n \in Nonce
      PROVE  /\ reserved'[n] # 0 => bundle'.hold \/ bundle'.attempt = n
                                      \/ \E d \in bundle'.archives : d.nonce = n
             /\ reserved'[n] \in Nat /\ reserved'[n] <= 1
  <2>1. /\ reserved[n] # 0 => bundle.hold \/ bundle.attempt = n
                                \/ \E d \in bundle.archives : d.nonce = n
        /\ reserved[n] \in Nat /\ reserved[n] <= 1 /\ n # None
    BY <1>1, HostAssumption DEF BundleInv, AttemptOnce, CountType
  <2>2. CASE reserved' = reserved
    BY <1>2, <1>3, <2>1, <2>2
  <2>3. CASE /\ job[p].at = "reserve" /\ bundle' = Held(b)
             /\ reserved' = [reserved EXCEPT ![job[p].nonce] = @ + 1]
    BY <1>1, <1>2, <1>3, <2>1, <2>3 DEF CountType
  <2> QED
    BY <2>2, <2>3
<1>5. CountType'
  BY <1>1, <1>4 DEF CountType
<1>6. changes # 0 => bundle'.attempt # None /\ bundle'.terminal # "aborted"
  BY <1>1, <1>2, <1>3 DEF BundleInv
<1>7. /\ "installed" \in bundle'.receipts => Runs("new")'
      /\ "restored" \in bundle'.receipts => Runs("old")'
      /\ bundle'.terminal \in {"installed", "restored"} => bundle'.terminal \in bundle'.receipts
  <2>1. CASE bundle'.receipts = bundle.receipts
    BY <1>1, <1>2, <2>1 DEF BundleInv, Runs
  <2>2. CASE job[p].at = "receipt" /\ bundle'.receipts = bundle.receipts \cup {Outcome(p)}
    <3>1. Serving(host, job[p].aim) /\ bundle.receipts = {} /\ host' = host
      BY <1>1, <2>2 DEF JobInv, Changed
    <3> QED
      BY <1>1, <1>2, <2>2, <3>1 DEF BundleInv, Runs, Serving, Outcome, Version
  <2> QED
    BY <1>2, <2>1, <2>2
<1> QED
  BY <1>1, <1>2, <1>4, <1>5, <1>6, <1>7 DEF BundleInv, AttemptOnce

\* Where an exception leads.
LEMMA AfterFailureIs ==
  ASSUME NEW p, NEW uncertain \in BOOLEAN, NEW next, next = AfterFailure(p, uncertain),
         job[p].at \in Points
  PROVE  /\ next \in {"dead", "unlock", "abort", "settle", "held"}
         /\ next = "dead" => job[p].at \in {"own", "unlock"}
         /\ job[p].at = "own" => next = "dead"
         /\ job[p].at = "reserve" => next = "held"
         /\ next = "unlock" => job[p].at \in {"busy", "stage", "copy", "fresh"}
         /\ next = "abort" => job[p].at = "load" /\ ~uncertain
         /\ next = "settle" => /\ ~uncertain
                               /\ job[p].at \in {"policies", "stop", "compose", "restart", "verify"}
BY DEF AfterFailure, At

\* What a writer's step that does not return leaves of the host.
LEMMA HostAfterFailure ==
  ASSUME IInv, NEW p \in Invocation, job[p].at \in Guarded,
         \/ host' \in PartOfStep(job[p].at, Service[job[p].place])
         \/ job[p].at = "compose" /\ host' = [host EXCEPT !.compose = job[p].aim]
         \/ /\ job[p].at = "stop"
            /\ host' = [host EXCEPT !.running = @ \ {Service[job[p].place]}]
  PROVE  /\ HostType' /\ host'.stops \subseteq host'.running
         /\ host' = host \/ job[p].at \in {"policies", "stop", "compose", "up", "restart"}
         /\ host' = host \/ host'.stops = {} \/ job[p].at = "stop"
<1>1. HostType /\ JobType /\ host.stops = {} /\ host.stops \subseteq host.running
  BY Parts, Owner DEF HostType
<1>2. job[p].at \in {"policies", "stop", "restart"} => Service[job[p].place] \in Container
  BY Writing, Containers DEF Current
<1>3. job[p].at \in Points /\ job[p].at # "start"
  BY DEF Guarded, Points
<1>4. CASE host' \in PartOfStep(job[p].at, Service[job[p].place])
  BY <1>1, <1>2, <1>3, <1>4, PartOfStepIs DEF Commanding
<1>5. CASE job[p].at = "compose" /\ host' = [host EXCEPT !.compose = job[p].aim]
  BY <1>1, <1>5 DEF HostType, JobType
<1>6. CASE job[p].at = "stop" /\ host' = [host EXCEPT !.running = @ \ {Service[job[p].place]}]
  BY <1>1, <1>6 DEF HostType
<1> QED
  BY <1>4, <1>5, <1>6

\* A process that dies, or goes on after a failure, within the guard.
LEMMA FallsTo ==
  ASSUME IInv, NEW p \in Invocation, job[p].at \in Guarded,
         NEW next \in {"dead", "unlock", "abort", "settle", "held"},
         JobType', job'[p].at = next,
         \A q \in Invocation \ {p} : job'[q] = job[q],
         UNCHANGED <<guard, backup, service, changes>>,
         HostType', host'.stops \subseteq host'.running,
         host' = host \/ job[p].at \in {"policies", "stop", "compose", "up", "restart"},
         NEW b \in PartOfRecord(p), bundle' = b \/ bundle' = Held(b),
         \/ reserved' = reserved
         \/ /\ job[p].at = "reserve" /\ bundle' = Held(b)
            /\ reserved' = [reserved EXCEPT ![job[p].nonce] = @ + 1],
         next = "unlock" => job[p].at \in {"busy", "stage", "copy", "fresh"},
         next = "abort" => job[p].at = "load",
         next = "settle" =>
           /\ job[p].at \in {"policies", "stop", "compose", "restart", "verify"}
           /\ host' = host \/ host'.stops = {}
  PROVE  IInv'
<1>1. guard = p /\ p # None /\ host.stops = {} /\ JobInv(p)
  BY Owner, HostAssumption
<1>2. host' = host \/ (changes # 0 /\ bundle.receipts = {} /\ job[p].at # "receipt")
  BY Writing
<1>3. BundleType' /\ CountType' /\ BundleInv'
  BY <1>2, RecordKept
<1>4. HostInv'
  BY <1>1, <1>2, Parts DEF HostInv, Runs
<1>5. /\ BundleType
      /\ job[p].at # "receipt" => bundle'.receipts = bundle.receipts
  BY Parts, PartOfRecordIs, <1>1 DEF JobInv
<1>6. JobInv(p)'
  <2>1. CASE next \in {"dead", "held"}
    BY <2>1 DEF JobInv, Guarded, Quiet, Changed, Points
  <2>2. CASE next = "unlock"
    <3>1. Calm' /\ host'.stops = {}
      BY <1>1, <2>2 DEF JobInv, Quiet, Calm, Serving
    <3> QED
      BY <2>2, <3>1 DEF JobInv, Guarded, Quiet, Changed
  <2>3. CASE next = "abort"
    <3>1. Calm' /\ host'.stops = {} /\ changes' = 0 /\ bundle'.receipts = {}
      BY <1>1, <1>5, <2>3 DEF JobInv, Quiet, Calm, Serving
    <3> QED
      BY <2>3, <3>1 DEF JobInv, Guarded, Quiet, Changed
  <2>4. CASE next = "settle"
    <3>1. host'.stops = {} /\ changes' # 0 /\ bundle'.receipts = {}
      BY <1>1, <1>5, <2>4 DEF JobInv, Changed
    <3> QED
      BY <2>4, <3>1 DEF JobInv, Guarded, Quiet, Changed
  <2> QED
    BY <2>1, <2>2, <2>3, <2>4
<1>7. TypeOK'
  BY <1>3, Parts, NextTypes DEF GuardType, RunType, ServiceType
<1>8. next \in Beyond => job[p].at \in Beyond
  BY DEF Beyond, Points
<1> QED
  BY <1>1, <1>3, <1>4, <1>6, <1>7, <1>8, JobStep

LEMMA FailStep ==
  ASSUME IInv, NEW p \in Invocation, NEW uncertain \in BOOLEAN, Fail(p, uncertain)
  PROVE  IInv'
<1> DEFINE c == Service[job[p].place]
           next == AfterFailure(p, uncertain)
           stopped == IF job[p].at = "stop" THEN {c} ELSE {}
<1>1. /\ job[p].at \in Points /\ UNCHANGED <<backup, service, changes>>
      /\ job[p].at = "own" => guard = None
      /\ guard' = IF job[p].at = "own" THEN p ELSE guard
      /\ job' = [job EXCEPT ![p].at = next, ![p].place = 1, ![p].pending = stopped]
      /\ reserved' = IF job[p].at = "reserve" THEN [reserved EXCEPT ![job[p].nonce] = @ + 1]
                     ELSE reserved
      /\ \E b \in PartOfRecord(p) : bundle' = IF next = "held" THEN Held(b) ELSE b
  BY DEF Fail, At, runVars
<1>2. /\ next \in {"dead", "unlock", "abort", "settle", "held"}
      /\ next = "dead" => job[p].at \in {"own", "unlock"}
      /\ job[p].at = "own" => next = "dead"
      /\ job[p].at = "reserve" => next = "held"
      /\ next = "unlock" => job[p].at \in {"busy", "stage", "copy", "fresh"}
      /\ next = "abort" => job[p].at = "load" /\ ~uncertain
      /\ next = "settle" => /\ ~uncertain
                            /\ job[p].at \in {"policies", "stop", "compose", "restart", "verify"}
  BY <1>1, AfterFailureIs
<1>3. stopped \in SUBSET App
  BY Writing DEF Current
<1>4. PICK x \in {"dead", "unlock", "abort", "settle", "held"} : x = next
  BY <1>2
<1>5. PICK y \in SUBSET App : y = stopped
  BY <1>3
<1>6. job' = [job EXCEPT ![p].at = x, ![p].place = 1, ![p].pending = y]
  BY <1>1, <1>4, <1>5
<1>7. /\ JobType' /\ job'[p].at = x
      /\ \A q \in Invocation \ {p} : job'[q] = job[q]
  <2>1. JobType /\ x \in JobPoints
    BY Parts, PointsAre
  <2> QED
    BY <1>6, <2>1 DEF JobType
<1>8. CASE job[p].at = "own"
  <2>1. host' = host /\ bundle' = bundle /\ reserved' = reserved
    <3>1. ~uncertain
      BY <1>8 DEF Fail, Docker
    <3> QED
      BY <1>1, <1>2, <1>8, <3>1 DEF Fail, At, PartOfRecord
  <2>2. guard = None /\ guard' = p /\ job'[p].at = "dead"
    BY <1>1, <1>2, <1>4, <1>7, <1>8
  <2>3. JobInv(p)'
    BY <2>2 DEF JobInv, Guarded, Quiet, Changed, Points
  <2> QED
    BY <1>1, <1>7, <1>8, <2>1, <2>2, <2>3, OffJob DEF runVars
<1>9. CASE job[p].at # "own"
  <2>1. job[p].at \in Guarded /\ guard' = guard
    BY <1>1, <1>9 DEF Guarded
  <2>2. PICK b \in PartOfRecord(p) : bundle' = IF next = "held" THEN Held(b) ELSE b
    BY <1>1
  <2>3. \/ uncertain /\ host' \in PartOfStep(job[p].at, c)
        \/ ~uncertain /\ job[p].at = "compose" /\ host' = [host EXCEPT !.compose = job[p].aim]
        \/ /\ ~uncertain /\ job[p].at = "stop"
           /\ host' = [host EXCEPT !.running = @ \ {c}]
        \/ ~uncertain /\ host' = host
    BY DEF Fail, At
  <2>4. /\ HostType' /\ host'.stops \subseteq host'.running
        /\ host' = host \/ job[p].at \in {"policies", "stop", "compose", "up", "restart"}
        /\ ~uncertain => host'.stops = {}
    <3>1. CASE host' = host
      BY <2>1, <3>1, Parts, Owner DEF HostType, HostInv
    <3>2. CASE ~uncertain /\ job[p].at = "compose" /\ host' = [host EXCEPT !.compose = job[p].aim]
      BY <2>1, <3>2, HostAfterFailure, Owner
    <3>3. CASE /\ ~uncertain /\ job[p].at = "stop"
               /\ host' = [host EXCEPT !.running = @ \ {c}]
      <4>1. host'.stops = {}
        BY <2>1, <3>3, Owner, Parts DEF HostType
      <4> QED
        BY <2>1, <3>3, <4>1, HostAfterFailure
    <3>4. CASE uncertain /\ host' \in PartOfStep(job[p].at, c)
      BY <2>1, <3>4, HostAfterFailure
    <3> QED
      BY <2>3, <3>1, <3>2, <3>3, <3>4
  <2>5. \/ reserved' = reserved
        \/ /\ job[p].at = "reserve" /\ bundle' = Held(b)
           /\ reserved' = [reserved EXCEPT ![job[p].nonce] = @ + 1]
    BY <1>1, <1>2, <2>2
  <2> HIDE DEF c, next, stopped
  <2> QED
    BY <1>1, <1>2, <1>4, <1>7, <2>1, <2>2, <2>4, <2>5, FallsTo
<1> QED
  BY <1>8, <1>9

LEMMA DieStep ==
  ASSUME IInv, NEW p \in Invocation, Die(p)
  PROVE  IInv'
<1>1. /\ job[p].at \in Points /\ UNCHANGED <<guard, backup, service, reserved, changes>>
      /\ Goto(p, "dead") /\ bundle' \in PartOfRecord(p)
      /\ \/ host' \in PartOfStep(job[p].at, Service[job[p].place])
         \/ job[p].at = "compose" /\ host' = [host EXCEPT !.compose = job[p].aim]
         \/ job[p].at = "compose" /\ host' = host
  BY DEF Die, At, runVars
<1>2. /\ JobType' /\ job'[p].at = "dead"
      /\ \A q \in Invocation \ {p} : job'[q] = job[q]
  BY <1>1, Parts, PointsAre, Gone
<1>3. CASE job[p].at = "own"
  <2>1. host' = host /\ bundle' = bundle
    BY <1>1, <1>3 DEF PartOfStep, PartOfRecord, At
  <2>2. JobInv(p)'
    BY <1>2 DEF JobInv, Guarded, Quiet, Changed, Points
  <2> QED
    BY <1>1, <1>2, <1>3, <2>1, <2>2, OffJob DEF runVars
<1>4. CASE job[p].at # "own"
  <2>1. job[p].at \in Guarded
    BY <1>1, <1>4 DEF Guarded
  <2>2. /\ HostType' /\ host'.stops \subseteq host'.running
        /\ host' = host \/ job[p].at \in {"policies", "stop", "compose", "up", "restart"}
    <3>1. CASE host' = host
      BY <3>1, Parts DEF HostType, HostInv
    <3> QED
      BY <1>1, <2>1, <3>1, HostAfterFailure
  <2> QED
    BY <1>1, <1>2, <2>1, <2>2, FallsTo
<1> QED
  BY <1>3, <1>4

-----------------------------------------------------------------------------
(* The backup, step by step *)

LEMMA RunPointsAre ==
  /\ \A point \in RunPoints : point \in AllRunPoints
  /\ \A point \in Working : point \in RunPoints /\ point # "gate" /\ point # "idle"
  /\ \A point \in {"failed", "held", "dead", "proven", "completed"} :
       point \in AllRunPoints /\ point \notin RunPoints
  /\ \A point \in {"gate", "mkdir", "prepare", "policies", "stop", "copy", "record", "settle",
        "start", "restart", "resumed", "release", "transfer", "restore"} :
       point \in AllRunPoints /\ point \in RunPoints
BY DEF RunPoints, AllRunPoints, Working

\* What the owner of the guard shows of a step after which it still owns it.
LEMMA RunGoing ==
  ASSUME IInv, NEW r \in Run, backup[r].at \in Working,
         RunType', ServiceType', HostType', host'.stops \subseteq host'.running,
         host'.image = host.image, host'.compose = host.compose,
         \A q \in Run \ {r} : backup'[q] = backup[q],
         guard' = guard, UNCHANGED jobVars, RunInv(r)',
         \/ service' = service
         \/ service'.active = None /\ backup'[r].at \notin RunPoints
  PROVE  IInv'
<1>1. guard = r /\ r # None /\ backup[r].at \in RunPoints \ {"gate", "idle"}
  BY RunOwner, RunPointsAre, HostAssumption
<1>2. BundleType' /\ CountType' /\ JobType' /\ GuardType'
  BY Parts DEF BundleType, CountType, JobType, GuardType, jobVars
<1>3. HostInv' /\ BundleInv'
  BY <1>1, Parts DEF HostInv, BundleInv, AttemptOnce, Runs, jobVars
<1>4. TypeOK'
  BY <1>2, NextTypes
<1> QED
  BY <1>1, <1>3, <1>4, RunStep

LEMMA EndRunIs ==
  ASSUME RunType, NEW r \in Run, NEW point \in AllRunPoints, EndRun(r, point)
  PROVE  /\ RunType' /\ ServiceType' /\ service'.active = None
         /\ backup'[r].at = point /\ backup'[r].captured = backup[r].captured
         /\ \A q \in Run \ {r} : backup'[q] = backup[q]
<1>1. Go(r, point) /\ service' = [active |-> None, success |-> point = "proven"]
  BY DEF EndRun
<1>2. ServiceType' /\ service'.active = None
  BY <1>1 DEF ServiceType
<1> QED
  BY <1>1, <1>2, RunGone

\* Outside of the guard and its makings a run promises nothing but its captured mark.
LEMMA Outside ==
  ASSUME NEW r \in Run, backup'[r].at \in {"gate", "mkdir", "transfer", "restore"},
         backup'[r].at \in {"gate", "mkdir"} => ~backup'[r].captured,
         backup'[r].captured /\ guard' = r => host'.stops = {}
  PROVE  RunInv(r)'
BY DEF RunInv, Working, Uncaptured

LEMMA Ended ==
  ASSUME NEW r \in Run, backup'[r].at \in {"failed", "held", "dead", "proven", "completed"},
         backup'[r].captured /\ guard' = r => host'.stops = {}
  PROVE  RunInv(r)'
BY DEF RunInv, Working, Uncaptured

LEMMA StartRunStep ==
  ASSUME IInv, NEW r \in Run, StartRun(r)
  PROVE  IInv'
<1>1. PICK v \in Version : backup' = [backup EXCEPT ![r].at = "gate", ![r].binds = v]
  BY DEF StartRun
<1>2. RunType /\ "gate" \in AllRunPoints /\ ServiceType
  BY Parts, RunPointsAre
<1>3. /\ RunType' /\ backup'[r].at = "gate" /\ backup'[r].captured = backup[r].captured
      /\ \A q \in Run \ {r} : backup'[q] = backup[q]
  BY <1>1, <1>2 DEF RunType
<1>4. ServiceType' /\ service'.active = r /\ service.active = None /\ backup[r].at = "idle"
      /\ UNCHANGED <<host, guard, jobVars>>
  BY <1>2 DEF StartRun, ServiceType, Is
<1>5. ~backup'[r].captured
  <2>1. RunInv(r) /\ GuardKept
    BY Parts DEF IInv
  <2>2. ~backup[r].captured
    BY <1>4, <2>1 DEF RunInv, Uncaptured
  <2> QED
    BY <1>3, <2>2
<1> QED
  BY <1>3, <1>4, <1>5, Outside, OffRun, RunPointsAre

\* A run that is not under the guard ends.
LEMMA OffEnds ==
  ASSUME IInv, NEW r \in Run, backup[r].at \in {"gate", "mkdir", "transfer", "restore"},
         NEW point \in {"failed", "proven", "dead"}, EndRun(r, point),
         UNCHANGED <<host, guard, jobVars>>
  PROVE  IInv'
<1>1. RunType /\ ServiceType /\ RunInv(r) /\ service.active = r
  BY Parts, RunPointsAre DEF IInv, ServiceInv
<1>2. /\ RunType' /\ ServiceType' /\ service'.active = None
      /\ backup'[r].at = point /\ backup'[r].captured = backup[r].captured
      /\ \A q \in Run \ {r} : backup'[q] = backup[q]
  BY <1>1, EndRunIs, RunPointsAre
<1>3. RunInv(r)'
  BY <1>1, <1>2, Ended DEF RunInv
<1> QED
  BY <1>1, <1>2, <1>3, OffRun, RunPointsAre

\* Or it goes on without it.
LEMMA OffGoes ==
  ASSUME IInv, NEW r \in Run, NEW point \in {"mkdir", "restore"}, Go(r, point),
         \/ backup[r].at = "gate" /\ point = "mkdir" /\ guard = None
         \/ backup[r].at = "transfer" /\ point = "restore",
         UNCHANGED <<host, guard, jobVars, service>>
  PROVE  IInv'
<1>1. RunType /\ ServiceType /\ RunInv(r) /\ service.active = r
  BY Parts, RunPointsAre DEF IInv, ServiceInv
<1>2. /\ RunType' /\ backup'[r].at = point /\ backup'[r].captured = backup[r].captured
      /\ \A q \in Run \ {r} : backup'[q] = backup[q]
  BY <1>1, RunGone, RunPointsAre
<1>3. RunInv(r)'
  BY <1>1, <1>2, Outside DEF RunInv, Uncaptured
<1>4. ServiceType'
  BY <1>1 DEF ServiceType
<1> QED
  BY <1>1, <1>2, <1>3, <1>4, OffRun, RunPointsAre

LEMMA AdmitStep ==
  ASSUME IInv, NEW r \in Run, Admit(r)
  PROVE  IInv'
<1>1. backup[r].at = "gate" /\ UNCHANGED <<host, guard, jobVars>>
  BY DEF Admit, Is
<1>2. CASE Gate(r) /\ Go(r, "mkdir") /\ UNCHANGED service
  BY <1>1, <1>2, OffGoes DEF Gate
<1>3. CASE EndRun(r, "failed")
  BY <1>1, <1>3, OffEnds
<1> QED
  BY <1>2, <1>3 DEF Admit

LEMMA MakeGuardStep ==
  ASSUME IInv, NEW r \in Run, MakeGuard(r)
  PROVE  IInv'
<1>1. backup[r].at = "mkdir" /\ UNCHANGED <<host, jobVars>>
  BY DEF MakeGuard, Is
<1>2. CASE guard' = guard /\ EndRun(r, "failed")
  BY <1>1, <1>2, OffEnds
<1>3. CASE /\ guard = None /\ Serving(host, backup[r].binds) /\ guard' = r
           /\ Go(r, "prepare") /\ UNCHANGED service
  <2>1. RunType /\ ServiceType /\ RunInv(r) /\ service.active = r /\ HostInv
    BY <1>1, Parts, RunPointsAre DEF IInv, ServiceInv
  <2>2. /\ RunType' /\ backup'[r].at = "prepare" /\ backup'[r].captured = backup[r].captured
        /\ backup'[r].binds = backup[r].binds
        /\ \A q \in Run \ {r} : backup'[q] = backup[q]
    BY <1>3, <2>1, RunGone, RunPointsAre
  <2>3. /\ Calm' /\ host'.stops = {} /\ host'.compose = backup[r].binds
        /\ host'.image = [a \in App |-> backup[r].binds]
    BY <1>1, <1>3, <2>1 DEF HostInv, Calm, Serving, Runs
  <2>4. RunInv(r)'
    BY <1>1, <2>1, <2>2, <2>3 DEF RunInv, Working, Uncaptured, Runs
  <2>5. ServiceType'
    BY <1>3, <2>1 DEF ServiceType
  <2> QED
    BY <1>1, <1>3, <2>1, <2>2, <2>4, <2>5, OffRun
<1> QED
  BY <1>2, <1>3 DEF MakeGuard

LEMMA TransferStep ==
  ASSUME IInv, NEW r \in Run, Transfer(r) \/ Restore(r)
  PROVE  IInv'
<1>1. backup[r].at \in {"transfer", "restore"} /\ UNCHANGED <<host, guard, jobVars>>
  BY DEF Transfer, Restore, Is
<1>2. CASE backup[r].at = "transfer" /\ Go(r, "restore") /\ UNCHANGED service
  BY <1>1, <1>2, OffGoes
<1>3. CASE \E point \in {"failed", "proven"} : EndRun(r, point)
  BY <1>1, <1>3, OffEnds
<1> QED
  BY <1>2, <1>3 DEF Transfer, Restore, Is

-----------------------------------------------------------------------------
(* The backup under the guard *)

LEMMA PrepareStep ==
  ASSUME IInv, NEW r \in Run, Prepare(r)
  PROVE  IInv'
<1>1. backup[r].at = "prepare" /\ UNCHANGED <<host, guard, service, jobVars>>
  BY DEF Prepare, Is
<1>2. backup[r].at \in Working /\ guard = r /\ RunInv(r) /\ HostType /\ ServiceType /\ RunType
      /\ host.stops \subseteq host.running
  BY <1>1, RunOwner, Parts DEF Working, HostInv
<1>3. HostType' /\ ServiceType'
  BY <1>1, <1>2 DEF HostType, ServiceType
<1>4. /\ Calm' /\ host'.stops = {} /\ ~backup[r].captured /\ host'.compose = backup[r].binds
      /\ host'.image = [a \in App |-> backup[r].binds]
  BY <1>1, <1>2 DEF RunInv, Working, Uncaptured, Calm, Serving, Runs
<1>5. CASE Go(r, "policies")
  <2>1. /\ RunType' /\ backup'[r].at = "policies" /\ backup'[r].captured = backup[r].captured
        /\ backup'[r].binds = backup[r].binds /\ backup'[r].place = 1
        /\ \A q \in Run \ {r} : backup'[q] = backup[q]
    BY <1>2, <1>5, RunGone, RunPointsAre
  <2>2. 1 \in 1..Len(StopOrder) /\ 1..(1 - 1) = {}
    BY Containers
  <2>3. RunInv(r)'
    BY <1>4, <2>1, <2>2 DEF RunInv, Working, Uncaptured, Runs
  <2> QED
    BY <1>1, <1>2, <1>3, <2>1, <2>3, RunGoing
<1>6. CASE backup' = [backup EXCEPT ![r].at = "release", ![r].ok = FALSE]
  <2>1. /\ RunType' /\ backup'[r].at = "release" /\ backup'[r].captured = backup[r].captured
        /\ backup'[r].binds = backup[r].binds
        /\ \A q \in Run \ {r} : backup'[q] = backup[q]
    <3>1. "release" \in AllRunPoints
      BY RunPointsAre
    <3> QED
      BY <1>2, <1>6, <3>1 DEF RunType
  <2>2. RunInv(r)'
    BY <1>4, <2>1 DEF RunInv, Working, Uncaptured, Runs
  <2> QED
    BY <1>1, <1>2, <1>3, <2>1, <2>2, RunGoing
<1> QED
  BY <1>5, <1>6 DEF Prepare

\* What is in hand while containers are stopped and started.
LEMMA Handling ==
  ASSUME IInv, NEW r \in Run, backup[r].at \in Working \ {"settle"}
  PROVE  /\ backup[r].at \in Working /\ guard = r /\ RunInv(r) /\ host.stops = {}
         /\ host.compose = backup[r].binds
         /\ host.image = [a \in App |-> backup[r].binds]
         /\ HostType /\ RunType /\ ServiceType
         /\ backup[r].at \in {"policies", "stop", "start", "restart"} =>
              /\ backup[r].place \in 1..Len(StopOrder)
              /\ StopOrder[backup[r].place] \in Container
              /\ StartOrder[backup[r].place] \in Container
<1>1. /\ backup[r].at \in Working /\ guard = r /\ RunInv(r)
      /\ HostType /\ RunType /\ ServiceType
  BY RunOwner, Parts
<1>2. /\ host.stops = {} /\ host.compose = backup[r].binds
      /\ host.image = [a \in App |-> backup[r].binds]
  BY <1>1 DEF RunInv, Runs
<1>3. ASSUME backup[r].at \in {"policies", "stop", "start", "restart"}
      PROVE  /\ backup[r].place \in 1..Len(StopOrder)
             /\ StopOrder[backup[r].place] \in Container
             /\ StartOrder[backup[r].place] \in Container
  <2>1. backup[r].place \in 1..Len(StopOrder)
    BY <1>1, <1>3 DEF RunInv
  <2> QED
    BY <2>1, Containers
<1> QED
  BY <1>1, <1>2, <1>3

\* A container has been worked on: the next one, or the next point.
LEMMA EachOfIs ==
  ASSUME IInv, NEW r \in Run, NEW point \in {"policies", "stop", "start", "restart"},
         NEW order, Len(order) = Len(StopOrder), NEW after,
         NEW next \in {"stop", "copy", "restart", "resumed"},
         EachOf(r, point, order, after, next)
  PROVE  /\ backup[r].at = point /\ host' = after /\ RunType' /\ ServiceType'
         /\ guard' = guard /\ UNCHANGED <<service, jobVars>>
         /\ \A q \in Run \ {r} : backup'[q] = backup[q]
         /\ backup'[r].binds = backup[r].binds /\ backup'[r].captured = backup[r].captured
         /\ \/ /\ backup'[r].at = point /\ backup[r].place < Len(StopOrder)
               /\ backup'[r].place = backup[r].place + 1
               /\ backup'[r].place \in 1..Len(StopOrder)
            \/ /\ backup'[r].at = next /\ backup[r].place = Len(StopOrder)
               /\ backup'[r].place = 1
<1>1. /\ backup[r].at = point /\ host' = after
      /\ UNCHANGED <<guard, service, jobVars>>
      /\ IF backup[r].place < Len(order) THEN Further(r) ELSE Go(r, next)
  BY DEF EachOf, Is
<1>2. /\ RunType /\ ServiceType /\ Len(StopOrder) \in Nat
      /\ backup[r].place \in 1..Len(StopOrder)
  BY <1>1, Handling, Containers DEF Working
<1>3. ServiceType'
  BY <1>1, <1>2 DEF ServiceType
<1>4. CASE Further(r) /\ backup[r].place < Len(StopOrder)
  BY <1>1, <1>2, <1>3, <1>4, RunAdvanced
<1>5. CASE Go(r, next) /\ ~(backup[r].place < Len(StopOrder))
  BY <1>1, <1>2, <1>3, <1>5, RunGone, RunPointsAre
<1> QED
  BY <1>1, <1>4, <1>5

LEMMA DisableRestartsStep ==
  ASSUME IInv, NEW r \in Run, DisableRestarts(r)
  PROVE  IInv'
<1> DEFINE c == StopOrder[backup[r].place]
<1>1. EachOf(r, "policies", StopOrder, NoRestart(c), "stop")
  BY DEF DisableRestarts, CurrentOf
<1>2. /\ backup[r].at = "policies" /\ host' = NoRestart(c) /\ RunType' /\ ServiceType'
      /\ guard' = guard /\ UNCHANGED <<service, jobVars>>
      /\ \A q \in Run \ {r} : backup'[q] = backup[q]
      /\ backup'[r].binds = backup[r].binds /\ backup'[r].captured = backup[r].captured
      /\ \/ /\ backup'[r].at = "policies" /\ backup[r].place < Len(StopOrder)
            /\ backup'[r].place = backup[r].place + 1
            /\ backup'[r].place \in 1..Len(StopOrder)
         \/ /\ backup'[r].at = "stop" /\ backup[r].place = Len(StopOrder)
            /\ backup'[r].place = 1
  BY <1>1, EachOfIs
<1>3. /\ backup[r].at \in Working /\ RunInv(r) /\ host.stops = {}
      /\ host.compose = backup[r].binds /\ host.image = [a \in App |-> backup[r].binds]
      /\ backup[r].place \in 1..Len(StopOrder) /\ c \in Container /\ HostType
  BY <1>2, Handling DEF Working
<1>4. /\ HostType' /\ host'.stops = {} /\ host'.running = host.running
      /\ host'.policy = host.policy \ {c}
      /\ host'.image = host.image /\ host'.compose = host.compose
  BY <1>2, <1>3, Commands
<1>5. /\ \A i \in 1..(backup[r].place - 1) : StopOrder[i] \notin host.policy
      /\ ~backup[r].captured
  BY <1>2, <1>3 DEF RunInv, Uncaptured
<1>6. ASSUME NEW i \in 1..backup[r].place
      PROVE  StopOrder[i] \notin host'.policy
  <2>1. CASE i = backup[r].place
    BY <1>4, <2>1
  <2>2. CASE i # backup[r].place
    <3>1. i \in 1..(backup[r].place - 1)
      <4>1. Len(StopOrder) \in Nat
        BY Containers
      <4>2. backup[r].place \in Nat
        BY <1>3, <4>1
      <4> QED
        BY <2>2, <4>2
    <3> QED
      BY <1>4, <1>5, <3>1
  <2> QED
    BY <2>1, <2>2
<1>7. CASE backup'[r].at = "policies" /\ backup'[r].place = backup[r].place + 1
           /\ backup'[r].place \in 1..Len(StopOrder)
  <2>1. \A i \in 1..(backup'[r].place - 1) : StopOrder[i] \notin host'.policy
    <3>1. Len(StopOrder) \in Nat
      BY Containers
    <3>2. backup'[r].place - 1 = backup[r].place
      BY <1>3, <1>7, <3>1
    <3> QED
      BY <1>6, <3>2
  <2>2. RunInv(r)'
    BY <1>2, <1>3, <1>4, <1>5, <1>7, <2>1 DEF RunInv, Working, Uncaptured, Runs
  <2> QED
    BY <1>2, <1>3, <1>4, <2>2, RunGoing
<1>8. CASE backup'[r].at = "stop" /\ backup[r].place = Len(StopOrder) /\ backup'[r].place = 1
  <2>1. host'.policy = {}
    <3>1. ASSUME NEW d \in host'.policy
          PROVE  FALSE
      <4>1. d \in Container
        BY <1>4 DEF HostType
      <4>2. PICK i \in 1..Len(StopOrder) : StopOrder[i] = d
        BY <4>1, Containers
      <4> QED
        BY <1>6, <1>8, <4>2
    <3> QED
      BY <3>1
  <2>2. 1 \in 1..Len(StopOrder) /\ 1..(1 - 1) = {}
    BY Containers
  <2>3. RunInv(r)'
    BY <1>2, <1>3, <1>4, <1>5, <1>8, <2>1, <2>2 DEF RunInv, Working, Uncaptured, Runs
  <2> QED
    BY <1>2, <1>3, <1>4, <2>3, RunGoing
<1> QED
  BY <1>2, <1>7, <1>8

LEMMA StopAllStep ==
  ASSUME IInv, NEW r \in Run, StopAll(r)
  PROVE  IInv'
<1> DEFINE c == StopOrder[backup[r].place]
<1>1. EachOf(r, "stop", StopOrder, Stop(c), "copy")
  BY DEF StopAll, CurrentOf
<1>2. /\ backup[r].at = "stop" /\ host' = Stop(c) /\ RunType' /\ ServiceType'
      /\ guard' = guard /\ UNCHANGED <<service, jobVars>>
      /\ \A q \in Run \ {r} : backup'[q] = backup[q]
      /\ backup'[r].binds = backup[r].binds /\ backup'[r].captured = backup[r].captured
      /\ \/ /\ backup'[r].at = "stop" /\ backup[r].place < Len(StopOrder)
            /\ backup'[r].place = backup[r].place + 1
            /\ backup'[r].place \in 1..Len(StopOrder)
         \/ /\ backup'[r].at = "copy" /\ backup[r].place = Len(StopOrder)
            /\ backup'[r].place = 1
  BY <1>1, EachOfIs
<1>3. /\ backup[r].at \in Working /\ RunInv(r) /\ host.stops = {}
      /\ host.compose = backup[r].binds /\ host.image = [a \in App |-> backup[r].binds]
      /\ backup[r].place \in 1..Len(StopOrder) /\ c \in Container /\ HostType
  BY <1>2, Handling DEF Working
<1>4. /\ HostType' /\ host'.stops = {} /\ host'.running = host.running \ {c}
      /\ host'.policy = host.policy
      /\ host'.image = host.image /\ host'.compose = host.compose
  BY <1>2, <1>3, Commands
<1>5. /\ \A i \in 1..(backup[r].place - 1) : StopOrder[i] \notin host.running
      /\ ~backup[r].captured /\ host.policy = {}
  BY <1>2, <1>3 DEF RunInv, Uncaptured
<1>6. ASSUME NEW i \in 1..backup[r].place
      PROVE  StopOrder[i] \notin host'.running
  <2>1. CASE i = backup[r].place
    BY <1>4, <2>1
  <2>2. CASE i # backup[r].place
    <3>1. i \in 1..(backup[r].place - 1)
      <4>1. Len(StopOrder) \in Nat
        BY Containers
      <4>2. backup[r].place \in Nat
        BY <1>3, <4>1
      <4> QED
        BY <2>2, <4>2
    <3> QED
      BY <1>4, <1>5, <3>1
  <2> QED
    BY <2>1, <2>2
<1>7. CASE backup'[r].at = "stop" /\ backup'[r].place = backup[r].place + 1
           /\ backup'[r].place \in 1..Len(StopOrder)
  <2>1. \A i \in 1..(backup'[r].place - 1) : StopOrder[i] \notin host'.running
    <3>1. Len(StopOrder) \in Nat
      BY Containers
    <3>2. backup'[r].place - 1 = backup[r].place
      BY <1>3, <1>7, <3>1
    <3> QED
      BY <1>6, <3>2
  <2>2. RunInv(r)'
    BY <1>2, <1>3, <1>4, <1>5, <1>7, <2>1 DEF RunInv, Working, Uncaptured, Runs
  <2> QED
    BY <1>2, <1>3, <1>4, <2>2, RunGoing
<1>8. CASE backup'[r].at = "copy" /\ backup[r].place = Len(StopOrder) /\ backup'[r].place = 1
  <2>1. host'.running = {}
    <3>1. ASSUME NEW d \in host'.running
          PROVE  FALSE
      <4>1. d \in Container
        BY <1>4 DEF HostType
      <4>2. PICK i \in 1..Len(StopOrder) : StopOrder[i] = d
        BY <4>1, Containers
      <4> QED
        BY <1>6, <1>8, <4>2
    <3> QED
      BY <3>1
  <2>2. RunInv(r)'
    BY <1>2, <1>3, <1>4, <1>5, <1>8, <2>1 DEF RunInv, Working, Uncaptured, Runs
  <2> QED
    BY <1>2, <1>3, <1>4, <2>2, RunGoing
<1> QED
  BY <1>2, <1>7, <1>8

LEMMA CopyStep ==
  ASSUME IInv, NEW r \in Run, Copy(r) \/ Record(r)
  PROVE  IInv'
<1>1. /\ backup[r].at \in {"copy", "record"}
      /\ UNCHANGED <<host, guard, service, jobVars>>
  BY DEF Copy, Record, Is
<1>2. /\ backup[r].at \in Working /\ guard = r /\ RunInv(r) /\ host.stops = {}
      /\ host.compose = backup[r].binds /\ host.image = [a \in App |-> backup[r].binds]
      /\ HostType /\ RunType /\ ServiceType
  BY <1>1, Handling DEF Working
<1>3. /\ HostType' /\ ServiceType' /\ host'.stops \subseteq host'.running
      /\ host'.policy = {} /\ host'.running = {} /\ ~backup[r].captured
  BY <1>1, <1>2 DEF HostType, ServiceType, RunInv, Uncaptured
<1>4. CASE Go(r, "record")
  <2>1. /\ RunType' /\ backup'[r].at = "record" /\ backup'[r].captured = backup[r].captured
        /\ backup'[r].binds = backup[r].binds
        /\ \A q \in Run \ {r} : backup'[q] = backup[q]
    BY <1>2, <1>4, RunGone, RunPointsAre
  <2>2. RunInv(r)'
    BY <1>1, <1>2, <1>3, <2>1 DEF RunInv, Working, Uncaptured, Runs
  <2> QED
    BY <1>1, <1>2, <1>3, <2>1, <2>2, RunGoing
<1>5. CASE \/ backup' = [backup EXCEPT ![r].at = "settle", ![r].ok = FALSE]
           \/ backup' = [backup EXCEPT ![r].at = "settle", ![r].captured = TRUE]
  <2>1. /\ RunType' /\ backup'[r].at = "settle" /\ backup'[r].binds = backup[r].binds
        /\ \A q \in Run \ {r} : backup'[q] = backup[q]
    <3>1. "settle" \in AllRunPoints
      BY RunPointsAre
    <3> QED
      BY <1>2, <1>5, <3>1 DEF RunType
  <2>2. RunInv(r)'
    BY <1>1, <1>2, <1>3, <2>1 DEF RunInv, Working, Uncaptured, Runs
  <2> QED
    BY <1>1, <1>2, <1>3, <2>1, <2>2, RunGoing
<1> QED
  BY <1>1, <1>4, <1>5 DEF Copy, Record

\* A run under the guard that ends without having touched a stop still keeps the guard.
LEMMA Stands ==
  ASSUME IInv, NEW r \in Run, backup[r].at \in Working,
         NEW point \in {"held", "dead"}, EndRun(r, point), guard' = guard, UNCHANGED jobVars,
         HostType', host'.stops \subseteq host'.running,
         host'.image = host.image, host'.compose = host.compose,
         backup[r].captured => host'.stops = {}
  PROVE  IInv'
<1>1. RunType
  BY Parts
<1>2. /\ RunType' /\ ServiceType' /\ service'.active = None
      /\ backup'[r].at = point /\ backup'[r].captured = backup[r].captured
      /\ \A q \in Run \ {r} : backup'[q] = backup[q]
  BY <1>1, EndRunIs, RunPointsAre
<1>3. RunInv(r)'
  BY <1>2, Ended
<1> QED
  BY <1>2, <1>3, RunGoing, RunPointsAre

LEMMA SettleRunStep ==
  ASSUME IInv, NEW r \in Run, SettleRun(r)
  PROVE  IInv'
<1>1. backup[r].at = "settle" /\ UNCHANGED <<host, guard, jobVars>>
  BY DEF SettleRun, Is
<1>2. /\ backup[r].at \in Working /\ guard = r /\ RunInv(r)
      /\ HostType /\ RunType /\ ServiceType /\ host.stops \subseteq host.running
  BY <1>1, RunOwner, Parts DEF Working, HostInv
<1>3. HostType' /\ host'.stops \subseteq host'.running
  BY <1>1, <1>2 DEF HostType
<1>4. CASE EndRun(r, "held")
  <2>1. backup[r].captured => host'.stops = {}
    BY <1>1, <1>2 DEF RunInv
  <2> QED
    BY <1>1, <1>2, <1>3, <1>4, <2>1, Stands
<1>5. CASE /\ backup[r].pending \cap host.running = {}
           /\ Go(r, "start") /\ UNCHANGED service
  <2>1. host.stops = {} /\ host.compose = backup[r].binds
        /\ host.image = [a \in App |-> backup[r].binds]
    BY <1>1, <1>2, <1>5 DEF RunInv, Runs, Working
  <2>2. /\ RunType' /\ backup'[r].at = "start" /\ backup'[r].place = 1
        /\ backup'[r].binds = backup[r].binds
        /\ \A q \in Run \ {r} : backup'[q] = backup[q]
    BY <1>2, <1>5, RunGone, RunPointsAre
  <2>3. 1 \in 1..Len(StopOrder) /\ ServiceType'
    BY <1>2, <1>5, Containers DEF ServiceType
  <2>4. RunInv(r)'
    BY <1>1, <2>1, <2>2, <2>3 DEF RunInv, Working, Uncaptured, Runs
  <2> QED
    BY <1>1, <1>2, <1>3, <1>5, <2>2, <2>3, <2>4, RunGoing
<1> QED
  BY <1>4, <1>5 DEF SettleRun

LEMMA ResumeStep ==
  ASSUME IInv, NEW r \in Run, Resume(r) \/ OwnPolicies(r)
  PROVE  IInv'
<1> DEFINE c == StartOrder[backup[r].place]
<1>1. PICK point \in {"start", "restart"}, next \in {"restart", "resumed"},
           after \in {Start(c), OwnPolicy(c)} : EachOf(r, point, StartOrder, after, next)
  BY DEF Resume, OwnPolicies, CurrentOf
<1>2. Len(StartOrder) = Len(StopOrder)
  BY Containers
<1>3. /\ backup[r].at = point /\ host' = after /\ RunType' /\ ServiceType'
      /\ guard' = guard /\ UNCHANGED <<service, jobVars>>
      /\ \A q \in Run \ {r} : backup'[q] = backup[q]
      /\ backup'[r].binds = backup[r].binds
      /\ \/ backup'[r].at = point /\ backup'[r].place \in 1..Len(StopOrder)
         \/ backup'[r].at = next /\ backup'[r].place = 1
  BY <1>1, <1>2, EachOfIs
<1>4. /\ backup[r].at \in Working /\ host.stops = {} /\ host.compose = backup[r].binds
      /\ host.image = [a \in App |-> backup[r].binds] /\ c \in Container /\ HostType
  BY <1>3, Handling DEF Working
<1>5. /\ HostType' /\ host'.stops = {} /\ host'.image = host.image
      /\ host'.compose = host.compose
  <2>1. host' = Start(c) \/ host' = OwnPolicy(c)
    BY <1>1, <1>3
  <2> QED
    BY <1>4, <2>1, Commands
<1>6. 1 \in 1..Len(StopOrder)
  BY Containers
<1>7. RunInv(r)'
  BY <1>3, <1>4, <1>5, <1>6 DEF RunInv, Working, Uncaptured, Runs
<1> QED
  BY <1>3, <1>4, <1>5, <1>7, RunGoing

LEMMA ResumedStep ==
  ASSUME IInv, NEW r \in Run, Resumed(r)
  PROVE  IInv'
<1>1. backup[r].at = "resumed" /\ UNCHANGED <<host, guard, jobVars>>
  BY DEF Resumed, Is
<1>2. /\ backup[r].at \in Working /\ guard = r /\ host.stops = {}
      /\ host.compose = backup[r].binds /\ host.image = [a \in App |-> backup[r].binds]
      /\ HostType /\ RunType /\ ServiceType
  BY <1>1, Handling DEF Working
<1>3. HostType' /\ host'.stops \subseteq host'.running
  BY <1>1, <1>2 DEF HostType
<1>4. CASE EndRun(r, "held")
  BY <1>1, <1>2, <1>3, <1>4, Stands
<1>5. CASE /\ host.running = Container /\ host.policy = Container
           /\ Go(r, "release") /\ UNCHANGED service
  <2>1. /\ RunType' /\ backup'[r].at = "release" /\ backup'[r].binds = backup[r].binds
        /\ \A q \in Run \ {r} : backup'[q] = backup[q]
    BY <1>2, <1>5, RunGone, RunPointsAre
  <2>2. backup[r].binds \in Version /\ ServiceType'
    BY <1>2, <1>5 DEF RunType, ServiceType
  <2>3. Calm'
    BY <1>1, <1>2, <1>5, <2>2 DEF Calm, Serving
  <2>4. RunInv(r)'
    BY <1>1, <1>2, <2>1, <2>3 DEF RunInv, Working, Uncaptured, Runs
  <2> QED
    BY <1>1, <1>2, <1>3, <1>5, <2>1, <2>2, <2>4, RunGoing
<1> QED
  BY <1>4, <1>5 DEF Resumed

LEMMA ReleaseStep ==
  ASSUME IInv, NEW r \in Run, Release(r)
  PROVE  IInv'
<1>1. /\ backup[r].at = "release" /\ guard = r /\ guard' = None
      /\ UNCHANGED <<host, jobVars>>
  BY DEF Release, Is
<1>2. /\ backup[r].at \in Working /\ RunInv(r) /\ host.stops = {} /\ r # None
      /\ HostType /\ RunType /\ ServiceType
  BY <1>1, Handling, HostAssumption DEF Working
<1>3. Calm' /\ host'.stops = {}
  BY <1>1, <1>2 DEF RunInv, Calm, Serving
<1>4. /\ HostType' /\ GuardType' /\ BundleType' /\ JobType' /\ CountType'
      /\ HostInv' /\ BundleInv'
  <2>1. HostType' /\ GuardType' /\ BundleType' /\ JobType' /\ CountType'
    BY <1>1, Parts DEF HostType, GuardType, BundleType, JobType, CountType, jobVars
  <2>2. HostInv' /\ BundleInv'
    BY <1>1, <1>3, Parts DEF HostInv, BundleInv, AttemptOnce, Runs, jobVars
  <2> QED
    BY <2>1, <2>2
<1>5. CASE Go(r, "transfer") /\ UNCHANGED service
  <2>1. /\ RunType' /\ backup'[r].at = "transfer" /\ backup'[r].captured = backup[r].captured
        /\ \A q \in Run \ {r} : backup'[q] = backup[q]
    BY <1>2, <1>5, RunGone, RunPointsAre
  <2>2. RunInv(r)'
    BY <1>3, <2>1, Outside
  <2>3. TypeOK'
    BY <1>2, <1>4, <1>5, <2>1, NextTypes DEF ServiceType
  <2> QED
    BY <1>1, <1>2, <1>4, <1>5, <2>1, <2>2, <2>3, RunStep, RunPointsAre DEF Working
<1>6. CASE EndRun(r, "failed")
  <2>1. /\ RunType' /\ ServiceType' /\ service'.active = None /\ backup'[r].at = "failed"
        /\ \A q \in Run \ {r} : backup'[q] = backup[q]
    BY <1>2, <1>6, EndRunIs, RunPointsAre
  <2>2. RunInv(r)'
    BY <1>3, <2>1, Ended
  <2>3. TypeOK'
    BY <1>4, <2>1, NextTypes
  <2> QED
    BY <1>1, <1>2, <1>4, <2>1, <2>2, <2>3, RunStep, RunPointsAre DEF Working
<1> QED
  BY <1>5, <1>6 DEF Release

-----------------------------------------------------------------------------
(* Failures and deaths of a backup *)

LEMMA RunHostAfterFailure ==
  ASSUME IInv, NEW r \in Run, backup[r].at \in RunPoints,
         host' \in PartOfStep(backup[r].at,
                     IF backup[r].at \in Recovering THEN StartOrder[backup[r].place]
                     ELSE StopOrder[backup[r].place])
  PROVE  /\ HostType' /\ host'.stops \subseteq host'.running
         /\ host'.image = host.image /\ host'.compose = host.compose
         /\ backup[r].at \notin Commanding => host' = host
         /\ backup[r].at # "stop" => host'.stops = host.stops
         /\ backup[r].at = "stop" => host'.stops \subseteq {StopOrder[backup[r].place]}
<1> DEFINE c == IF backup[r].at \in Recovering THEN StartOrder[backup[r].place]
                ELSE StopOrder[backup[r].place]
<1>1. HostType /\ host.stops \subseteq host.running
  BY Parts DEF HostInv
<1>2. backup[r].at # "up" /\ backup[r].at \in Points \cup RunPoints
  BY DEF RunPoints
<1>3. backup[r].at \in Commanding => c \in Container /\ host.stops = {}
  BY <1>2, Handling DEF Commanding, Working
<1>4. backup[r].at = "stop" => c = StopOrder[backup[r].place]
  BY DEF Recovering
<1>5. /\ HostType' /\ host'.stops \subseteq host'.running
      /\ backup[r].at \notin Commanding => host' = host
      /\ backup[r].at # "stop" => host'.stops = host.stops
      /\ host'.stops \subseteq host.stops \cup {c}
      /\ backup[r].at # "up" => host'.image = host.image /\ host'.compose = host.compose
  <2> HIDE DEF c
  <2>1. host' \in PartOfStep(backup[r].at, c)
    BY DEF c
  <2> QED
    BY <1>1, <1>2, <1>3, <2>1, PartOfStepIs
<1>6. backup[r].at = "stop" => host.stops = {}
  BY <1>3 DEF Commanding
<1> QED
  BY <1>2, <1>4, <1>5, <1>6

LEMMA DieRunStep ==
  ASSUME IInv, NEW r \in Run, DieRun(r)
  PROVE  IInv'
<1>1. /\ backup[r].at \in RunPoints /\ EndRun(r, "dead") /\ UNCHANGED <<guard, jobVars>>
      /\ host' \in PartOfStep(backup[r].at,
                     IF backup[r].at \in Recovering THEN StartOrder[backup[r].place]
                     ELSE StopOrder[backup[r].place])
  BY DEF DieRun
<1>2. /\ HostType' /\ host'.stops \subseteq host'.running
      /\ host'.image = host.image /\ host'.compose = host.compose
      /\ backup[r].at \notin Commanding => host' = host
      /\ backup[r].at # "stop" => host'.stops = host.stops
  BY <1>1, RunHostAfterFailure
<1>3. CASE backup[r].at \in {"gate", "mkdir", "transfer", "restore"}
  BY <1>1, <1>2, <1>3, OffEnds DEF Commanding
<1>4. CASE backup[r].at \in Working
  <2>1. RunInv(r) /\ guard = r
    BY <1>4, RunOwner
  <2>2. backup[r].captured => host'.stops = {}
    BY <1>2, <2>1 DEF RunInv, Uncaptured
  <2> QED
    BY <1>1, <1>2, <1>4, <2>2, Stands
<1> QED
  BY <1>1, <1>3, <1>4 DEF RunPoints, Working

LEMMA FailRunStep ==
  ASSUME IInv, NEW r \in Run, FailRun(r)
  PROVE  IInv'
<1> DEFINE c == StopOrder[backup[r].place]
           stopped == IF backup[r].at = "stop" THEN {c} ELSE {}
<1>1. /\ backup[r].at \in RunPoints /\ UNCHANGED <<guard, jobVars>>
      /\ host' \in PartOfStep(backup[r].at,
                     IF backup[r].at \in Recovering THEN StartOrder[backup[r].place]
                     ELSE StopOrder[backup[r].place])
  BY DEF FailRun
<1>2. /\ HostType' /\ host'.stops \subseteq host'.running
      /\ host'.image = host.image /\ host'.compose = host.compose
      /\ backup[r].at \notin Commanding => host' = host
      /\ backup[r].at # "stop" => host'.stops = host.stops
      /\ backup[r].at = "stop" => host'.stops \subseteq {c}
  BY <1>1, RunHostAfterFailure
<1>3. RunType /\ ServiceType
  BY Parts
<1>4. CASE /\ backup[r].at = "prepare" /\ UNCHANGED service
           /\ backup' = [backup EXCEPT ![r].at = "release", ![r].ok = FALSE]
  <2>1. /\ backup[r].at \in Working /\ RunInv(r) /\ host' = host
        /\ host.compose = backup[r].binds /\ host.image = [a \in App |-> backup[r].binds]
    BY <1>2, <1>4, Handling DEF Working, Commanding
  <2>2. /\ RunType' /\ backup'[r].at = "release" /\ backup'[r].captured = backup[r].captured
        /\ backup'[r].binds = backup[r].binds
        /\ \A q \in Run \ {r} : backup'[q] = backup[q]
    <3>1. "release" \in AllRunPoints
      BY RunPointsAre
    <3> QED
      BY <1>3, <1>4, <3>1 DEF RunType
  <2>3. Calm' /\ host'.stops = {} /\ ServiceType'
    BY <1>3, <1>4, <2>1 DEF RunInv, Calm, Serving, ServiceType
  <2>4. RunInv(r)'
    BY <1>2, <2>1, <2>2, <2>3 DEF RunInv, Working, Uncaptured, Runs
  <2> QED
    BY <1>1, <1>2, <1>4, <2>1, <2>2, <2>3, <2>4, RunGoing
<1>5. CASE /\ backup[r].at \in Changing /\ UNCHANGED service
           /\ backup' = [backup EXCEPT ![r].at = "settle", ![r].place = 1, ![r].ok = FALSE,
                                       ![r].pending = stopped]
  <2>1. /\ backup[r].at \in Working /\ RunInv(r) /\ host.stops = {}
        /\ host.compose = backup[r].binds /\ host.image = [a \in App |-> backup[r].binds]
        /\ backup[r].at = "stop" => c \in Container
        /\ ~backup[r].captured
    <3>1. backup[r].at \in Working \ {"settle"}
      BY <1>5 DEF Working, Changing
    <3>2. RunInv(r)
      BY <3>1, Handling
    <3> QED
      BY <1>5, <3>1, <3>2, Handling DEF RunInv, Uncaptured, Changing
  <2>2. PICK y \in SUBSET Container : y = stopped
    BY <2>1
  <2>3. /\ RunType' /\ backup'[r].at = "settle" /\ backup'[r].captured = backup[r].captured
        /\ backup'[r].binds = backup[r].binds /\ backup'[r].pending = y
        /\ \A q \in Run \ {r} : backup'[q] = backup[q]
    <3> DEFINE b == [backup EXCEPT ![r].at = "settle", ![r].place = 1]
    <3>1. backup' = [b EXCEPT ![r].ok = FALSE, ![r].pending = y]
      BY <1>5, <2>2
    <3>2. /\ b \in [Run -> [at : AllRunPoints, binds : Version, place : Nat,
                            pending : SUBSET Container, ok : BOOLEAN, captured : BOOLEAN]]
          /\ b[r].at = "settle" /\ b[r].captured = backup[r].captured
          /\ b[r].binds = backup[r].binds /\ \A q \in Run \ {r} : b[q] = backup[q]
      <4>1. "settle" \in AllRunPoints
        BY RunPointsAre
      <4> QED
        BY <1>3, <4>1 DEF RunType
    <3> HIDE DEF b
    <3> QED
      BY <3>1, <3>2 DEF RunType
  <2>4. host'.stops \subseteq backup'[r].pending
    BY <1>2, <2>1, <2>2, <2>3
  <2>5. RunInv(r)'
    BY <1>2, <2>1, <2>3, <2>4 DEF RunInv, Working, Uncaptured, Runs
  <2>6. ServiceType'
    BY <1>3, <1>5 DEF ServiceType
  <2> QED
    BY <1>1, <1>2, <1>5, <2>1, <2>3, <2>5, <2>6, RunGoing
<1>6. CASE backup[r].at \in Recovering \cup {"prepare"} /\ EndRun(r, "held")
  <2>1. backup[r].at \in Working /\ backup[r].at # "stop"
    BY <1>6 DEF Working, Recovering
  <2>2. RunInv(r) /\ guard = r
    BY <2>1, RunOwner
  <2>3. backup[r].captured => host'.stops = {}
    BY <1>2, <2>1, <2>2 DEF RunInv
  <2> QED
    BY <1>1, <1>2, <1>6, <2>1, <2>3, Stands
<1>7. CASE backup[r].at \in {"gate", "mkdir", "transfer", "restore"} /\ EndRun(r, "failed")
  BY <1>1, <1>2, <1>7, OffEnds DEF Commanding
<1> QED
  BY <1>4, <1>5, <1>6, <1>7 DEF FailRun, Is

-----------------------------------------------------------------------------
(* The operator and the daemon *)

LEMMA ByHandStep ==
  ASSUME IInv, NEW r \in Run, ByHand(r)
  PROVE  IInv'
<1>1. /\ backup[r].at \in {"held", "dead"} /\ guard = r /\ guard' = guard
      /\ UNCHANGED <<backup, service>> /\ UNCHANGED jobVars
      /\ host' = [host EXCEPT !.running = Container, !.policy = Container]
  BY DEF ByHand, Stuck, runVars
<1>2. RunInv(r) /\ HostType /\ r # None
  BY Parts, HostAssumption DEF IInv
<1>3. /\ HostType' /\ host'.stops = host.stops /\ host'.stops \subseteq host'.running
      /\ host'.image = host.image /\ host'.compose = host.compose
  BY <1>1, <1>2 DEF HostType
<1>4. RunInv(r)'
  BY <1>1, <1>2, <1>3, Ended DEF RunInv
<1>5. TypeOK'
  BY <1>1, <1>3, Parts, NextTypes
     DEF GuardType, BundleType, JobType, RunType, ServiceType, CountType, jobVars
<1>6. HostInv' /\ BundleInv'
  BY <1>1, <1>2, <1>3, Parts DEF HostInv, BundleInv, AttemptOnce, Runs, jobVars
<1> QED
  BY <1>1, <1>4, <1>5, <1>6, RunStep, RunPointsAre

LEMMA CompleteResumeStep ==
  ASSUME IInv, NEW r \in Run, CompleteResume(r)
  PROVE  IInv'
<1>1. /\ backup[r].at \in {"held", "dead"} /\ guard = r /\ guard' = None
      /\ backup[r].captured /\ Serving(host, backup[r].binds)
      /\ UNCHANGED <<host, service>> /\ UNCHANGED jobVars /\ Go(r, "completed")
  BY DEF CompleteResume, Stuck
<1>2. RunInv(r) /\ RunType /\ r # None
  BY Parts, HostAssumption DEF IInv
<1>3. host.stops = {} /\ backup[r].binds \in Version
  BY <1>1, <1>2 DEF RunInv, RunType
<1>4. Calm' /\ host'.stops = {}
  BY <1>1, <1>3 DEF Calm, Serving
<1>5. /\ RunType' /\ backup'[r].at = "completed"
      /\ \A q \in Run \ {r} : backup'[q] = backup[q]
  BY <1>1, <1>2, RunGone, RunPointsAre
<1>6. RunInv(r)'
  BY <1>4, <1>5, Ended
<1>7. TypeOK'
  BY <1>1, <1>5, Parts, NextTypes
     DEF HostType, GuardType, BundleType, JobType, ServiceType, CountType, jobVars
<1>8. HostInv' /\ BundleInv'
  BY <1>1, <1>4, Parts DEF HostInv, BundleInv, AttemptOnce, Runs, jobVars
<1> QED
  BY <1>1, <1>5, <1>6, <1>7, <1>8, RunStep, RunPointsAre DEF Working

LEMMA ReconcileStep ==
  ASSUME IInv, Reconcile
  PROVE  IInv'
<1>1. /\ guard' = None /\ UNCHANGED <<bundle, service, commands, reserved, changes>>
      /\ host' = [host EXCEPT !.image = [a \in App |-> host.compose], !.running = Container,
                              !.policy = Container, !.stops = {}]
  BY DEF Reconcile
<1>2. HostType /\ host.compose \in Version
  BY Parts DEF HostType
<1>3. /\ HostType' /\ host'.image = [a \in App |-> host.compose] /\ host'.running = Container
      /\ host'.policy = Container /\ host'.stops = {} /\ host'.compose = host.compose
  BY <1>1, <1>2 DEF HostType
<1>4. Calm'
  BY <1>2, <1>3 DEF Calm, Serving
<1>5. HostInv' /\ BundleInv' /\ BundleType' /\ CountType' /\ ServiceType' /\ GuardType'
  <2>1. BundleType' /\ CountType' /\ ServiceType' /\ GuardType'
    BY <1>1, Parts DEF BundleType, CountType, ServiceType, GuardType
  <2>2. HostInv'
    BY <1>1, <1>3, <1>4, Parts DEF HostInv, Runs
  <2>3. BundleInv'
    BY <1>1, <1>3, Parts DEF BundleInv, AttemptOnce, Runs
  <2> QED
    BY <2>1, <2>2, <2>3
<1>6. CASE \E p \in Invocation :
             Stuck(job[p].at) /\ guard = p /\ Goto(p, "idle") /\ UNCHANGED backup
  <2>1. PICK p \in Invocation : guard = p /\ Goto(p, "idle") /\ UNCHANGED backup
    BY <1>6
  <2>2. /\ JobType' /\ job'[p].at = "idle"
        /\ \A q \in Invocation \ {p} : job'[q] = job[q]
    BY <2>1, Parts, PointsAre, Gone
  <2>3. JobInv(p)'
    BY <2>2 DEF JobInv, Guarded, Quiet, Changed, Points
  <2>4. TypeOK'
    BY <1>3, <1>5, <2>1, <2>2, Parts, NextTypes DEF RunType
  <2>5. "idle" \notin Beyond /\ "idle" \notin Guarded \cup {"held"}
    BY DEF Beyond, Guarded, Points
  <2> QED
    BY <1>1, <1>5, <2>1, <2>2, <2>3, <2>4, <2>5, JobStep
<1>7. CASE \E r \in Run :
             /\ Stuck(backup[r].at) /\ guard = r /\ ~backup[r].captured
             /\ Go(r, "failed") /\ UNCHANGED job
  <2>1. PICK r \in Run : /\ Stuck(backup[r].at) /\ guard = r /\ Go(r, "failed")
                         /\ UNCHANGED job
    BY <1>7
  <2>2. /\ RunType' /\ backup'[r].at = "failed"
        /\ \A q \in Run \ {r} : backup'[q] = backup[q]
    BY <2>1, Parts, RunPointsAre, RunGone
  <2>3. RunInv(r)'
    BY <1>3, <2>2, Ended
  <2>4. TypeOK'
    BY <1>3, <1>5, <2>1, <2>2, Parts, NextTypes DEF JobType
  <2>5. "failed" \notin Working \cup {"held"} /\ backup[r].at # "idle"
    BY <2>1 DEF Working, Stuck
  <2>6. UNCHANGED jobVars
    BY <1>1, <2>1 DEF jobVars
  <2> QED
    BY <1>1, <1>5, <2>1, <2>2, <2>3, <2>4, <2>5, <2>6, RunStep, RunPointsAre
<1> QED
  BY <1>6, <1>7 DEF Reconcile

\* A host that serves and has no stop under way is left alone by the daemon.
LEMMA DaemonStep ==
  ASSUME IInv, NEW c \in Container, Daemon(c)
  PROVE  IInv'
<1>1. /\ UNCHANGED <<guard, bundle, job, backup, service, reserved, changes>>
      /\ \/ c \in host.stops /\ host' = [host EXCEPT !.stops = @ \ {c}, !.running = @ \ {c}]
         \/ /\ c \in host.policy \ host.running
            /\ host' = [host EXCEPT !.running = @ \cup {c}]
  BY DEF Daemon, jobVars, runVars
<1>2. HostType /\ HostInv
  BY Parts
<1>3. /\ HostType' /\ host'.image = host.image /\ host'.compose = host.compose
      /\ host'.policy = host.policy /\ host'.stops \subseteq host.stops
      /\ host'.stops \subseteq host'.running
      /\ host.stops = {} => c \in host.policy \ host.running
  BY <1>1, <1>2 DEF HostType, HostInv
<1>4. ~Calm /\ (host.stops = {} => \A v \in Version : ~Serving(host, v))
  BY <1>2, <1>3 DEF Calm, Serving, HostType
<1>5. TypeOK'
  BY <1>1, <1>3, Parts, NextTypes
     DEF GuardType, BundleType, JobType, RunType, ServiceType, CountType
<1>6. GuardKept' /\ ServiceInv'
  BY <1>1, Parts DEF GuardKept, ServiceInv
<1>7. HostInv' /\ BundleInv'
  BY <1>1, <1>2, <1>3, <1>4, Parts DEF HostInv, BundleInv, AttemptOnce, Runs
<1>8. ASSUME NEW p \in Invocation
      PROVE  JobInv(p)'
  <2>1. JobInv(p) /\ job[p].aim \in Version
    BY Parts DEF IInv, JobType
  <2>2. job[p].at \notin Quiet \cup {"receipt", "terminal"}
    BY <1>4, <2>1 DEF JobInv, Quiet, Guarded, Points
  <2> QED
    BY <1>1, <1>3, <2>1, <2>2 DEF JobInv, Quiet
<1>9. ASSUME NEW r \in Run
      PROVE  RunInv(r)'
  <2>1. RunInv(r)
    BY DEF IInv
  <2>2. backup[r].at \notin {"prepare", "release", "stop", "copy", "record"}
    BY <1>3, <1>4, <2>1 DEF RunInv, Working
  <2> QED
    BY <1>1, <1>3, <2>1, <2>2 DEF RunInv, Runs
<1> QED
  BY <1>5, <1>6, <1>7, <1>8, <1>9 DEF IInv

-----------------------------------------------------------------------------

LEMMA InitIInv == Init => IInv
<1> SUFFICES ASSUME Init PROVE IInv
  OBVIOUS
<1>1. TypeOK
  <2>1. "old" \in Version /\ "new" \in Version /\ App \subseteq Container
    BY DEF Version, Container
  <2>2. HostType
    BY <2>1 DEF Init, HostType
  <2>3. GuardType /\ ServiceType /\ CountType
    BY DEF Init, GuardType, ServiceType, CountType
  <2>4. BundleType
    BY DEF Init, BundleType
  <2>5. JobType /\ RunType
    BY <2>1 DEF Init, JobType, RunType, JobPoints, AllRunPoints
  <2> QED
    BY <2>2, <2>3, <2>4, <2>5, TypeParts
<1>2. GuardKept
  BY DEF Init, GuardKept, Guarded, Points, Working
<1>3. Calm /\ host.stops = {} /\ host.running = Container
  BY DEF Init, Calm, Serving, Version
<1>4. HostInv
  BY <1>3 DEF Init, HostInv, Runs
<1>5. BundleInv
  BY DEF Init, BundleInv, AttemptOnce, Runs
<1>6. ServiceInv
  BY DEF Init, ServiceInv, RunPoints, Beyond, Points
<1>7. ASSUME NEW p \in Invocation
      PROVE  JobInv(p)
  <2>1. job[p].at = "idle"
    BY DEF Init
  <2> QED
    BY <2>1 DEF JobInv, Guarded, Quiet, Changed, Points
<1>8. ASSUME NEW r \in Run
      PROVE  RunInv(r)
  <2>1. backup[r].at = "idle" /\ ~backup[r].captured
    BY DEF Init
  <2> QED
    BY <2>1 DEF RunInv, Working
<1> QED
  BY <1>1, <1>2, <1>4, <1>5, <1>6, <1>7, <1>8 DEF IInv

LEMMA StutterIInv ==
  ASSUME IInv, UNCHANGED vars
  PROVE  IInv'
<1>1. UNCHANGED <<host, guard, bundle, job, backup, service, reserved, changes>>
  BY DEF vars
<1>2. TypeOK'
  BY <1>1, Parts, NextTypes
     DEF HostType, GuardType, BundleType, JobType, RunType, ServiceType, CountType
<1>3. GuardKept' /\ ServiceInv' /\ HostInv' /\ BundleInv'
  BY <1>1, Parts DEF GuardKept, ServiceInv, HostInv, BundleInv, AttemptOnce, Runs, Calm, Serving
<1>4. ASSUME NEW p \in Invocation
      PROVE  JobInv(p)'
  BY <1>1 DEF IInv, JobInv, Outcome, Calm, Serving
<1>5. ASSUME NEW r \in Run
      PROVE  RunInv(r)'
  BY <1>1 DEF IInv, RunInv, Calm, Serving, Runs
<1> QED
  BY <1>2, <1>3, <1>4, <1>5 DEF IInv

LEMMA NextIInv == IInv /\ [Next]_vars => IInv'
<1> SUFFICES ASSUME IInv, [Next]_vars
             PROVE  IInv'
  OBVIOUS
<1>1. CASE \E c \in Container : Daemon(c)
  BY <1>1, DaemonStep
<1>2. ASSUME NEW p \in Invocation,
             BeginStage(p) \/ \E n \in Nonce : BeginApply(p, n)
      PROVE  IInv'
  BY <1>2, Begins
<1>3. ASSUME NEW p \in Invocation, Update(p)
      PROVE  IInv'
  BY <1>3, OwnLockStep, IdleStep, StageStep, FreshStep, ArchiveStep, ReserveStep, LoadStep,
     WriterStep, VerifyStep, ReceiptStep, TerminalStep, SettleStep, UnlockStep DEF Update
<1>4. ASSUME NEW p \in Invocation, NEW uncertain \in BOOLEAN, Fail(p, uncertain)
      PROVE  IInv'
  BY <1>4, FailStep
<1>5. ASSUME NEW p \in Invocation, Die(p)
      PROVE  IInv'
  BY <1>5, DieStep
<1>6. ASSUME NEW r \in Run, Backup(r)
      PROVE  IInv'
  BY <1>6, AdmitStep, MakeGuardStep, PrepareStep, DisableRestartsStep, StopAllStep, CopyStep,
     SettleRunStep, ResumeStep, ResumedStep, ReleaseStep, TransferStep DEF Backup
<1>7. ASSUME NEW r \in Run,
             StartRun(r) \/ FailRun(r) \/ DieRun(r) \/ ByHand(r) \/ CompleteResume(r)
      PROVE  IInv'
  BY <1>7, StartRunStep, FailRunStep, DieRunStep, ByHandStep, CompleteResumeStep
<1>8. CASE Reconcile
  BY <1>8, ReconcileStep
<1>9. CASE UNCHANGED vars
  BY <1>9, StutterIInv
<1> QED
  BY <1>1, <1>2, <1>3, <1>4, <1>5, <1>6, <1>7, <1>8, <1>9 DEF Next

\* The inductive invariant, under every schedule of both jobs, the daemon, failures,
\* deaths and the operator.
THEOREM MaintenanceInvariant == Spec => []IInv
BY InitIInv, NextIInv, PTL DEF Spec

\* Every variable keeps the form of what docker, the file system and systemd report.
THEOREM MaintenanceTypeOK == Spec => []TypeOK
<1>1. IInv => TypeOK
  BY DEF IInv
<1> QED
  BY <1>1, MaintenanceInvariant, PTL

\* The guard is given back by nobody but over a host that serves, with no stop of
\* docker's under way that could still take a container down.
THEOREM ReleasedGuardMeansServing == Spec => []ReleasedMeansServing
<1>1. IInv => ReleasedMeansServing
  BY Parts DEF HostInv, Calm, ReleasedMeansServing
<1> QED
  BY <1>1, MaintenanceInvariant, PTL

\* What an apply recorded is what the host runs, and an aborted attempt changed nothing.
THEOREM RecordedIsTrue == Spec => []ReceiptsTrue
<1>1. IInv => ReceiptsTrue
  BY Parts DEF HostInv, BundleInv, Runs, ReceiptsTrue
<1> QED
  BY <1>1, MaintenanceInvariant, PTL

\* An admission is reserved for one attempt, and one apply stops the writers.
THEOREM AdmittedOnce == Spec => []AttemptOnce
<1>1. IInv => AttemptOnce
  BY Parts DEF BundleInv
<1> QED
  BY <1>1, MaintenanceInvariant, PTL

\* Nothing runs from the last stop of a backup to the end of its copy.
THEOREM CopiedCold == Spec => []ColdCopy
<1>1. IInv => ColdCopy
  BY DEF IInv, RunInv, ColdCopy
<1> QED
  BY <1>1, MaintenanceInvariant, PTL

\* A backup past its first gate is disturbed by no update, although it holds no guard
\* at its end.
THEOREM UndisturbedBackup == Spec => []BackupUndisturbed
<1>1. IInv => BackupUndisturbed
  <2> SUFFICES ASSUME IInv, NEW r \in Run, backup[r].at \in RunPoints \ {"gate"},
                      NEW p \in Invocation
               PROVE  job[p].at \in {"idle", "own", "busy", "unlock", "held", "dead"}
    BY DEF BackupUndisturbed
  <2>1. job[p].at \notin Beyond
    BY Parts DEF ServiceInv
  <2>2. job[p].at \in JobPoints
    BY Parts DEF JobType
  <2> QED
    BY <2>1, <2>2 DEF Beyond, JobPoints
<1> QED
  BY <1>1, MaintenanceInvariant, PTL

=============================================================================
