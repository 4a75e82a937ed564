------------------------ MODULE ServiceManagerProofs ------------------------
(***************************************************************************)
(* Theorems about ServiceManager, for every set of services, pids and      *)
(* concurrent requests: the PID files keep naming the running instances    *)
(* (StopCanReach, OneInstance) and a stop section leaves nothing running   *)
(* (StopMeansStopped), except for the services in the history variable     *)
(* untracked.  All three follow from the inductive invariant IInv.  With   *)
(* one request at a time it also says what the restore does not start and  *)
(* that the shutdown leaves no child (the last section).                   *)
(***************************************************************************)
EXTENDS ServiceManager, SequenceTheorems, TLAPS

USE NoneAssumption, OrderAssumption DEF Locked, Steps

\* Every plan a request can be given is a sequence of sections.
LEMMA ForAllType ==
  ASSUME NEW do \in {"start", "stop", "stopKeep", "startIfOn"}
  PROVE  ForAll(do) \in Seq(Sections)
<1>1. Len(Order) \in Nat /\ DOMAIN Order = 1..Len(Order)
  BY LenProperties
<1>2. \A i \in 1..Len(Order) : Order[i] \in Services
  BY ElementOfSeq
<1>3. ForAll(do) \in [1..Len(Order) -> Sections]
  BY <1>1, <1>2 DEF ForAll, On, Sections
<1>. QED BY <1>1, <1>3, SeqDef

LEMMA RestartAllType == RestartAllPlan \in Seq(Sections)
<1>1. Len(Order) \in Nat /\ DOMAIN Order = 1..Len(Order)
  BY LenProperties
<1>2. \A i \in 1..Len(Order) : Order[i] \in Services
  BY ElementOfSeq
<1>3. ASSUME NEW i \in 1..(2 * Len(Order))
      PROVE  (i + 1) \div 2 \in 1..Len(Order)
  BY <1>1
<1>4. RestartAllPlan \in [1..(2 * Len(Order)) -> Sections]
  BY <1>2, <1>3 DEF RestartAllPlan, On, Sections
<1>5. 2 * Len(Order) \in Nat
  BY <1>1
<1>. QED BY <1>4, <1>5, SeqDef

LEMMA PlanTypes ==
  /\ UserPlans \subseteq Seq(Sections)
  /\ RestorePlan \in Seq(Sections)
  /\ ShutdownPlan \in Seq(Sections)
<1>1. \A s \in Services : /\ StartPlan(s) \in Seq(Sections)
                          /\ StopPlan(s) \in Seq(Sections)
                          /\ RestartPlan(s) \in Seq(Sections)
  BY DEF StartPlan, StopPlan, RestartPlan, On, Sections
<1>2. UserPlans \subseteq Seq(Sections)
  BY <1>1, ForAllType, RestartAllType DEF UserPlans
<1>3. RestorePlan \in Seq(Sections)
  BY ForAllType DEF RestorePlan
<1>4. On("exit", None) \in Sections
  BY DEF On, Sections
<1>5. ShutdownPlan \in Seq(Sections)
  BY <1>4, ForAllType, AppendProperties DEF ShutdownPlan
<1>. QED BY <1>2, <1>3, <1>5

LEMMA IdleType == Idle \in ReqType
BY EmptySeq DEF Idle, Begin, ReqType, Kinds

(* What the request variable looks like after each way a step changes it. *)
LEMMA ReturnType ==
  ASSUME TypeOK, NEW r \in Reqs, req[r].plan # <<>>, Return(r)
  PROVE  /\ req' \in [Reqs -> ReqType]
         /\ req'[r].pc = "ready"
         /\ \A x \in Reqs \ {r} : req'[x] = req[x]
<1>1. req[r] \in ReqType /\ req \in [Reqs -> ReqType]
  BY DEF TypeOK, ReqType
<1>2. Tail(req[r].plan) \in Seq(Sections)
  BY <1>1, HeadTailProperties DEF ReqType
<1>3. Begin(req[r].kind, Tail(req[r].plan)) \in ReqType
  BY <1>1, <1>2 DEF Begin, ReqType
<1> DEFINE next == IF Len(req[r].plan) = 1
                   THEN Idle ELSE Begin(req[r].kind, Tail(req[r].plan))
<1>4. next \in ReqType /\ next.pc = "ready"
  BY <1>3, IdleType DEF Idle, Begin
<1>5. req' = [req EXCEPT ![r] = next]
  BY DEF Return
<1> HIDE DEF next
<1>. QED BY <1>1, <1>4, <1>5

LEMMA GotoType ==
  ASSUME TypeOK, NEW r \in Reqs, NEW pc \in Steps, NEW pid \in Pids \cup {None},
         Goto(r, pc, pid)
  PROVE  /\ req' \in [Reqs -> ReqType]
         /\ req'[r].pc = pc /\ req'[r].pid = pid
         /\ req'[r].plan = req[r].plan
         /\ \A x \in Reqs \ {r} : req'[x] = req[x]
BY DEF TypeOK, Goto, ReqType

LEMMA BeginType ==
  ASSUME TypeOK, NEW r \in Reqs, NEW kind \in Kinds, NEW plan \in Seq(Sections),
         req' = [req EXCEPT ![r] = Begin(kind, plan)]
  PROVE  /\ req' \in [Reqs -> ReqType]
         /\ req'[r].pc = "ready"
         /\ \A x \in Reqs \ {r} : req'[x] = req[x]
<1>1. Begin(kind, plan) \in ReqType /\ Begin(kind, plan).pc = "ready"
  BY DEF Begin, ReqType
<1>. QED BY <1>1 DEF TypeOK

LEMMA SectionType ==
  ASSUME TypeOK, NEW r \in Reqs, req[r].plan # <<>>,
         Head(req[r].plan).do # "exit"
  PROVE  Svc(r) \in Services
<1>1. Head(req[r].plan) \in Sections
  BY HeadTailProperties DEF TypeOK, ReqType
<1>. QED BY <1>1 DEF Sections, Svc

(***************************************************************************)
(* A request that ends a step outside the mutex keeps the invariant when   *)
(* it removes no PID file of a live instance that was not killed.          *)
(***************************************************************************)
LEMMA LeaveKeeps ==
  ASSUME IInv, NEW r \in Reqs,
         req' \in [Reqs -> ReqType], req'[r].pc = "ready",
         \A x \in Reqs \ {r} : req'[x] = req[x],
         req[r].pc # "write", up', boots' \in 0..MaxBoots,
         UNCHANGED <<life, svc, waiter, procs, untracked, late>>,
         overtaken' \in SUBSET Reqs,
         sent' \in [Pids -> {"none", "term", "kill"}],
         \A p \in Pids : sent[p] = "kill" => sent'[p] = "kill",
         desired' \in [Services -> {"true", "false"}],
         \/ lock = r /\ lock' = None
         \/ req[r].pc = "ready" /\ lock' = lock,
         \/ pidFile' = pidFile
         \/ \E s \in Services :
              /\ lock = r
              /\ pidFile' = [pidFile EXCEPT ![s] = None]
              /\ \A p \in Pids : pidFile[s] = p => ~Live(p)'
  PROVE  IInv'
<1>1. TypeOK /\ LockInv /\ SectionInv /\ DownInv /\ FileInv /\ ProcInv
      /\ SpawnInv /\ PollInv /\ StopCanReach /\ NoStaleWaiter
  BY DEF IInv
<1>2. TypeOK'
  BY <1>1 DEF TypeOK
<1>3. LockInv'
  BY <1>1 DEF LockInv
<1>4. SectionInv' /\ DownInv'
  BY <1>1 DEF SectionInv, DownInv
<1>5. FileInv'
  BY <1>1 DEF FileInv, TypeOK
<1>6. ProcInv'
  BY <1>1 DEF ProcInv
<1>7. \A x \in Reqs : req'[x].pc # "ready" => x # r /\ Svc(x)' = Svc(x)
  BY DEF Svc
<1>8. \A s \in Services : Running(s)' => Running(s)
  BY <1>1 DEF Running, processAlive, TypeOK
<1>9. \A x \in Reqs : req'[x].pc # "ready" => pidFile' = pidFile
  BY <1>1, <1>7 DEF LockInv, TypeOK, ReqType
<1>10. SpawnInv'
  <2> SUFFICES ASSUME NEW x \in Reqs, req'[x].pc \in {"spawn", "write"}
               PROVE  /\ ~Running(Svc(x))'
                      /\ req'[x].pc = "write" =>
                           /\ req'[x].pid \in Pids
                           /\ svc[req'[x].pid] = Svc(x)'
                           /\ life[req'[x].pid] # "gone"
                           /\ waiter[req'[x].pid] = "none"
    BY DEF SpawnInv
  <2>1. x # r /\ req'[x] = req[x] /\ Svc(x)' = Svc(x)
    BY <1>7
  <2>3. req[x].pc \in {"spawn", "write"}
    BY <2>1
  <2>2. Running(Svc(x))' = Running(Svc(x))
    BY <2>1, <1>9 DEF Running, processAlive
  <2>. QED BY <2>1, <2>2, <2>3, <1>1 DEF SpawnInv
<1>11. PollInv'
  BY <1>1, <1>7, <1>9 DEF PollInv
<1>12. \A p \in Pids : InSpawn(p)' <=> InSpawn(p)
  BY DEF InSpawn
<1>13. \A p \in Pids : Live(p)' => Live(p)
  BY <1>1 DEF Live, TypeOK
<1>14. StopCanReach'
  <2> SUFFICES ASSUME NEW p \in Pids,
                      Live(p)', ~InSpawn(p)', svc[p] \notin untracked
               PROVE  pidFile'[svc[p]] = p
    BY DEF StopCanReach
  <2>1. Live(p) /\ ~InSpawn(p)
    BY <1>12, <1>13
  <2>2. pidFile[svc[p]] = p /\ svc[p] \in Services
    BY <2>1, <1>1 DEF StopCanReach, ProcInv, Live
  <2>. QED BY <2>2, <1>1 DEF TypeOK
<1>15. NoStaleWaiter'
  BY <1>1, <1>12, <1>13 DEF NoStaleWaiter, Pending
<1>. QED BY <1>2, <1>3, <1>4, <1>5, <1>6, <1>10, <1>11, <1>14, <1>15 DEF IInv

LEMMA InitIInv == Init => IInv
<1> SUFFICES ASSUME Init PROVE IInv
  OBVIOUS
<1>1. TypeOK
  <2>1. boots \in 0..MaxBoots
    BY BootsAssumption DEF Init
  <2>2. req \in [Reqs -> ReqType]
    BY IdleType DEF Init
  <2>. QED BY <2>1, <2>2, Zenon DEF Init, TypeOK
<1>2. \A r \in Reqs : req[r] = Idle /\ Idle.pc = "ready"
  BY DEF Init, Idle, Begin
<1>3. LockInv /\ SectionInv /\ DownInv /\ SpawnInv /\ PollInv
  BY <1>2 DEF Init, LockInv, SectionInv, DownInv, SpawnInv, PollInv
<1>4. FileInv /\ ProcInv /\ StopCanReach /\ NoStaleWaiter
  BY DEF Init, FileInv, ProcInv, StopCanReach, NoStaleWaiter, Live
<1>. QED BY <1>1, <1>3, <1>4 DEF IInv

LEMMA LeaveStepKeeps ==
  ASSUME IInv, NEW r \in Reqs,
         \/ StartAlreadyRunning(r) \/ StartRefused(r) \/ StartSettle(r)
         \/ StopNoPid(r) \/ StopSeesExit(r) \/ StopKills(r)
         \/ CheckEnabled(r) \/ Submit(r) \/ Boot(r)
  PROVE  IInv'
<1>1. TypeOK /\ LockInv /\ SectionInv /\ DownInv /\ PollInv /\ StopCanReach
  BY DEF IInv
<1>2. CASE StartAlreadyRunning(r)
  <2>1. req[r].plan # <<>> /\ req[r].pc = "ready" /\ up /\ Svc(r) \in Services
    BY <1>1, <1>2, SectionType DEF StartAlreadyRunning, AtSection
  <2>. QED BY <1>1, <1>2, <2>1, ReturnType, LeaveKeeps
         DEF StartAlreadyRunning, setDesired, TypeOK
<1>3. CASE StartRefused(r)
  <2>1. req[r].plan # <<>> /\ lock = r
    BY <1>1, <1>3 DEF StartRefused, SectionInv, LockInv
  <2>. QED BY <1>1, <1>3, <2>1, ReturnType, LeaveKeeps DEF StartRefused, TypeOK
<1>4. CASE StartSettle(r)
  <2>1. req[r].plan # <<>> /\ lock = r /\ Svc(r) \in Services
    BY <1>1, <1>4, SectionType DEF StartSettle, SectionInv, LockInv
  <2>2. desired' \in [Services -> {"true", "false"}]
    BY <1>1, <1>4, <2>1 DEF StartSettle, TypeOK
  <2>. QED BY <1>1, <1>4, <2>1, <2>2, ReturnType, LeaveKeeps
         DEF StartSettle, TypeOK
<1>5. CASE StopNoPid(r)
  <2>1. req[r].plan # <<>> /\ req[r].pc = "ready" /\ up /\ Svc(r) \in Services
    BY <1>1, <1>5, SectionType DEF StopNoPid, AtSection
  <2>2. desired' \in [Services -> {"true", "false"}] /\ overtaken' \in SUBSET Reqs
    BY <1>1, <1>5, <2>1 DEF StopNoPid, PersistStop, setDesired, StartsOnCheck, TypeOK
  <2>. QED BY <1>1, <1>5, <2>1, <2>2, ReturnType, LeaveKeeps
         DEF StopNoPid, TypeOK
<1>6. CASE StopSeesExit(r)
  <2>1. req[r].plan # <<>> /\ lock = r /\ Svc(r) \in Services /\ req[r].pid \in Pids
    BY <1>1, <1>6, SectionType DEF StopSeesExit, SectionInv, LockInv, PollInv
  <2>2. desired' \in [Services -> {"true", "false"}] /\ overtaken' \in SUBSET Reqs
    BY <1>1, <1>6, <2>1 DEF StopSeesExit, PersistStop, setDesired, StartsOnCheck, TypeOK
  <2>3. \A p \in Pids : pidFile[Svc(r)] = p => ~Live(p)'
    BY <1>1, <1>6, <2>1 DEF StopSeesExit, PollInv, processAlive, Live
  <2>. QED BY <1>1, <1>6, <2>1, <2>2, <2>3, ReturnType, LeaveKeeps
         DEF StopSeesExit, TypeOK
<1>7. CASE StopKills(r)
  <2>1. req[r].plan # <<>> /\ lock = r /\ Svc(r) \in Services /\ req[r].pid \in Pids
    BY <1>1, <1>7, SectionType DEF StopKills, SectionInv, LockInv, PollInv
  <2>2. desired' \in [Services -> {"true", "false"}] /\ overtaken' \in SUBSET Reqs
    BY <1>1, <1>7, <2>1 DEF StopKills, PersistStop, setDesired, StartsOnCheck, TypeOK
  <2>3. /\ sent' \in [Pids -> {"none", "term", "kill"}]
        /\ \A p \in Pids : sent[p] = "kill" => sent'[p] = "kill"
        /\ life[req[r].pid] = "alive" => sent'[req[r].pid] = "kill"
    BY <1>1, <1>7, <2>1 DEF StopKills, TypeOK
  <2>4. \A p \in Pids : pidFile[Svc(r)] = p => ~Live(p)'
    BY <1>1, <1>7, <2>1, <2>3 DEF StopKills, PollInv, Live
  <2>5. /\ Return(r) /\ up' /\ boots' = boots /\ lock' = None
        /\ req[r].pc # "write"
        /\ pidFile' = [pidFile EXCEPT ![Svc(r)] = None]
        /\ UNCHANGED <<life, svc, waiter, procs, untracked, late>>
    BY <1>7 DEF StopKills
  <2>6. /\ req' \in [Reqs -> ReqType] /\ req'[r].pc = "ready"
        /\ \A x \in Reqs \ {r} : req'[x] = req[x]
    BY <1>1, <2>1, <2>5, ReturnType
  <2>7. boots' \in 0..MaxBoots
    BY <1>1, <2>5 DEF TypeOK
  <2>8. \E s \in Services :
           /\ lock = r
           /\ pidFile' = [pidFile EXCEPT ![s] = None]
           /\ \A p \in Pids : pidFile[s] = p => ~Live(p)'
    BY <2>1, <2>4, <2>5
  <2>. QED BY <2>1, <2>2, <2>3, <2>5, <2>6, <2>7, <2>8, LeaveKeeps
<1>8. CASE CheckEnabled(r)
  <2>1. req[r].plan # <<>> /\ req[r].pc = "ready" /\ up /\ Svc(r) \in Services
    BY <1>1, <1>8, SectionType DEF CheckEnabled, AtSection
  <2>2. /\ req' \in [Reqs -> ReqType] /\ req'[r].pc = "ready"
        /\ \A x \in Reqs \ {r} : req'[x] = req[x]
    <3>1. CASE desired[Svc(r)] = "true"
      <4> DEFINE plan == << On("start", Svc(r)) >> \o Tail(req[r].plan)
      <4>1. << On("start", Svc(r)) >> \in Seq(Sections)
        BY <2>1 DEF On, Sections
      <4>2. req[r] \in ReqType /\ Tail(req[r].plan) \in Seq(Sections)
        BY <1>1, <2>1, HeadTailProperties DEF TypeOK, ReqType
      <4>3. plan \in Seq(Sections)
        BY <4>1, <4>2, ConcatProperties
      <4>4. req' = [req EXCEPT ![r].plan = plan]
        BY <1>8, <3>1 DEF CheckEnabled
      <4> HIDE DEF plan
      <4>. QED BY <1>1, <2>1, <4>2, <4>3, <4>4 DEF TypeOK, ReqType
    <3>2. CASE desired[Svc(r)] # "true"
      BY <1>1, <1>8, <2>1, <3>2, ReturnType DEF CheckEnabled
    <3>. QED BY <3>1, <3>2
  <2>. QED BY <1>1, <1>8, <2>1, <2>2, LeaveKeeps DEF CheckEnabled, TypeOK
<1>9. CASE Submit(r)
  <2>1. req[r].pc = "ready" /\ up
    BY <1>9 DEF Submit, Idle, Begin
  <2>2. PICK kind \in Kinds, plan \in Seq(Sections) :
           req' = [req EXCEPT ![r] = Begin(kind, plan)]
    BY <1>9, PlanTypes DEF Submit, Kinds
  <2>. QED BY <1>1, <1>9, <2>1, <2>2, BeginType, LeaveKeeps DEF Submit, TypeOK
<1>10. CASE Boot(r)
  <2>1. req[r].pc = "ready" /\ lock' = lock /\ up'
    BY <1>1, <1>10 DEF Boot, DownInv, Idle, Begin
  <2>2. "restore" \in Kinds /\ boots' \in 0..MaxBoots
    BY <1>1, <1>10, BootsAssumption DEF Kinds, Boot, TypeOK
  <2>3. /\ req' \in [Reqs -> ReqType] /\ req'[r].pc = "ready"
        /\ \A x \in Reqs \ {r} : req'[x] = req[x]
    BY <1>1, <1>10, <2>2, PlanTypes, BeginType DEF Boot
  <2>. QED BY <1>1, <1>10, <2>1, <2>2, <2>3, LeaveKeeps DEF Boot, TypeOK
<1>. QED BY <1>2, <1>3, <1>4, <1>5, <1>6, <1>7, <1>8, <1>9, <1>10

(***************************************************************************)
(* The steps that take the mutex or work inside it.                        *)
(***************************************************************************)
LEMMA StartEnterKeeps ==
  ASSUME IInv, NEW r \in Reqs, StartEnter(r)
  PROVE  IInv'
<1>1. TypeOK /\ LockInv /\ SectionInv /\ DownInv /\ FileInv /\ ProcInv
      /\ SpawnInv /\ PollInv /\ StopCanReach /\ NoStaleWaiter
  BY DEF IInv
<1>2. /\ up /\ lock = None /\ lock' = r /\ ~Running(Svc(r))
      /\ req[r].plan # <<>> /\ Head(req[r].plan).do = "start"
      /\ req[r].pc = "ready" /\ Goto(r, "spawn", None)
      /\ UNCHANGED <<up, boots, life, svc, sent, waiter, pidFile, procs,
                     desired, untracked, overtaken, late>>
  BY DEF StartEnter, AtSection
<1>3. /\ req' \in [Reqs -> ReqType]
      /\ req'[r].pc = "spawn" /\ req'[r].plan = req[r].plan
      /\ \A x \in Reqs \ {r} : req'[x] = req[x]
  BY <1>1, <1>2, GotoType
<1>4. \A x \in Reqs : Svc(x)' = Svc(x) /\ (req'[x].pc \in Locked => x = r)
  BY <1>1, <1>2, <1>3 DEF Svc, LockInv
<1>5. TypeOK'
  BY <1>1, <1>2, <1>3 DEF TypeOK
<1>6. LockInv'
  BY <1>1, <1>2, <1>3 DEF LockInv
<1>7. SectionInv' /\ DownInv'
  BY <1>1, <1>2, <1>3 DEF SectionInv, DownInv
<1>8. FileInv' /\ ProcInv'
  BY <1>1, <1>2 DEF FileInv, ProcInv
<1>9. SpawnInv' /\ PollInv'
  BY <1>2, <1>3, <1>4 DEF SpawnInv, PollInv, Running, processAlive
<1>10. \A p \in Pids : InSpawn(p)' <=> InSpawn(p)
  BY <1>2, <1>3 DEF InSpawn
<1>11. StopCanReach' /\ NoStaleWaiter'
  BY <1>1, <1>2, <1>10 DEF StopCanReach, NoStaleWaiter, Live, Pending
<1>. QED BY <1>5, <1>6, <1>7, <1>8, <1>9, <1>11 DEF IInv

LEMMA StartSpawnKeeps ==
  ASSUME IInv, NEW r \in Reqs, StartSpawn(r)
  PROVE  IInv'
<1>1. TypeOK /\ LockInv /\ SectionInv /\ DownInv /\ FileInv /\ ProcInv
      /\ SpawnInv /\ PollInv /\ StopCanReach /\ NoStaleWaiter
  BY DEF IInv
<1>2. PICK p \in Pids :
        /\ Free(p)
        /\ life' = [life EXCEPT ![p] = "alive"]
        /\ svc' = [svc EXCEPT ![p] = Svc(r)]
        /\ sent' = [sent EXCEPT ![p] = "none"]
        /\ procs' = [procs EXCEPT ![Svc(r)] = p]
        /\ late' = late \cup {p} \/ late' = late \ {p}
        /\ Goto(r, "write", p)
  BY DEF StartSpawn
<1>3. /\ up /\ req[r].pc = "spawn" /\ lock = r
      /\ req[r].plan # <<>> /\ Head(req[r].plan).do = "start"
      /\ UNCHANGED <<up, boots, lock, waiter, pidFile, desired, untracked,
                     overtaken>>
      /\ Svc(r) \in Services
  BY <1>1, SectionType DEF StartSpawn, LockInv, SectionInv
<1>4. /\ req' \in [Reqs -> ReqType]
      /\ req'[r].pc = "write" /\ req'[r].plan = req[r].plan
      /\ req'[r].pid = p
      /\ \A x \in Reqs \ {r} : req'[x] = req[x]
  BY <1>1, <1>2, GotoType
<1>5. \A x \in Reqs : Svc(x)' = Svc(x) /\ (req'[x].pc \in Locked => x = r)
  BY <1>1, <1>3, <1>4 DEF Svc, LockInv
<1>6. TypeOK'
  BY <1>1, <1>2, <1>3, <1>4 DEF TypeOK
<1>7. LockInv'
  BY <1>1, <1>3, <1>4 DEF LockInv
<1>8. SectionInv' /\ DownInv'
  BY <1>1, <1>3, <1>4 DEF SectionInv, DownInv
<1>9. FileInv' /\ ProcInv'
  BY <1>1, <1>2, <1>3 DEF FileInv, ProcInv, Free, TypeOK
<1>10. /\ life'[p] = "alive" /\ svc'[p] = Svc(r) /\ waiter[p] = "none"
       /\ \A s \in Services : pidFile[s] # p
       /\ \A q \in Pids \ {p} : /\ life'[q] = life[q] /\ svc'[q] = svc[q]
                                /\ sent'[q] = sent[q]
  BY <1>1, <1>2 DEF Free, TypeOK
<1>11. ~Running(Svc(r))'
  BY <1>1, <1>3, <1>5, <1>10 DEF SpawnInv, Running, processAlive, TypeOK
<1>12. SpawnInv' /\ PollInv'
  BY <1>3, <1>4, <1>5, <1>10, <1>11 DEF SpawnInv, PollInv
<1>13. \A q \in Pids : InSpawn(q)' <=> (q = p \/ InSpawn(q))
  BY <1>1, <1>3, <1>4 DEF InSpawn, LockInv
<1>14. StopCanReach'
  BY <1>1, <1>3, <1>10, <1>13 DEF StopCanReach, Live
<1>15. NoStaleWaiter'
  BY <1>1, <1>3, <1>10, <1>13 DEF NoStaleWaiter, Live, Pending
<1>. QED BY <1>6, <1>7, <1>8, <1>9, <1>12, <1>14, <1>15 DEF IInv

LEMMA StopSignalKeeps ==
  ASSUME IInv, NEW r \in Reqs, StopSignal(r)
  PROVE  IInv'
<1>1. TypeOK /\ LockInv /\ SectionInv /\ DownInv /\ FileInv /\ ProcInv
      /\ SpawnInv /\ PollInv /\ StopCanReach /\ NoStaleWaiter
  BY DEF IInv
<1> DEFINE p == pidFile[Svc(r)]
<1>2. /\ up /\ lock = None /\ lock' = r /\ p # None
      /\ req[r].plan # <<>> /\ Head(req[r].plan).do \in {"stop", "stopKeep"}
      /\ req[r].pc = "ready" /\ Goto(r, "poll", p)
      /\ sent' = [sent EXCEPT ![p] = IF life[p] = "alive" /\ @ = "none"
                                     THEN "term" ELSE @]
      /\ UNCHANGED <<up, boots, life, svc, waiter, pidFile, procs, desired,
                     untracked, overtaken, late>>
  BY DEF StopSignal, AtSection
<1>3. Svc(r) \in Services /\ p \in Pids
  BY <1>1, <1>2, SectionType DEF TypeOK
<1>4. /\ req' \in [Reqs -> ReqType]
      /\ req'[r].pc = "poll" /\ req'[r].plan = req[r].plan
      /\ req'[r].pid = p
      /\ \A x \in Reqs \ {r} : req'[x] = req[x]
  BY <1>1, <1>2, <1>3, GotoType
<1>5. \A x \in Reqs : Svc(x)' = Svc(x) /\ (req'[x].pc \in Locked => x = r)
  BY <1>1, <1>2, <1>4 DEF Svc, LockInv
<1>6. TypeOK'
  BY <1>1, <1>2, <1>3, <1>4 DEF TypeOK
<1>7. LockInv'
  BY <1>1, <1>2, <1>4 DEF LockInv
<1>8. SectionInv' /\ DownInv'
  BY <1>1, <1>2, <1>4 DEF SectionInv, DownInv
<1>9. FileInv' /\ ProcInv'
  BY <1>1, <1>2 DEF FileInv, ProcInv
<1>10. SpawnInv' /\ PollInv'
  BY <1>2, <1>3, <1>4, <1>5 DEF SpawnInv, PollInv
<1>11. \A q \in Pids : InSpawn(q)' <=> InSpawn(q)
  BY <1>2, <1>4 DEF InSpawn
<1>12. \A q \in Pids : Live(q)' => Live(q)
  BY <1>1, <1>2, <1>3 DEF Live, TypeOK
<1>13. StopCanReach' /\ NoStaleWaiter'
  BY <1>1, <1>2, <1>11, <1>12 DEF StopCanReach, NoStaleWaiter, Pending
<1>. QED BY <1>6, <1>7, <1>8, <1>9, <1>10, <1>13 DEF IInv

LEMMA StartWritePidKeeps ==
  ASSUME IInv, NEW r \in Reqs, StartWritePid(r)
  PROVE  IInv'
<1>1. TypeOK /\ LockInv /\ SectionInv /\ DownInv /\ FileInv /\ ProcInv
      /\ SpawnInv /\ PollInv /\ StopCanReach /\ NoStaleWaiter
  BY DEF IInv
<1> DEFINE s == Svc(r)
           p == req[r].pid
<1>2. /\ up /\ req[r].pc = "write" /\ lock = r
      /\ req[r].plan # <<>> /\ Head(req[r].plan).do = "start"
      /\ s \in Services /\ p \in Pids /\ svc[p] = s
      /\ life[p] # "gone" /\ waiter[p] = "none" /\ ~Running(s)
  BY <1>1, SectionType DEF StartWritePid, LockInv, SectionInv, SpawnInv
<1>3. /\ waiter' = [waiter EXCEPT ![p] = "wait"]
      /\ Goto(r, "settle", None)
      /\ UNCHANGED <<up, boots, lock, life, svc, sent, procs, desired, overtaken, late>>
  BY DEF StartWritePid
<1>4. \/ /\ pidFile' = [pidFile EXCEPT ![s] = p]
         /\ IF \E q \in Pids : q # p /\ Pending(q, s)
            THEN untracked' = untracked \cup {s} ELSE untracked' = untracked
      \/ /\ pidFile' \in {pidFile, [pidFile EXCEPT ![s] = None]}
         /\ untracked' = untracked \cup {s}
  BY DEF StartWritePid
<1>5. /\ req' \in [Reqs -> ReqType]
      /\ req'[r].pc = "settle" /\ req'[r].plan = req[r].plan
      /\ \A x \in Reqs \ {r} : req'[x] = req[x]
  BY <1>1, <1>3, GotoType
<1>6. \A x \in Reqs \ {r} : req'[x].pc = "ready"
  BY <1>1, <1>2, <1>5 DEF LockInv, TypeOK, ReqType
<1>7. /\ pidFile' \in [Services -> Pids \cup {None}]
      /\ untracked' \in SUBSET Services /\ untracked \subseteq untracked'
      /\ \A t \in Services \ {s} : pidFile'[t] = pidFile[t]
      /\ pidFile'[s] \in {p, None, pidFile[s]}
      /\ \A t \in Services \ {s} : t \in untracked' => t \in untracked
  BY <1>1, <1>2, <1>4 DEF TypeOK
<1>8. TypeOK'
  BY <1>1, <1>2, <1>3, <1>5, <1>7 DEF TypeOK
<1>9. LockInv' /\ SectionInv' /\ DownInv'
  BY <1>1, <1>2, <1>3, <1>5 DEF LockInv, SectionInv, DownInv
<1>10. FileInv'
  BY <1>1, <1>2, <1>3, <1>7 DEF FileInv
<1>11. ProcInv'
  BY <1>1, <1>2, <1>3 DEF ProcInv, TypeOK
<1>12. SpawnInv' /\ PollInv'
  BY <1>5, <1>6 DEF SpawnInv, PollInv
<1>13. \A q \in Pids : /\ InSpawn(q) <=> q = p
                       /\ ~InSpawn(q)'
  BY <1>1, <1>2, <1>5, <1>6 DEF InSpawn, LockInv
<1>14. \A q \in Pids : Live(q)' <=> Live(q)
  BY <1>3 DEF Live
\* No other instance of s is live and tracked: its PID file would name it.
<1>15. ASSUME NEW q \in Pids, q # p, Live(q), svc[q] = s
       PROVE  s \in untracked
  <2>1. CASE s \notin untracked
    <3>1. pidFile[s] = q
      BY <1>1, <1>13, <1>15, <2>1 DEF StopCanReach
    <3>2. Running(s)
      BY <1>1, <1>15, <3>1 DEF Running, processAlive, Live
    <3>. QED BY <1>2, <3>2
  <2>. QED BY <2>1
<1>16. StopCanReach'
  <2> SUFFICES ASSUME NEW q \in Pids, Live(q), svc[q] \notin untracked'
               PROVE  pidFile'[svc[q]] = q
    BY <1>3, <1>14 DEF StopCanReach
  <2>1. CASE svc[q] = s
    BY <1>1, <1>2, <1>4, <1>7, <1>15, <2>1 DEF TypeOK
  <2>2. CASE svc[q] # s
    <3>1. svc[q] \in Services
      BY <1>1 DEF ProcInv, Live
    <3>2. q # p /\ svc[q] \notin untracked
      BY <1>2, <1>7, <2>2
    <3>. QED BY <1>1, <1>7, <1>13, <2>2, <3>1, <3>2 DEF StopCanReach
  <2>. QED BY <2>1, <2>2
<1>17. NoStaleWaiter'
  <2> SUFFICES ASSUME NEW q \in Pids, NEW w \in Pids, q # w, Live(q),
                      svc[q] \notin untracked', Pending(w, svc[q])'
               PROVE  FALSE
    BY <1>3, <1>14 DEF NoStaleWaiter
  <2>1. svc[w] = svc[q] /\ (w = p \/ Pending(w, svc[q]))
    BY <1>1, <1>3 DEF Pending, TypeOK
  <2>2. CASE svc[q] = s
    <3>1. q = p
      BY <1>7, <1>15, <2>2
    <3>2. Pending(w, s) /\ w # p
      BY <2>1, <2>2, <3>1
    <3>. QED BY <1>4, <2>2, <3>2
  <2>3. CASE svc[q] # s
    <3>1. q # p /\ w # p /\ svc[q] \notin untracked
      BY <1>2, <1>7, <2>1, <2>3
    <3>. QED BY <1>1, <1>13, <2>1, <3>1 DEF NoStaleWaiter
  <2>. QED BY <2>2, <2>3
<1>. QED BY <1>8, <1>9, <1>10, <1>11, <1>12, <1>16, <1>17 DEF IInv

LEMMA ManagerGoneKeeps ==
  ASSUME IInv, ManagerGone
  PROVE  IInv'
<1>1. TypeOK /\ LockInv /\ SectionInv /\ DownInv /\ FileInv /\ ProcInv
      /\ SpawnInv /\ PollInv /\ StopCanReach /\ NoStaleWaiter
  BY DEF IInv
<1>2. \A r \in Reqs : req'[r] = Idle /\ req'[r].pc = "ready"
  BY DEF ManagerGone, Idle, Begin
<1>3. /\ req' \in [Reqs -> ReqType]
      /\ life' \in [Pids -> {"alive", "zombie", "gone"}]
      /\ procs' \in [Services -> Pids \cup {None}]
      /\ waiter' \in [Pids -> {"none", "wait", "remove", "forget"}]
      /\ untracked' \in SUBSET Services
      /\ overtaken' \in SUBSET Reqs /\ late' \in SUBSET Pids
  BY <1>1, IdleType DEF ManagerGone, TypeOK
<1>4. TypeOK'
  BY <1>1, <1>3 DEF ManagerGone, TypeOK
<1>5. LockInv' /\ SectionInv' /\ DownInv' /\ SpawnInv' /\ PollInv'
  BY <1>2 DEF ManagerGone, LockInv, SectionInv, DownInv, SpawnInv, PollInv
<1>6. FileInv' /\ ProcInv'
  BY <1>1 DEF ManagerGone, FileInv, ProcInv, TypeOK
<1>7. \A p \in Pids : Live(p)' => Live(p)
  BY <1>1 DEF ManagerGone, Live, TypeOK
<1>8. \A p \in Pids : Live(p) /\ InSpawn(p) => svc[p] \in untracked'
  BY <1>1 DEF ManagerGone, ProcInv, Live
<1>9. StopCanReach'
  BY <1>1, <1>7, <1>8 DEF ManagerGone, StopCanReach
<1>10. NoStaleWaiter'
  BY DEF ManagerGone, NoStaleWaiter, Pending
<1>. QED BY <1>4, <1>5, <1>6, <1>9, <1>10 DEF IInv

(***************************************************************************)
(* The steps of waiters and children, which hold no mutex.                 *)
(***************************************************************************)
LEMMA ProcessStepKeeps ==
  ASSUME IInv, NEW p \in Pids, WaiterStep(p) \/ Die(p)
  PROVE  IInv'
<1>1. TypeOK /\ LockInv /\ SectionInv /\ DownInv /\ FileInv /\ ProcInv
      /\ SpawnInv /\ PollInv /\ StopCanReach /\ NoStaleWaiter
  BY DEF IInv
<1>2. /\ UNCHANGED <<up, boots, lock, svc, sent, desired, req, untracked, overtaken, late>>
      /\ \A q \in Pids : InSpawn(q)' <=> InSpawn(q)
      /\ \A r \in Reqs : Svc(r)' = Svc(r)
  BY DEF WaiterStep, WaiterReaps, WaiterRemovesPid, WaiterForgets, Die,
         InSpawn, Svc
<1>3. LockInv' /\ SectionInv'
  BY <1>1, <1>2 DEF LockInv, SectionInv
<1>4. CASE WaiterReaps(p)
  <2>1. TypeOK' /\ FileInv' /\ ProcInv'
    BY <1>1, <1>2, <1>4 DEF WaiterReaps, TypeOK, FileInv, ProcInv
  <2>2. DownInv'
    BY <1>1, <1>4 DEF WaiterReaps, DownInv
  <2>3. \A r \in Reqs : req[r].pc = "write" => req[r].pid # p
    BY <1>1, <1>4 DEF WaiterReaps, SpawnInv
  <2>4. SpawnInv' /\ PollInv'
    BY <1>1, <1>2, <1>4, <2>3
       DEF WaiterReaps, SpawnInv, PollInv, Running, processAlive, TypeOK
  <2>5. StopCanReach' /\ NoStaleWaiter'
    BY <1>1, <1>2, <1>4
       DEF WaiterReaps, StopCanReach, NoStaleWaiter, Live, Pending, TypeOK
  <2>. QED BY <1>3, <2>1, <2>2, <2>4, <2>5 DEF IInv
<1>5. CASE WaiterRemovesPid(p)
  <2>1. /\ waiter[p] = "remove" /\ life[p] = "gone" /\ svc[p] \in Services
        /\ pidFile' = [pidFile EXCEPT ![svc[p]] = None]
        /\ waiter' = [waiter EXCEPT ![p] = "forget"]
        /\ UNCHANGED <<life, procs>>
    BY <1>1, <1>5 DEF WaiterRemovesPid, ProcInv
  <2>2. TypeOK' /\ FileInv' /\ ProcInv'
    BY <1>1, <1>2, <2>1 DEF TypeOK, FileInv, ProcInv
  <2>3. DownInv'
    BY <1>1, <1>2, <2>1 DEF DownInv
  <2>4. SpawnInv'
    BY <1>1, <1>2, <2>1 DEF SpawnInv, Running, processAlive, TypeOK
  <2>5. PollInv'
    BY <1>1, <1>2, <2>1 DEF PollInv, TypeOK
  \* The waiter is not the live instance's own, so it can only be pending
  \* for a service that is untracked.
  <2>6. StopCanReach'
    <3> SUFFICES ASSUME NEW q \in Pids, Live(q), ~InSpawn(q),
                        svc[q] \notin untracked
                 PROVE  pidFile'[svc[q]] = q
      BY <1>2, <2>1 DEF StopCanReach, Live
    <3>1. q # p
      BY <2>1 DEF Live
    <3>2. ~Pending(p, svc[q]) /\ pidFile[svc[q]] = q
      BY <1>1, <3>1 DEF NoStaleWaiter, StopCanReach
    <3>3. svc[q] # svc[p]
      BY <2>1, <3>2 DEF Pending
    <3>4. svc[q] \in Services
      BY <1>1 DEF ProcInv, Live
    <3>. QED BY <1>1, <2>1, <3>2, <3>3, <3>4 DEF TypeOK
  <2>7. NoStaleWaiter'
    BY <1>1, <1>2, <2>1 DEF NoStaleWaiter, Live, Pending, TypeOK
  <2>. QED BY <1>3, <2>2, <2>3, <2>4, <2>5, <2>6, <2>7 DEF IInv
<1>6. CASE WaiterForgets(p)
  <2>1. TypeOK' /\ FileInv' /\ ProcInv'
    BY <1>1, <1>2, <1>6 DEF WaiterForgets, TypeOK, FileInv, ProcInv
  <2>2. DownInv' /\ SpawnInv' /\ PollInv'
    BY <1>1, <1>2, <1>6
       DEF WaiterForgets, DownInv, SpawnInv, PollInv, Running, processAlive, TypeOK
  <2>3. StopCanReach' /\ NoStaleWaiter'
    BY <1>1, <1>2, <1>6
       DEF WaiterForgets, StopCanReach, NoStaleWaiter, Live, Pending, TypeOK
  <2>. QED BY <1>3, <2>1, <2>2, <2>3 DEF IInv
<1>7. CASE Die(p)
  <2>1. /\ life[p] = "alive" /\ UNCHANGED <<waiter, pidFile, procs>>
        /\ life' = [life EXCEPT ![p] = IF Parented(p) THEN "zombie" ELSE "gone"]
    BY <1>7 DEF Die
  <2>2. TypeOK' /\ FileInv' /\ DownInv'
    BY <1>1, <1>2, <2>1 DEF TypeOK, FileInv, DownInv
  <2>3. ProcInv'
    BY <1>1, <1>2, <2>1 DEF ProcInv, Parented, TypeOK
  <2>4. SpawnInv'
    BY <1>1, <1>2, <2>1
       DEF SpawnInv, Running, processAlive, Parented, InSpawn, TypeOK
  <2>5. PollInv'
    BY <1>1, <1>2, <2>1 DEF PollInv
  <2>6. StopCanReach' /\ NoStaleWaiter'
    BY <1>1, <1>2, <2>1 DEF StopCanReach, NoStaleWaiter, Live, Pending, TypeOK
  <2>. QED BY <1>3, <2>2, <2>3, <2>4, <2>5, <2>6 DEF IInv
<1>. QED BY <1>4, <1>5, <1>6, <1>7 DEF WaiterStep

LEMMA StutterKeeps == IInv /\ UNCHANGED vars => IInv'
BY DEF vars, IInv, TypeOK, LockInv, SectionInv, DownInv, FileInv, ProcInv,
       SpawnInv, PollInv, StopCanReach, NoStaleWaiter, Live, InSpawn, Pending,
       Running, processAlive, Svc

LEMMA NextKeeps == IInv /\ [Next]_vars => IInv'
<1> SUFFICES ASSUME IInv, [Next]_vars PROVE IInv'
  OBVIOUS
<1>1. ASSUME NEW r \in Reqs, RequestStep(r) \/ Submit(r) \/ Boot(r)
      PROVE  IInv'
  BY <1>1, LeaveStepKeeps, StartEnterKeeps, StartSpawnKeeps, StartWritePidKeeps,
     StopSignalKeeps, ManagerGoneKeeps
     DEF RequestStep, StartStep, StopStep, Exit
<1>2. ASSUME NEW p \in Pids, WaiterStep(p) \/ Die(p) PROVE IInv'
  BY <1>2, ProcessStepKeeps
<1>3. CASE Crash
  BY <1>3, ManagerGoneKeeps DEF Crash
<1>4. CASE UNCHANGED vars
  BY <1>4, StutterKeeps
<1>. QED BY <1>1, <1>2, <1>3, <1>4 DEF Next

-----------------------------------------------------------------------------
(* The inductive invariant holds in every reachable state: types, mutex
   discipline and what each goroutine relies on between two of its steps. *)
THEOREM Inductive == Spec => []IInv
BY InitIInv, NextKeeps, PTL DEF Spec

(* process.go:110: Stop and Restart can reach every running child through its
   PID file, for any number of services, pids, goroutines and crashes, unless
   an older waiter, a failed write or a crash inside Start interfered. *)
THEOREM ChildrenStayReachable == Spec => []StopCanReach
<1>1. IInv => StopCanReach
  BY DEF IInv
<1>. QED BY <1>1, Inductive, PTL

(* Concurrent starts and restores never run a service twice, with the same
   exception (process.go:85, the check under the mutex). *)
THEOREM NoSecondInstance == Spec => []OneInstance
<1>1. IInv => OneInstance
  <2> SUFFICES ASSUME IInv, NEW p \in Pids, NEW q \in Pids,
                      Live(p), Live(q), svc[p] = svc[q], svc[p] \notin untracked
               PROVE  p = q
    BY DEF OneInstance
  <2>1. LockInv /\ ProcInv /\ SpawnInv /\ StopCanReach
    BY DEF IInv
  <2>2. ASSUME NEW a \in Pids, NEW b \in Pids, Live(a), Live(b), InSpawn(a),
               ~InSpawn(b), svc[a] = svc[b], svc[b] \notin untracked
        PROVE  FALSE
    <3>1. PICK r \in Reqs : req[r].pc = "write" /\ req[r].pid = a
      BY <2>2 DEF InSpawn
    <3>2. ~Running(svc[a])
      BY <2>1, <3>1 DEF SpawnInv
    <3>3. pidFile[svc[a]] = b
      BY <2>1, <2>2 DEF StopCanReach
    <3>. QED BY <2>2, <3>2, <3>3 DEF Running, processAlive, Live
  <2>3. CASE InSpawn(p) /\ InSpawn(q)
    BY <2>1, <2>3 DEF InSpawn, LockInv
  <2>4. CASE ~InSpawn(p) /\ ~InSpawn(q)
    BY <2>1, <2>4 DEF StopCanReach
  <2>. QED BY <2>2, <2>3, <2>4
<1>. QED BY <1>1, Inductive, PTL

\* Only the stop steps of a request end its stop section, and the PID file was
\* what named the instance.
LEMMA SectionStops ==
  ASSUME IInv, IInv', [Next]_vars, NEW r \in Reqs,
         up, up', req[r].plan # <<>>,
         Head(req[r].plan).do \in {"stop", "stopKeep"},
         req'[r] # req[r], req'[r].pc # "poll",
         Svc(r) \notin untracked,
         NEW p \in Pids, svc[p] = Svc(r)
  PROVE  ~Live(p)'
<1>1. TypeOK /\ LockInv /\ SectionInv /\ LockInv' /\ StopCanReach' /\ ProcInv
  BY DEF IInv
\* Only r itself moves r on, and only its own stop steps end the section.
<1>2. ASSUME NEW w \in Pids, WaiterStep(w) \/ Die(w)
      PROVE  FALSE
  BY <1>2 DEF WaiterStep, WaiterReaps, WaiterRemovesPid, WaiterForgets, Die
<1>3. ASSUME NEW x \in Reqs, Submit(x) \/ Boot(x) \/ Exit(x) \/ Crash
      PROVE  FALSE
  BY <1>3, <1>1 DEF Submit, Boot, Exit, Crash, ManagerGone, Idle, Begin, TypeOK
<1>4. ASSUME NEW x \in Reqs, StartStep(x) \/ StopStep(x) \/ CheckEnabled(x)
      PROVE  x = r
  BY <1>4, <1>1
     DEF StartStep, StartAlreadyRunning, StartEnter, StartRefused, StartSpawn,
         StartWritePid, StartSettle, StopStep, StopNoPid, StopSignal,
         StopSeesExit, StopKills, CheckEnabled, Goto, Return, TypeOK
<1>5. ~StartStep(r) /\ ~CheckEnabled(r)
  BY <1>1 DEF StartStep, StartAlreadyRunning, StartEnter, StartRefused,
              StartSpawn, StartWritePid, StartSettle, CheckEnabled,
              AtSection, SectionInv
<1>6. ~StopSignal(r)
  BY <1>1 DEF StopSignal, Goto, TypeOK
<1>7. StopNoPid(r) \/ StopSeesExit(r) \/ StopKills(r)
  BY <1>2, <1>3, <1>4, <1>5, <1>6 DEF Next, RequestStep, StopStep, Crash, vars
<1>8. Svc(r) \in Services
  BY <1>1, SectionType
<1>9. /\ pidFile'[Svc(r)] = None /\ lock' = None
      /\ UNCHANGED <<svc, untracked>>
  BY <1>1, <1>7, <1>8 DEF StopNoPid, StopSeesExit, StopKills, TypeOK
<1>10. ~InSpawn(p)'
  BY <1>1, <1>9 DEF InSpawn, LockInv
<1>. QED BY <1>1, <1>9, <1>10 DEF StopCanReach

(* process.go:147-191: whoever stops a service leaves no instance of it
   running that has not been sent SIGKILL. *)
THEOREM StopLeavesNothing == Spec => StopMeansStopped
<1> DEFINE Claim(r) ==
      /\ up /\ up'
      /\ req[r].plan # <<>> /\ Head(req[r].plan).do \in {"stop", "stopKeep"}
      /\ req'[r] # req[r] /\ req'[r].pc # "poll"
      /\ Svc(r) \notin untracked
      => \A p \in Pids : svc[p] = Svc(r) => ~Live(p)'
<1>1. IInv /\ IInv' /\ [Next]_vars => \A r \in Reqs : Claim(r)
  BY SectionStops
<1>. QED BY <1>1, Inductive, PTL DEF StopMeansStopped, Spec

-----------------------------------------------------------------------------
(***************************************************************************)
(* What a restore and a shutdown hold on to from section to section while  *)
(* any other requests, children and waiters go on moving.                  *)
(***************************************************************************)
Plan(r) == req[r].plan

\* A restore only starts what it has read as enabled and nobody stopped since.
RestoreRule ==
  \A r \in Reqs : req[r].kind = "restore" =>
    \A i \in 1..Len(Plan(r)) :
      \/ Plan(r)[i].do = "startIfOn"
      \/ /\ i = 1 /\ Plan(r)[i] = On("start", Plan(r)[i].svc)
         /\ r \in overtaken \/ desired[Plan(r)[i].svc] = "true"

Clean(s) == s \in untracked \/ \A p \in Pids \ late : svc[p] = s => ~Live(p)

\* A shutdown ends with its exit, and has yet to stop what is not clean.
ShutdownRule ==
  \A r \in Reqs :
    /\ req[r].kind = "shutdown" =>
         /\ \A i \in 1..Len(Plan(r)) :
              Plan(r)[i].do = IF i = Len(Plan(r)) THEN "exit" ELSE "stopKeep"
         /\ \A s \in Services :
              Clean(s) \/ \E i \in 1..Len(Plan(r)) : Plan(r)[i] = On("stopKeep", s)
    /\ req[r].kind # "shutdown" => \A i \in 1..Len(Plan(r)) : Plan(r)[i].do # "exit"

LEMMA PlanFacts ==
  ASSUME TypeOK, NEW r \in Reqs
  PROVE  /\ Plan(r) \in Seq(Sections) /\ Len(Plan(r)) \in Nat
         /\ Plan(r) # <<>> => Len(Plan(r)) > 0 /\ Head(Plan(r)) = Plan(r)[1]
         /\ \A i \in 1..Len(Plan(r)) : Plan(r)[i] \in Sections
<1>1. Plan(r) \in Seq(Sections)
  BY DEF TypeOK, ReqType, Plan
<1>. QED BY <1>1, LenProperties, ElementOfSeq, EmptySeq

\* The section a request has finished is gone, the others move up.
LEMMA ReturnPlan ==
  ASSUME TypeOK, NEW r \in Reqs, Plan(r) # <<>>, Return(r)
  PROVE  \/ req'[r] = Idle
         \/ /\ req'[r].kind = req[r].kind
            /\ Len(Plan(r)') = Len(Plan(r)) - 1
            /\ \A i \in 1..Len(Plan(r)') : i + 1 \in 1..Len(Plan(r)) /\ Plan(r)'[i] = Plan(r)[i + 1]
<1>1. Plan(r) \in Seq(Sections) /\ Len(Plan(r)) \in Nat
  BY PlanFacts
<1>2. /\ Tail(Plan(r)) \in Seq(Sections) /\ Len(Tail(Plan(r))) = Len(Plan(r)) - 1
      /\ \A i \in 1..(Len(Plan(r)) - 1) : Tail(Plan(r))[i] = Plan(r)[i + 1]
  BY <1>1, HeadTailProperties
<1>3. req'[r] = IF Len(Plan(r)) = 1 THEN Idle ELSE Begin(req[r].kind, Tail(Plan(r)))
  BY DEF TypeOK, Return, Plan
<1>4. CASE req'[r] = Begin(req[r].kind, Tail(Plan(r)))
  <2>1. req'[r].kind = req[r].kind /\ Plan(r)' = Tail(Plan(r))
    BY <1>4 DEF Begin, Plan
  <2>. QED BY <1>1, <1>2, <2>1
<1>. QED BY <1>3, <1>4

\* What the restore and the shutdown are given.
LEMMA FreshPlans ==
  /\ Len(RestorePlan) \in Nat /\ \A i \in 1..Len(RestorePlan) : RestorePlan[i].do = "startIfOn"
  /\ Len(ShutdownPlan) = Len(Order) + 1 /\ Len(Order) \in Nat
  /\ \A i \in 1..Len(Order) : ShutdownPlan[i] = On("stopKeep", Order[i])
  /\ ShutdownPlan[Len(Order) + 1] = On("exit", None)
  /\ \A plan \in UserPlans : Len(plan) \in Nat /\ \A i \in 1..Len(plan) : plan[i].do # "exit"
<1>1. Len(Order) \in Nat /\ DOMAIN Order = 1..Len(Order)
  BY LenProperties
<1>2. ASSUME NEW do \in {"start", "stop", "stopKeep", "startIfOn"}
      PROVE  /\ ForAll(do) \in Seq(Sections) /\ Len(ForAll(do)) = Len(Order)
             /\ \A i \in 1..Len(Order) : ForAll(do)[i] = On(do, Order[i]) /\ ForAll(do)[i].do = do
  <2>1. ForAll(do) \in Seq(Sections)
    BY ForAllType
  <2>2. DOMAIN ForAll(do) = 1..Len(Order)
    BY <1>1 DEF ForAll
  <2>3. Len(ForAll(do)) = Len(Order)
    BY <1>1, <2>1, <2>2, LenProperties
  <2>. QED BY <1>1, <2>1, <2>3 DEF ForAll, On
<1>3. Len(RestorePlan) \in Nat /\ \A i \in 1..Len(RestorePlan) : RestorePlan[i].do = "startIfOn"
  BY <1>1, <1>2 DEF RestorePlan
<1>4. On("exit", None) \in Sections
  BY DEF On, Sections
<1>5. /\ Len(ShutdownPlan) = Len(Order) + 1
      /\ \A i \in 1..Len(Order) : ShutdownPlan[i] = On("stopKeep", Order[i])
      /\ ShutdownPlan[Len(Order) + 1] = On("exit", None)
  BY <1>1, <1>2, <1>4, AppendProperties DEF ShutdownPlan
<1>6. ASSUME NEW plan \in UserPlans, NEW i \in 1..Len(plan) PROVE plan[i].do # "exit"
  <2>1. CASE \E s \in Services : plan \in {StartPlan(s), StopPlan(s), RestartPlan(s)}
    BY <1>6, <2>1 DEF StartPlan, StopPlan, RestartPlan, On
  <2>2. CASE plan \in {ForAll("start"), ForAll("stop")}
    BY <1>1, <1>2, <1>6, <2>2
  <2>3. CASE plan = RestartAllPlan
    <3>1. RestartAllPlan \in Seq(Sections)
      BY RestartAllType
    <3>2. DOMAIN RestartAllPlan = 1..(2 * Len(Order))
      BY <1>1 DEF RestartAllPlan
    <3>3. i \in 1..(2 * Len(Order))
      BY <1>6, <2>3, <3>1, <3>2, LenProperties
    <3>4. RestartAllPlan[i].do \in {"stopKeep", "start"}
      BY <3>3 DEF RestartAllPlan, On
    <3>. QED BY <2>3, <3>4
  <2>. QED BY <2>1, <2>2, <2>3 DEF UserPlans
<1>7. \A plan \in UserPlans : Len(plan) \in Nat
  BY PlanTypes, LenProperties
<1>. QED BY <1>1, <1>3, <1>5, <1>6, <1>7

\* A step that moves no request's plan on.
PlansStay == \A r \in Reqs : req'[r].kind = req[r].kind /\ Plan(r)' = Plan(r)

LEMMA GotoStays ==
  ASSUME TypeOK, NEW r \in Reqs, NEW pc \in Steps, NEW pid \in Pids \cup {None},
         Goto(r, pc, pid)
  PROVE  PlansStay
BY DEF TypeOK, Goto, ReqType, PlansStay, Plan

\* The steps of Next by what they do to the plans.
LEMMA StepKinds ==
  ASSUME IInv, [Next]_vars
  PROVE  \/ PlansStay /\ UNCHANGED <<desired, overtaken>> /\ untracked \subseteq untracked'
         \/ ManagerGone
         \/ \E r \in Reqs : Submit(r) \/ Boot(r) \/ CheckEnabled(r)
         \/ \E r \in Reqs : /\ Return(r) /\ Plan(r) # <<>>
                            /\ \/ StartAlreadyRunning(r) \/ StartRefused(r) \/ StartSettle(r)
                               \/ StopNoPid(r) \/ StopSeesExit(r) \/ StopKills(r)
<1>1. TypeOK /\ SectionInv /\ SpawnInv /\ PollInv
  BY DEF IInv
<1>2. ASSUME NEW r \in Reqs,
             StartEnter(r) \/ StartSpawn(r) \/ StartWritePid(r) \/ StopSignal(r)
      PROVE  PlansStay /\ UNCHANGED <<desired, overtaken>> /\ untracked \subseteq untracked'
  <2>1. PICK pc \in Steps, pid \in Pids \cup {None} : Goto(r, pc, pid)
    <3>1. CASE StartEnter(r) \/ StartSpawn(r) \/ StartWritePid(r)
      BY <3>1 DEF StartEnter, StartSpawn, StartWritePid
    <3>2. CASE StopSignal(r)
      <4>1. pidFile[Svc(r)] \in Pids \cup {None}
        <5>1. Plan(r) # <<>> /\ Head(Plan(r)).do # "exit"
          BY <3>2 DEF StopSignal, AtSection, Plan
        <5>2. Svc(r) \in Services
          BY <1>1, <5>1, SectionType DEF Plan
        <5>. QED BY <1>1, <5>2 DEF TypeOK
      <4>. QED BY <3>2, <4>1 DEF StopSignal
    <3>. QED BY <1>2, <3>1, <3>2
  <2>2. PlansStay
    BY <1>1, <2>1, GotoStays
  <2>. QED BY <1>2, <2>2 DEF StartEnter, StartSpawn, StartWritePid, StopSignal
<1>3. ASSUME NEW p \in Pids, WaiterStep(p) \/ Die(p)
      PROVE  PlansStay /\ UNCHANGED <<desired, overtaken>> /\ untracked \subseteq untracked'
  BY <1>3 DEF WaiterStep, WaiterReaps, WaiterRemovesPid, WaiterForgets, Die, PlansStay, Plan
<1>4. ASSUME NEW r \in Reqs,
             \/ StartAlreadyRunning(r) \/ StartRefused(r) \/ StartSettle(r)
             \/ StopNoPid(r) \/ StopSeesExit(r) \/ StopKills(r)
      PROVE  Return(r) /\ Plan(r) # <<>>
  BY <1>1, <1>4 DEF StartAlreadyRunning, StartRefused, StartSettle, StopNoPid, StopSeesExit,
     StopKills, AtSection, SectionInv, Plan
<1>5. CASE UNCHANGED vars
  BY <1>5 DEF vars, PlansStay, Plan
<1>6. CASE Crash \/ \E r \in Reqs : Exit(r)
  BY <1>6 DEF Crash, Exit
<1>. QED BY <1>2, <1>3, <1>4, <1>5, <1>6 DEF Next, RequestStep, StartStep, StopStep

LEMMA IdlePlan == Idle.kind = "none" /\ Len(Idle.plan) = 0
BY EmptySeq DEF Idle, Begin

LEMMA BeginPlan ==
  ASSUME TypeOK, NEW r \in Reqs, NEW kind, NEW plan,
         req' = [req EXCEPT ![r] = Begin(kind, plan)]
  PROVE  req'[r].kind = kind /\ Plan(r)' = plan
BY DEF TypeOK, Begin, Plan

\* The plan of a request whose start section was checked.
LEMMA CheckedPlan ==
  ASSUME TypeOK, NEW r \in Reqs, CheckEnabled(r), ~ Return(r)
  PROVE  /\ req'[r].kind = req[r].kind /\ desired[Svc(r)] = "true"
         /\ Len(Plan(r)') = Len(Plan(r)) /\ Len(Plan(r)) \in Nat
         /\ Plan(r)'[1] = On("start", Svc(r)) /\ Plan(r) # <<>> /\ Plan(r)[1].do = "startIfOn"
         /\ \A i \in 1..Len(Plan(r)) : i # 1 => Plan(r)'[i] = Plan(r)[i]
<1>1. /\ desired[Svc(r)] = "true" /\ Plan(r) # <<>> /\ Head(Plan(r)).do = "startIfOn"
      /\ req' = [req EXCEPT ![r].plan = << On("start", Svc(r)) >> \o Tail(req[r].plan)]
  BY DEF CheckEnabled, AtSection, Plan
<1>2. Plan(r) \in Seq(Sections) /\ Len(Plan(r)) \in Nat /\ Len(Plan(r)) > 0
      /\ Head(Plan(r)) = Plan(r)[1]
  BY <1>1, PlanFacts
<1>3. /\ Tail(Plan(r)) \in Seq(Sections) /\ Len(Tail(Plan(r))) = Len(Plan(r)) - 1
      /\ \A i \in 1..(Len(Plan(r)) - 1) : Tail(Plan(r))[i] = Plan(r)[i + 1]
  BY <1>1, <1>2, HeadTailProperties
<1>4. Svc(r) \in Services /\ On("start", Svc(r)) \in Sections
  BY <1>1, SectionType DEF On, Sections, Plan
<1> DEFINE one == << On("start", Svc(r)) >>
<1>5. one \in Seq(Sections) /\ Len(one) = 1 /\ one[1] = On("start", Svc(r))
  BY <1>4
<1> HIDE DEF one
<1>6. /\ Len(one \o Tail(Plan(r))) = Len(Plan(r))
      /\ (one \o Tail(Plan(r)))[1] = On("start", Svc(r))
      /\ \A i \in 1..Len(Plan(r)) : i # 1 => (one \o Tail(Plan(r)))[i] = Plan(r)[i]
  <2>0. one \in Seq(Sections) /\ Tail(Plan(r)) \in Seq(Sections)
    BY <1>3, <1>5
  <2>1. \A i \in 1..(Len(one) + Len(Tail(Plan(r)))) :
          (one \o Tail(Plan(r)))[i] = IF i <= Len(one) THEN one[i] ELSE Tail(Plan(r))[i - Len(one)]
    BY <2>0, ConcatProperties
  <2>2. Len(one \o Tail(Plan(r))) = Len(one) + Len(Tail(Plan(r)))
    BY <2>0, ConcatProperties
  <2>3. (one \o Tail(Plan(r)))[1] = On("start", Svc(r))
    <3>1. 1 \in 1..(Len(one) + Len(Tail(Plan(r)))) /\ 1 <= Len(one)
      BY <1>2, <1>3, <1>5
    <3>. QED BY <1>5, <2>1, <3>1
  <2>4. ASSUME NEW i \in 1..Len(Plan(r)), i # 1
        PROVE  (one \o Tail(Plan(r)))[i] = Plan(r)[i]
    <3>1. i \in 1..(Len(one) + Len(Tail(Plan(r)))) /\ ~ (i <= Len(one))
      BY <1>2, <1>3, <1>5, <2>4
    <3>2. i - 1 \in 1..(Len(Plan(r)) - 1) /\ (i - 1) + 1 = i
      BY <1>2, <2>4
    <3>. QED BY <1>3, <1>5, <2>1, <3>1, <3>2
  <2>. QED BY <1>2, <1>3, <1>5, <2>2, <2>3, <2>4
<1>7. req'[r].kind = req[r].kind /\ Plan(r)' = one \o Tail(Plan(r))
  BY <1>1 DEF TypeOK, ReqType, Plan, one
<1>. QED BY <1>1, <1>2, <1>6, <1>7

\* A request's own steps move no other request.
LEMMA OthersStay ==
  ASSUME TypeOK, NEW x \in Reqs, NEW r \in Reqs, x # r,
         Return(x) \/ CheckEnabled(x) \/ Submit(x) \/ Boot(x)
  PROVE  req'[r] = req[r] /\ Plan(r)' = Plan(r)
<1>1. Return(x) => req'[r] = req[r]
  BY DEF TypeOK, Return
<1>2. CheckEnabled(x) => req'[r] = req[r]
  BY <1>1 DEF TypeOK, CheckEnabled
<1>3. Submit(x) \/ Boot(x) => req'[r] = req[r]
  BY DEF TypeOK, Submit, Boot
<1>. QED BY <1>1, <1>2, <1>3 DEF Plan

LEMMA RestoreRuleNext ==
  ASSUME IInv, RestoreRule, [Next]_vars
  PROVE  RestoreRule'
<1>0. TypeOK
  BY DEF IInv
<1> DEFINE Kept(r, i) ==
      \/ Plan(r)[i].do = "startIfOn"
      \/ /\ i = 1 /\ Plan(r)[i] = On("start", Plan(r)[i].svc)
         /\ r \in overtaken \/ desired[Plan(r)[i].svc] = "true"
<1> SUFFICES ASSUME NEW r \in Reqs, req'[r].kind = "restore", NEW i \in 1..Len(Plan(r)')
             PROVE  Kept(r, i)'
  BY DEF RestoreRule
<1>1. ASSUME req'[r].kind = req[r].kind, Plan(r)' = Plan(r),
             \/ UNCHANGED desired /\ (r \in overtaken => r \in overtaken')
             \/ \E s \in Services : /\ desired' = [desired EXCEPT ![s] = "true"]
                                    /\ r \in overtaken => r \in overtaken'
             \/ \E s \in Services : /\ desired' = [desired EXCEPT ![s] = "false"]
                                    /\ overtaken' = overtaken \cup StartsOnCheck(s)
      PROVE  Kept(r, i)'
  <2>1. Kept(r, i) /\ req[r].kind = "restore" /\ i \in 1..Len(Plan(r))
    BY <1>1 DEF RestoreRule
  <2>2. Plan(r) \in Seq(Sections) /\ Plan(r)[i] \in Sections /\ Len(Plan(r)) \in Nat
    BY <1>0, <2>1, PlanFacts
  <2>3. CASE Plan(r)[i].do = "startIfOn"
    BY <1>1, <2>3
  <2>4. CASE Plan(r)[i].do # "startIfOn"
    <3>1. i = 1 /\ Plan(r)[i] = On("start", Plan(r)[i].svc)
          /\ (r \in overtaken \/ desired[Plan(r)[i].svc] = "true")
      BY <2>1, <2>4
    <3>2. Plan(r)[i].svc \in Services
      <4>1. On("start", Plan(r)[i].svc).do = "start"
        BY DEF On
      <4>. QED BY <2>2, <3>1, <4>1 DEF Sections
    <3>3. r \in overtaken' \/ desired'[Plan(r)[i].svc] = "true"
      <4>1. ASSUME NEW s \in Services, s = Plan(r)[i].svc PROVE r \in StartsOnCheck(s)
        <5>1. Plan(r) # <<>> /\ Head(Plan(r)) = Plan(r)[1]
          <6>1. Plan(r) # <<>>
            BY <2>1, <2>2, EmptySeq
          <6>. QED BY <1>0, <6>1, PlanFacts
        <5>. QED BY <2>1, <3>1, <4>1, <5>1 DEF StartsOnCheck, Plan
      <4>. QED BY <1>0, <1>1, <3>1, <3>2, <4>1 DEF TypeOK
    <3>. QED BY <1>1, <3>1, <3>3
  <2>. QED BY <2>3, <2>4
<1>2. CASE PlansStay /\ UNCHANGED <<desired, overtaken>>
  BY <1>1, <1>2 DEF PlansStay
<1>3. CASE ManagerGone
  BY <1>3, IdlePlan DEF ManagerGone
<1>4. ASSUME Return(r), Plan(r) # <<>> PROVE Plan(r)'[i].do = "startIfOn"
  <2>2. req'[r] # Idle
    BY IdlePlan
  <2>3. /\ req[r].kind = "restore" /\ i + 1 \in 1..Len(Plan(r)) /\ i + 1 # 1
        /\ Plan(r)'[i] = Plan(r)[i + 1]
    <3>1. Len(Plan(r)) \in Nat
      BY <1>0, PlanFacts
    <3>. QED BY <1>0, <1>4, <2>2, <3>1, ReturnPlan
  <2>. QED BY <2>3 DEF RestoreRule
<1>5. ASSUME NEW x \in Reqs, Return(x), Plan(x) # <<>>,
             \/ StartAlreadyRunning(x) \/ StartRefused(x) \/ StartSettle(x)
             \/ StopNoPid(x) \/ StopSeesExit(x) \/ StopKills(x)
      PROVE  Kept(r, i)'
  <2>1. CASE x = r
    BY <1>4, <1>5, <2>1
  <2>2. CASE x # r
    <3>1. req'[r] = req[r] /\ Plan(r)' = Plan(r)
      BY <1>0, <1>5, <2>2, OthersStay
    <3>2. Svc(x) \in Services
      <4>1. TypeOK /\ SectionInv
        BY DEF IInv
      <4>2. Head(req[x].plan).do # "exit"
        BY <1>5, <4>1 DEF StartAlreadyRunning, StartRefused, StartSettle, StopNoPid,
           StopSeesExit, StopKills, AtSection, SectionInv
      <4>. QED BY <1>5, <4>1, <4>2, SectionType DEF Plan
    <3>3. CASE StartAlreadyRunning(x) \/ StartRefused(x) \/ StartSettle(x)
      <4>1. /\ overtaken' = overtaken \ {x}
            /\ desired' = desired \/ desired' = [desired EXCEPT ![Svc(x)] = "true"]
        BY <3>3 DEF StartAlreadyRunning, StartRefused, StartSettle, setDesired
      <4>. QED BY <1>1, <2>2, <3>1, <3>2, <4>1
    <3>4. CASE StopNoPid(x) \/ StopSeesExit(x) \/ StopKills(x)
      <4>1. \/ UNCHANGED <<desired, overtaken>>
            \/ /\ desired' = [desired EXCEPT ![Svc(x)] = "false"]
               /\ overtaken' = overtaken \cup StartsOnCheck(Svc(x))
        BY <3>4 DEF StopNoPid, StopSeesExit, StopKills, PersistStop, setDesired
      <4>. QED BY <1>1, <3>1, <3>2, <4>1
    <3>. QED BY <1>5, <3>3, <3>4
  <2>. QED BY <2>1, <2>2
<1>6. ASSUME NEW x \in Reqs, CheckEnabled(x) PROVE Kept(r, i)'
  <2>1. CASE x # r
    <3>1. req'[r] = req[r] /\ Plan(r)' = Plan(r)
      BY <1>0, <1>6, <2>1, OthersStay
    <3>2. UNCHANGED desired /\ (r \in overtaken => r \in overtaken')
      BY <1>6, <2>1 DEF CheckEnabled
    <3>. QED BY <1>1, <3>1, <3>2
  <2>2. CASE x = r /\ Return(r)
    <3>1. Plan(r) # <<>>
      BY <1>6, <2>2 DEF CheckEnabled, AtSection, Plan
    <3>. QED BY <1>4, <2>2, <3>1
  <2>3. CASE x = r /\ ~ Return(r)
    <3>1. desired' = desired
      BY <1>6 DEF CheckEnabled
    <3>2. CASE i = 1
      <4>1. Plan(r)'[1] = On("start", Svc(r)) /\ desired[Svc(r)] = "true"
        BY <1>0, <1>6, <2>3, CheckedPlan
      <4>2. On("start", Svc(r)).svc = Svc(r)
        BY DEF On
      <4>. QED BY <3>1, <3>2, <4>1, <4>2
    <3>3. CASE i # 1
      BY <1>0, <1>6, <2>3, <3>3, CheckedPlan DEF RestoreRule
    <3>. QED BY <3>2, <3>3
  <2>. QED BY <2>1, <2>2, <2>3
<1>7. ASSUME NEW x \in Reqs, Submit(x) \/ Boot(x) PROVE Kept(r, i)'
  <2>1. CASE x # r
    <3>1. req'[r] = req[r] /\ Plan(r)' = Plan(r)
      BY <1>0, <1>7, <2>1, OthersStay
    <3>2. UNCHANGED <<desired, overtaken>>
      BY <1>7 DEF Submit, Boot
    <3>. QED BY <1>1, <3>1, <3>2
  <2>2. CASE x = r
    <3>1. PICK kind, plan : /\ req' = [req EXCEPT ![r] = Begin(kind, plan)]
                            /\ kind = "restore" => plan = RestorePlan
      BY <1>7, <2>2 DEF Submit, Boot
    <3>2. Plan(r)' = RestorePlan
      BY <1>0, <3>1, BeginPlan
    <3>. QED BY <3>2, FreshPlans
  <2>. QED BY <2>1, <2>2
<1> HIDE DEF Kept
<1>. QED BY <1>2, <1>3, <1>5, <1>6, <1>7, StepKinds

(* Whatever requests run beside it, a restore turns a stopped service on only
   when the stop fell between its look at the setting and its start
   (process.go:211-224). *)
THEOREM RestoreUndoesOnlyRaces == Spec => RestoreActsOnItsLook
<1>1. Init => RestoreRule
  BY IdlePlan DEF Init, RestoreRule
<1>2. ASSUME IInv, RestoreRule, [Next]_vars, NEW r \in Reqs \ overtaken, NEW s \in Services,
             req[r].kind = "restore", req'[r] # req[r], desired[s] = "false"
      PROVE  desired'[s] = "false"
  <2>0. TypeOK /\ SectionInv
    BY <1>2 DEF IInv
  <2>1. CASE UNCHANGED desired
    BY <1>2, <2>1
  <2>2. CASE \E x \in Reqs : /\ Return(x) /\ Plan(x) # <<>>
                             /\ \/ StartAlreadyRunning(x) \/ StartRefused(x) \/ StartSettle(x)
                                \/ StopNoPid(x) \/ StopSeesExit(x) \/ StopKills(x)
    <3>1. /\ Plan(r) # <<>>
          /\ \/ StartAlreadyRunning(r) \/ StartRefused(r) \/ StartSettle(r)
             \/ StopNoPid(r) \/ StopSeesExit(r) \/ StopKills(r)
      BY <1>2, <2>0, <2>2, OthersStay
    <3>2. /\ Len(Plan(r)) \in Nat /\ Len(Plan(r)) > 0 /\ Head(Plan(r)) = Plan(r)[1]
      BY <2>0, <3>1, PlanFacts
    <3>3. Svc(r) = Plan(r)[1].svc
      BY <3>2 DEF Svc, Plan
    <3>4. CASE StartAlreadyRunning(r) \/ StartSettle(r)
      <4>1. Plan(r)[1].do = "start"
        BY <2>0, <3>2, <3>4 DEF StartAlreadyRunning, StartSettle, AtSection, SectionInv, Plan
      <4>2. 1 \in 1..Len(Plan(r))
        BY <3>2
      <4>3. desired[Svc(r)] = "true"
        BY <1>2, <3>3, <4>1, <4>2 DEF RestoreRule
      <4>. QED BY <1>2, <2>0, <3>4, <4>3 DEF StartAlreadyRunning, StartSettle, setDesired, TypeOK
    <3>5. CASE StartRefused(r)
      BY <1>2, <3>5 DEF StartRefused
    <3>6. CASE StopNoPid(r) \/ StopSeesExit(r) \/ StopKills(r)
      <4>1. desired' = desired \/ desired' = [desired EXCEPT ![Svc(r)] = "false"]
        BY <3>6 DEF StopNoPid, StopSeesExit, StopKills, PersistStop, setDesired
      <4>. QED BY <1>2, <2>0, <4>1 DEF TypeOK
    <3>. QED BY <3>1, <3>4, <3>5, <3>6
  <2>3. CASE ManagerGone \/ \E x \in Reqs : Submit(x) \/ Boot(x) \/ CheckEnabled(x)
    BY <2>1, <2>3 DEF ManagerGone, Submit, Boot, CheckEnabled
  <2>. QED BY <1>2, <2>1, <2>2, <2>3, StepKinds
<1>3. IInv /\ RestoreRule /\ [Next]_vars =>
        [\A r \in Reqs \ overtaken, s \in Services :
           req[r].kind = "restore" /\ req'[r] # req[r] /\ desired[s] = "false"
           => desired'[s] = "false"]_vars
  BY <1>2
<1>4. IInv /\ RestoreRule /\ [Next]_vars => RestoreRule'
  BY RestoreRuleNext
<1>. QED BY <1>1, <1>3, <1>4, Inductive, PTL DEF Spec, RestoreActsOnItsLook


\* Only Start brings an instance to life.
LEMMA NoNewLife ==
  ASSUME TypeOK, [Next]_vars, \A r \in Reqs : ~ StartSpawn(r)
  PROVE  /\ svc' = svc /\ untracked \subseteq untracked'
         /\ late' = late \/ ManagerGone
         /\ \A p \in Pids : Live(p)' => Live(p)
<1>1. ASSUME NEW r \in Reqs, RequestStep(r) \/ Submit(r) \/ Boot(r)
      PROVE  /\ svc' = svc /\ untracked \subseteq untracked'
             /\ (life' = life /\ late' = late) \/ ManagerGone
             /\ \A p \in Pids : sent[p] = "kill" => sent'[p] = "kill"
  <2>1. CASE StopSignal(r)
    BY <2>1 DEF StopSignal, TypeOK
  <2>2. CASE StopKills(r)
    BY <2>2 DEF StopKills, TypeOK
  <2>3. CASE Exit(r)
    BY <2>3 DEF Exit, ManagerGone
  <2>4. CASE ~ (StopSignal(r) \/ StopKills(r) \/ Exit(r))
    BY <1>1, <2>4 DEF RequestStep, StartStep, StopStep, StartAlreadyRunning, StartEnter,
       StartRefused, StartWritePid, StartSettle, StopNoPid, StopSeesExit, CheckEnabled, Submit, Boot
  <2>. QED BY <2>1, <2>2, <2>3, <2>4
<1>2. ManagerGone => /\ svc' = svc /\ untracked \subseteq untracked' /\ sent' = sent
                     /\ \A p \in Pids : life'[p] = "alive" => life[p] = "alive"
  BY DEF ManagerGone, TypeOK
<1>3. ASSUME NEW p \in Pids, WaiterStep(p) \/ Die(p)
      PROVE  /\ svc' = svc /\ untracked' = untracked /\ sent' = sent /\ late' = late
             /\ \A q \in Pids : life'[q] = "alive" => life[q] = "alive"
  BY <1>3 DEF WaiterStep, WaiterReaps, WaiterRemovesPid, WaiterForgets, Die, TypeOK
<1>4. CASE UNCHANGED vars
  BY <1>4 DEF vars, Live
<1>5. CASE Crash
  BY <1>2, <1>5 DEF Crash, Live
<1>. QED BY <1>1, <1>2, <1>3, <1>4, <1>5 DEF Next, Live

LEMMA CleanStays ==
  ASSUME TypeOK, [Next]_vars, \A r \in Reqs : ~ StartSpawn(r), ~ ManagerGone,
         NEW s, Clean(s)
  PROVE  Clean(s)'
BY NoNewLife DEF Clean

\* An instance that a shutdown will not stop any more is counted as late.
LEMMA SpawnIsLate ==
  ASSUME IInv, ShutdownRule, NEW x \in Reqs, StartSpawn(x),
         NEW r \in Reqs, req[r].kind = "shutdown", NEW s \in Services
  PROVE  Clean(s)' \/ \E i \in 1..Len(Plan(r)) : Plan(r)[i] = On("stopKeep", s)
<1>0. TypeOK /\ SectionInv
  BY DEF IInv
<1> SUFFICES ASSUME \A i \in 1..Len(Plan(r)) : Plan(r)[i] # On("stopKeep", s)
             PROVE  Clean(s)'
  OBVIOUS
<1>1. Clean(s)
  BY DEF ShutdownRule
<1>2. Svc(x) \in Services
  BY <1>0, SectionType DEF StartSpawn, SectionInv
<1>3. PICK p \in Pids :
        /\ Free(p)
        /\ life' = [life EXCEPT ![p] = "alive"] /\ svc' = [svc EXCEPT ![p] = Svc(x)]
        /\ sent' = [sent EXCEPT ![p] = "none"] /\ untracked' = untracked
        /\ late' = IF Passed(Svc(x)) THEN late \cup {p} ELSE late \ {p}
  BY DEF StartSpawn
<1>4. ASSUME NEW q \in Pids, q # p, q \notin late', svc'[q] = s, s \notin untracked
      PROVE  ~ Live(q)'
  BY <1>0, <1>1, <1>3, <1>4 DEF Clean, Live, TypeOK
<1>5. CASE Svc(x) # s
  BY <1>0, <1>2, <1>3, <1>4, <1>5 DEF Clean, TypeOK
<1>6. CASE Svc(x) = s
  <2>1. ASSUME NEW i \in DOMAIN Plan(r) PROVE Plan(r)[i].svc # s
    <3>1. i \in 1..Len(Plan(r)) /\ Plan(r)[i] \in Sections
      BY <1>0, PlanFacts
    <3>2. Plan(r)[i].do = IF i = Len(Plan(r)) THEN "exit" ELSE "stopKeep"
      BY <3>1 DEF ShutdownRule
    <3>3. CASE Plan(r)[i].do = "exit"
      BY <3>1, <3>3, NoneAssumption DEF Sections
    <3>4. CASE Plan(r)[i].do = "stopKeep"
      <4>1. Plan(r)[i] = On("stopKeep", Plan(r)[i].svc)
        BY <3>1, <3>4 DEF Sections, On
      <4>. QED BY <3>1, <4>1
    <3>. QED BY <3>2, <3>3, <3>4
  <2>2. Passed(s)
    BY <2>1 DEF Passed, Plan
  <2>. QED BY <1>3, <1>4, <1>6, <2>2 DEF Clean
<1>. QED BY <1>5, <1>6

\* A plan without exit gets none.
LEMMA NoExitNext ==
  ASSUME IInv, ShutdownRule, [Next]_vars, NEW r \in Reqs,
         req'[r].kind # "shutdown", NEW i \in 1..Len(Plan(r)')
  PROVE  Plan(r)'[i].do # "exit"
<1>0. TypeOK
  BY DEF IInv
<1>1. CASE PlansStay
  BY <1>1 DEF PlansStay, ShutdownRule
<1>2. CASE ManagerGone
  BY <1>2, IdlePlan DEF ManagerGone, Plan
<1>3. ASSUME NEW x \in Reqs, x # r, Return(x) \/ CheckEnabled(x) \/ Submit(x) \/ Boot(x)
      PROVE  Plan(r)'[i].do # "exit"
  BY <1>0, <1>3, OthersStay DEF ShutdownRule
<1>4. ASSUME Return(r), Plan(r) # <<>> PROVE Plan(r)'[i].do # "exit"
  <2>2. req'[r] # Idle
    BY IdlePlan DEF Plan
  <2>3. req[r].kind # "shutdown" /\ i + 1 \in 1..Len(Plan(r)) /\ Plan(r)'[i] = Plan(r)[i + 1]
    BY <1>0, <1>4, <2>2, ReturnPlan
  <2>. QED BY <2>3 DEF ShutdownRule
<1>5. ASSUME CheckEnabled(r) PROVE Plan(r)'[i].do # "exit"
  <2>2. Plan(r) # <<>>
    BY <1>5 DEF CheckEnabled, AtSection, Plan
  <2>3. CASE Return(r)
    BY <1>4, <2>2, <2>3
  <2>4. CASE ~ Return(r)
    <3>1. CASE i = 1
      <4>1. Plan(r)'[1] = On("start", Svc(r))
        BY <1>0, <1>5, <2>4, CheckedPlan
      <4>. QED BY <3>1, <4>1 DEF On
    <3>2. CASE i # 1
      BY <1>0, <1>5, <2>4, <3>2, CheckedPlan DEF ShutdownRule
    <3>. QED BY <3>1, <3>2
  <2>. QED BY <2>3, <2>4
<1>6. ASSUME Submit(r) \/ Boot(r) PROVE Plan(r)'[i].do # "exit"
  <2>2. PICK kind, plan : /\ req' = [req EXCEPT ![r] = Begin(kind, plan)]
                          /\ kind = "shutdown" \/ plan = RestorePlan \/ plan \in UserPlans
    BY <1>6 DEF Submit, Boot
  <2>3. Plan(r)' = plan /\ req'[r].kind = kind
    BY <1>0, <2>2, BeginPlan
  <2>4. plan = RestorePlan \/ plan \in UserPlans
    BY <2>2, <2>3
  <2>5. i \in 1..Len(plan)
    BY <2>3
  <2>6. plan[i].do # "exit"
    BY <2>4, <2>5, FreshPlans
  <2>. QED BY <2>3, <2>6
<1>. QED BY <1>1, <1>2, <1>3, <1>4, <1>5, <1>6, StepKinds

LEMMA ShutdownRuleNext ==
  ASSUME IInv, IInv', ShutdownRule, [Next]_vars
  PROVE  ShutdownRule'
<1>0. TypeOK /\ SectionInv
  BY DEF IInv
<1> SUFFICES ASSUME NEW r \in Reqs, req'[r].kind = "shutdown"
             PROVE  /\ \A i \in 1..Len(Plan(r)') :
                         Plan(r)'[i].do = IF i = Len(Plan(r)') THEN "exit" ELSE "stopKeep"
                    /\ \A s \in Services :
                         Clean(s)' \/ \E i \in 1..Len(Plan(r)') : Plan(r)'[i] = On("stopKeep", s)
  BY NoExitNext DEF ShutdownRule
<1>1. ASSUME NEW x \in Reqs, StartSpawn(x)
      PROVE  /\ \A i \in 1..Len(Plan(r)') :
                  Plan(r)'[i].do = IF i = Len(Plan(r)') THEN "exit" ELSE "stopKeep"
             /\ \A s \in Services :
                  Clean(s)' \/ \E i \in 1..Len(Plan(r)') : Plan(r)'[i] = On("stopKeep", s)
  <2>1. PICK p \in Pids : Goto(x, "write", p)
    BY <1>1 DEF StartSpawn
  <2>2. PlansStay
    BY <1>0, <2>1, GotoStays DEF Steps
  <2>3. req[r].kind = "shutdown" /\ Plan(r)' = Plan(r)
    BY <2>2 DEF PlansStay
  <2>. QED BY <1>1, <2>3, SpawnIsLate DEF ShutdownRule
<1>2. CASE ManagerGone
  BY <1>2, IdlePlan DEF ManagerGone
<1> DEFINE Quiet == ~ ManagerGone /\ \A x \in Reqs : ~ StartSpawn(x)
<1>6. ASSUME Quiet, req'[r].kind = req[r].kind, Plan(r)' = Plan(r)
      PROVE  /\ \A i \in 1..Len(Plan(r)') :
                  Plan(r)'[i].do = IF i = Len(Plan(r)') THEN "exit" ELSE "stopKeep"
             /\ \A s \in Services :
                  Clean(s)' \/ \E i \in 1..Len(Plan(r)') : Plan(r)'[i] = On("stopKeep", s)
  <2>1. req[r].kind = "shutdown"
    BY <1>6
  <2>2. \A s \in Services : Clean(s) => Clean(s)'
    BY <1>0, <1>6, CleanStays
  <2>. QED BY <1>6, <2>1, <2>2 DEF ShutdownRule
<1>3. ASSUME Quiet, Return(r), Plan(r) # <<>>,
             \/ StartAlreadyRunning(r) \/ StartRefused(r) \/ StartSettle(r)
             \/ StopNoPid(r) \/ StopSeesExit(r) \/ StopKills(r)
      PROVE  /\ \A i \in 1..Len(Plan(r)') :
                  Plan(r)'[i].do = IF i = Len(Plan(r)') THEN "exit" ELSE "stopKeep"
             /\ \A s \in Services :
                  Clean(s)' \/ \E i \in 1..Len(Plan(r)') : Plan(r)'[i] = On("stopKeep", s)
  <2>2. req'[r] # Idle
    BY IdlePlan
  <2>3. /\ req[r].kind = "shutdown" /\ Len(Plan(r)) \in Nat /\ Len(Plan(r)') = Len(Plan(r)) - 1
        /\ Len(Plan(r)) > 0 /\ Head(Plan(r)) = Plan(r)[1]
        /\ \A i \in 1..Len(Plan(r)') : i + 1 \in 1..Len(Plan(r)) /\ Plan(r)'[i] = Plan(r)[i + 1]
    BY <1>0, <1>3, <2>2, ReturnPlan, PlanFacts
  <2>4. \A i \in 1..Len(Plan(r)') :
          Plan(r)'[i].do = IF i = Len(Plan(r)') THEN "exit" ELSE "stopKeep"
    <3> TAKE i \in 1..Len(Plan(r)')
    <3>1. i + 1 \in 1..Len(Plan(r)) /\ Plan(r)'[i] = Plan(r)[i + 1]
      BY <2>3
    <3>2. i + 1 = Len(Plan(r)) <=> i = Len(Plan(r)')
      BY <2>3
    <3>3. Plan(r)[i + 1].do = IF i + 1 = Len(Plan(r)) THEN "exit" ELSE "stopKeep"
      BY <2>3, <3>1 DEF ShutdownRule
    <3>. QED BY <3>1, <3>2, <3>3
  <2>5. ASSUME NEW s \in Services, Clean(s) PROVE Clean(s)'
    BY <1>0, <1>3, <2>5, CleanStays
  <2>6. ASSUME NEW s \in Services, Plan(r)[1] = On("stopKeep", s) PROVE Clean(s)'
    <3>1. Svc(r) = s /\ Head(req[r].plan).do = "stopKeep"
      <4>1. Head(Plan(r)) = On("stopKeep", s)
        BY <2>3, <2>6
      <4>. QED BY <4>1 DEF Svc, On, Plan
    <3>2. up /\ up'
      BY <1>3 DEF StartAlreadyRunning, StartRefused, StartSettle, StopNoPid, StopSeesExit,
         StopKills, AtSection
    <3>3. req'[r].pc = "ready" /\ req'[r] # req[r]
      <4>1. req'[r].pc = "ready"
        BY <1>0, <1>3, ReturnType DEF Plan
      <4>2. Plan(r)' # Plan(r)
        BY <2>3
      <4>. QED BY <4>1, <4>2 DEF Plan
    <3>4. svc' = svc /\ untracked \subseteq untracked'
      BY <1>0, <1>3, NoNewLife
    <3>5. s \in untracked \/ \A p \in Pids : svc[p] = s => ~Live(p)'
      BY <1>3, <3>1, <3>2, <3>3, SectionStops DEF Plan
    <3>. QED BY <3>4, <3>5 DEF Clean
  <2>7. ASSUME NEW s \in Services
        PROVE  Clean(s)' \/ \E i \in 1..Len(Plan(r)') : Plan(r)'[i] = On("stopKeep", s)
    <3>1. Clean(s) \/ \E i \in 1..Len(Plan(r)) : Plan(r)[i] = On("stopKeep", s)
      BY <2>3 DEF ShutdownRule
    <3>2. ASSUME NEW i \in 1..Len(Plan(r)), i # 1, Plan(r)[i] = On("stopKeep", s)
          PROVE  \E j \in 1..Len(Plan(r)') : Plan(r)'[j] = On("stopKeep", s)
      <4>1. i - 1 \in 1..Len(Plan(r)') /\ (i - 1) + 1 = i
        BY <2>3, <3>2
      <4>2. Plan(r)'[i - 1] = Plan(r)[i]
        BY <2>3, <4>1
      <4>. QED BY <3>2, <4>1, <4>2
    <3>. QED BY <2>5, <2>6, <3>1, <3>2
  <2>. QED BY <2>4, <2>7
<1>4. ASSUME CheckEnabled(r) PROVE FALSE
  <2>1. Plan(r) # <<>> /\ Head(Plan(r)).do = "startIfOn"
    BY <1>4 DEF CheckEnabled, AtSection, Plan
  <2>2. req[r].kind = "shutdown"
    <3>1. CASE Return(r)
      BY <1>0, <2>1, <3>1, ReturnPlan, IdlePlan
    <3>2. CASE ~ Return(r)
      BY <1>0, <1>4, <3>2, CheckedPlan
    <3>. QED BY <3>1, <3>2
  <2>3. Len(Plan(r)) \in Nat /\ 1 \in 1..Len(Plan(r)) /\ Plan(r)[1].do = "startIfOn"
    BY <1>0, <2>1, PlanFacts
  <2>. QED BY <2>2, <2>3 DEF ShutdownRule
<1>5. ASSUME Submit(r) \/ Boot(r)
      PROVE  /\ \A i \in 1..Len(Plan(r)') :
                  Plan(r)'[i].do = IF i = Len(Plan(r)') THEN "exit" ELSE "stopKeep"
             /\ \A s \in Services : \E i \in 1..Len(Plan(r)') : Plan(r)'[i] = On("stopKeep", s)
  <2>2. PICK kind, plan : /\ req' = [req EXCEPT ![r] = Begin(kind, plan)]
                          /\ kind = "shutdown" => plan = ShutdownPlan
    BY <1>5 DEF Submit, Boot
  <2>3. Plan(r)' = ShutdownPlan
    BY <1>0, <2>2, BeginPlan
  <2>4. \A i \in 1..Len(ShutdownPlan) :
          ShutdownPlan[i].do = IF i = Len(ShutdownPlan) THEN "exit" ELSE "stopKeep"
    <3> TAKE i \in 1..Len(ShutdownPlan)
    <3>1. On("exit", None).do = "exit" /\ \A s : On("stopKeep", s).do = "stopKeep"
      BY DEF On
    <3>2. i \in 1..Len(Order) \/ i = Len(Order) + 1
      BY FreshPlans
    <3>3. CASE i \in 1..Len(Order)
      <4>1. i # Len(ShutdownPlan) /\ ShutdownPlan[i] = On("stopKeep", Order[i])
        BY <3>3, FreshPlans
      <4>. QED BY <3>1, <4>1
    <3>4. CASE i = Len(Order) + 1
      BY <3>1, <3>4, FreshPlans
    <3>. QED BY <3>2, <3>3, <3>4
  <2>5. \A s \in Services : \E i \in 1..Len(ShutdownPlan) : ShutdownPlan[i] = On("stopKeep", s)
    <3> TAKE s \in Services
    <3>1. PICK i \in 1..Len(Order) : Order[i] = s
      BY CoverAssumption DEF OrderCovers
    <3>2. i \in 1..Len(ShutdownPlan) /\ ShutdownPlan[i] = On("stopKeep", s)
      <4>1. Len(ShutdownPlan) = Len(Order) + 1 /\ Len(Order) \in Nat
        BY FreshPlans
      <4>2. ShutdownPlan[i] = On("stopKeep", Order[i])
        BY FreshPlans
      <4>. QED BY <3>1, <4>1, <4>2
    <3>. QED BY <3>2
  <2>. QED BY <2>3, <2>4, <2>5
<1>7. ASSUME NEW x \in Reqs, x # r, Return(x) \/ CheckEnabled(x) \/ Submit(x) \/ Boot(x)
      PROVE  req'[r].kind = req[r].kind /\ Plan(r)' = Plan(r)
  BY <1>0, <1>7, OthersStay
<1>8. PlansStay => req'[r].kind = req[r].kind /\ Plan(r)' = Plan(r)
  BY DEF PlansStay
<1>9. CASE Quiet
  BY <1>3, <1>4, <1>5, <1>6, <1>7, <1>8, <1>9, StepKinds
<1>. QED BY <1>1, <1>2, <1>9

(* Whatever runs beside a shutdown, msf leaves no tracked child behind when it
   exits, except one forked after StopAll had passed its service
   (process.go:198-209, runtime_env.go:44-52, README.md:115). *)
THEOREM ShutdownLeavesOnlyLate == Spec => OnlyLateOutlive
<1>1. Init => ShutdownRule
  BY IdlePlan DEF Init, ShutdownRule, Plan
<1>2. ASSUME IInv, ShutdownRule, [Next]_vars,
             NEW r \in Reqs, AtSection(r, {"exit"}), ~ up',
             NEW p \in Pids \ late, svc[p] \notin untracked
      PROVE  ~ Live(p)'
  <2>1. TypeOK /\ ProcInv
    BY <1>2 DEF IInv
  <2>2. Plan(r) # <<>> /\ Head(Plan(r)).do = "exit" /\ up
    BY <1>2 DEF AtSection, Plan
  <2>3. Len(Plan(r)) \in Nat /\ 1 \in 1..Len(Plan(r)) /\ Plan(r)[1].do = "exit"
    BY <2>1, <2>2, PlanFacts
  <2>4. req[r].kind = "shutdown"
    BY <1>2, <2>3 DEF ShutdownRule
  <2>5. Len(Plan(r)) = 1
    BY <1>2, <2>3, <2>4 DEF ShutdownRule
  <2>6. \A s \in Services : Clean(s)
    <3>1. \A s \in Services : On("stopKeep", s).do # "exit"
      BY DEF On
    <3>. QED BY <1>2, <2>3, <2>4, <2>5, <3>1 DEF ShutdownRule
  <2>7. \A x \in Reqs : ~ StartSpawn(x)
    BY <2>2, <1>2 DEF StartSpawn
  <2>8. svc' = svc /\ untracked \subseteq untracked' /\ (Live(p)' => Live(p))
    BY <1>2, <2>1, <2>7, NoNewLife
  <2>9. Live(p) => svc[p] \in Services
    BY <2>1 DEF ProcInv, Live
  <2>. QED BY <1>2, <2>6, <2>8, <2>9 DEF Clean
<1>3. IInv /\ ShutdownRule /\ [Next]_vars =>
        [(\E r \in Reqs : AtSection(r, {"exit"})) /\ ~up'
           => \A p \in Pids \ late : svc[p] \notin untracked => ~Live(p)']_vars
  BY <1>2
<1>4. IInv /\ IInv' /\ ShutdownRule /\ [Next]_vars => ShutdownRule'
  BY ShutdownRuleNext
<1>. QED BY <1>1, <1>3, <1>4, Inductive, PTL DEF Spec, OnlyLateOutlive
=============================================================================
