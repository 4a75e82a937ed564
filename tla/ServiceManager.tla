--------------------------- MODULE ServiceManager ---------------------------
(***************************************************************************)
(* The manager of the MosDNS and Mihomo child processes                    *)
(* (internal/server/process.go) inside the msf process that owns it        *)
(* (cmd/msf/main.go serve).                                                *)
(*                                                                         *)
(* The actors are the goroutines of HTTP requests and of the start-up      *)
(* restore (Reqs), one waiter goroutine per child it started (one per      *)
(* pid), the children themselves and the manager process, which can exit   *)
(* or be killed and be started again.  They share the mutex sm.mu, the map *)
(* sm.procs, one PID file per service and the service.<name>.enabled       *)
(* settings.  The waiter removes the PID file WITHOUT the mutex, and       *)
(* Restart, StopAll and StartEnabled take the mutex once per section.      *)
(***************************************************************************)
EXTENDS Naturals, Sequences

CONSTANTS
  Services,        \* managed services
  Order,           \* the order batches, StopAll and StartEnabled go through
  Pids,            \* process ids the system hands out
  Reqs,            \* slots for goroutines that run a plan
  None,
  MaxBoots,        \* bound: how often the manager process is started
  PidWriteMayFail  \* whether the ignored os.WriteFile of a PID file can fail

ASSUME OrderAssumption == Order \in Seq(Services)
OrderCovers == \A s \in Services : \E i \in DOMAIN Order : Order[i] = s
ASSUME CoverAssumption == OrderCovers
ASSUME NoneAssumption == None \notin Services \cup Pids \cup Reqs
ASSUME BootsAssumption == MaxBoots \in Nat \ {0}
ASSUME WriteAssumption == PidWriteMayFail \in BOOLEAN

VARIABLES
  up,         \* the manager process runs
  boots,      \* how often it was started
  lock,       \* holder of sm.mu
  life,       \* state of the process with this pid
  svc,        \* the service that pid was last started for
  sent,       \* the strongest signal a stop sent to it
  waiter,     \* progress of the goroutine that waits for it
  pidFile,    \* content of data/<service>.pid
  procs,      \* sm.procs
  desired,    \* setting service.<name>.enabled
  req,        \* what each goroutine still has to do
  untracked,  \* history: services whose PID file missed an instance
  overtaken,  \* history: restores whose checked service was stopped since
  late        \* history: instances started after a shutdown had passed their
              \* service

vars == <<up, boots, lock, life, svc, sent, waiter, pidFile, procs, desired,
          req, untracked, overtaken, late>>

(***************************************************************************)
(* A request is a sequence of sections; "stop" persists the desired state  *)
(* and "stopKeep" does not; "startIfOn" is the check StartEnabled makes    *)
(* outside the mutex; "exit" ends the process.                             *)
(***************************************************************************)
Sections == [do : {"start", "stop", "stopKeep", "startIfOn"}, svc : Services]
              \cup [do : {"exit"}, svc : {None}]

On(do, s) == [do |-> do, svc |-> s]
ForAll(do) == [i \in DOMAIN Order |-> On(do, Order[i])]

StartPlan(s)   == << On("start", s) >>
StopPlan(s)    == << On("stop", s) >>
RestartPlan(s) == << On("stopKeep", s), On("start", s) >>
RestorePlan    == ForAll("startIfOn")
\* Mutant: StopAll leaves out the first service.
ShutdownPlanShort == Append(Tail(ForAll("stopKeep")), On("exit", None))
ShutdownPlan   == Append(ForAll("stopKeep"), On("exit", None))
RestartAllPlan == [i \in 1..(2 * Len(Order)) |->
                     On(IF i % 2 = 1 THEN "stopKeep" ELSE "start",
                        Order[(i + 1) \div 2])]

UserPlans ==
  { StartPlan(s) : s \in Services } \cup { StopPlan(s) : s \in Services }
    \cup { RestartPlan(s) : s \in Services }
    \cup { ForAll("start"), ForAll("stop"), RestartAllPlan }

Kinds == {"none", "user", "restore", "shutdown"}
Steps == {"ready", "spawn", "write", "settle", "poll"}
Locked == {"spawn", "write", "settle", "poll"}

ReqType ==
  [kind : Kinds, plan : Seq(Sections), pc : Steps, pid : Pids \cup {None}]

Begin(kind, plan) == [kind |-> kind, plan |-> plan, pc |-> "ready", pid |-> None]
Idle == Begin("none", <<>>)

TypeOK ==
  /\ up \in BOOLEAN
  /\ boots \in 0..MaxBoots
  /\ lock \in Reqs \cup {None}
  /\ life \in [Pids -> {"alive", "zombie", "gone"}]
  /\ svc \in [Pids -> Services \cup {None}]
  /\ sent \in [Pids -> {"none", "term", "kill"}]
  /\ waiter \in [Pids -> {"none", "wait", "remove", "forget"}]
  /\ pidFile \in [Services -> Pids \cup {None}]
  /\ procs \in [Services -> Pids \cup {None}]
  /\ desired \in [Services -> {"true", "false"}]
  /\ req \in [Reqs -> ReqType]
  /\ untracked \in SUBSET Services
  /\ overtaken \in SUBSET Reqs
  /\ late \in SUBSET Pids

Init ==
  /\ up = FALSE
  /\ boots = 0
  /\ lock = None
  /\ life = [p \in Pids |-> "gone"]
  /\ svc = [p \in Pids |-> None]
  /\ sent = [p \in Pids |-> "none"]
  /\ waiter = [p \in Pids |-> "none"]
  /\ pidFile = [s \in Services |-> None]
  /\ procs = [s \in Services |-> None]
  /\ desired \in [Services -> {"true", "false"}]
  /\ req = [r \in Reqs |-> Idle]
  /\ untracked = {} /\ overtaken = {} /\ late = {}

-----------------------------------------------------------------------------
(* Processes as the code sees them. *)

\* kill(pid, 0) succeeds for a zombie that nobody has waited for.
processAlive(p) == p # None /\ life[p] \in {"alive", "zombie"}

\* Status(s).Running: read the PID file, probe the process.
Running(s) == processAlive(pidFile[s])

\* p was forked by request r, which has not written the PID file yet.
InSpawn(p) == \E r \in Reqs : req[r].pc = "write" /\ req[r].pid = p

\* The running manager is the parent of p.
Parented(p) == waiter[p] = "wait" \/ InSpawn(p)

\* A goroutine that will still remove the PID file of s on behalf of q.
Pending(q, s) == svc[q] = s /\ waiter[q] \in {"wait", "remove"}

\* The system reuses a pid only once nothing refers to it.
Free(p) ==
  /\ life[p] = "gone"
  /\ waiter[p] = "none"
  /\ \A s \in Services : pidFile[s] # p /\ procs[s] # p
  /\ \A r \in Reqs : req[r].pid # p

-----------------------------------------------------------------------------
(* The sections of a request. *)

AtSection(r, do) ==
  /\ up
  /\ req[r].pc = "ready"
  /\ req[r].plan # <<>>
  /\ Head(req[r].plan).do \in do

Svc(r) == Head(req[r].plan).svc

Goto(r, pc, pid) ==
  req' = [req EXCEPT ![r] =
            [kind |-> @.kind, plan |-> @.plan, pc |-> pc, pid |-> pid]]

\* The section returns, with or without an error: every caller goes on.
Return(r) ==
  req' = [req EXCEPT ![r] =
            IF Len(req[r].plan) = 1
            THEN Idle
            ELSE Begin(req[r].kind, Tail(req[r].plan))]

setDesired(s, value) == desired' = [desired EXCEPT ![s] = value]

\* Start, with the service already running.
StartAlreadyRunning(r) ==
  /\ AtSection(r, {"start"})
  /\ lock = None
  /\ Running(Svc(r))
  /\ setDesired(Svc(r), "true")
  /\ Return(r)
  /\ overtaken' = overtaken \ {r}
  /\ UNCHANGED <<up, boots, lock, life, svc, sent, waiter, pidFile, procs,
                 untracked, late>>

\* Mutant: Start does not look whether the service runs already.
StartEnterBlind(r) ==
  /\ AtSection(r, {"start"})
  /\ lock = None
  /\ lock' = r
  /\ Goto(r, "spawn", None)
  /\ UNCHANGED <<up, boots, life, svc, sent, waiter, pidFile, procs, desired,
                 untracked, overtaken, late>>

StartEnter(r) ==
  /\ AtSection(r, {"start"})
  /\ lock = None
  /\ ~Running(Svc(r))
  /\ lock' = r
  /\ Goto(r, "spawn", None)
  /\ UNCHANGED <<up, boots, life, svc, sent, waiter, pidFile, procs, desired,
                 untracked, overtaken, late>>

\* Mutant: an early return that forgets to unlock sm.mu.
StartRefusedLocked(r) ==
  /\ up
  /\ req[r].pc = "spawn"
  /\ Return(r)
  /\ overtaken' = overtaken \ {r}
  /\ UNCHANGED <<up, boots, lock, life, svc, sent, waiter, pidFile, procs,
                 desired, untracked, late>>

\* No binary, port 53 taken, a log file that cannot be opened, a failed fork.
StartRefused(r) ==
  /\ up
  /\ req[r].pc = "spawn"
  /\ lock' = None
  /\ Return(r)
  /\ overtaken' = overtaken \ {r}
  /\ UNCHANGED <<up, boots, life, svc, sent, waiter, pidFile, procs, desired,
                 untracked, late>>

\* A shutdown under way has no section for s left.
Passed(s) ==
  \E q \in Reqs : /\ req[q].kind = "shutdown"
                  /\ \A i \in DOMAIN req[q].plan : req[q].plan[i].svc # s

StartSpawn(r) ==
  /\ up
  /\ req[r].pc = "spawn"
  /\ \E p \in Pids :
       /\ Free(p)
       /\ life' = [life EXCEPT ![p] = "alive"]
       /\ svc' = [svc EXCEPT ![p] = Svc(r)]
       /\ sent' = [sent EXCEPT ![p] = "none"]
       /\ procs' = [procs EXCEPT ![Svc(r)] = p]
       /\ late' = IF Passed(Svc(r)) THEN late \cup {p} ELSE late \ {p}
       /\ Goto(r, "write", p)
  /\ UNCHANGED <<up, boots, lock, waiter, pidFile, desired, untracked,
                 overtaken>>

\* Write the PID file, ignoring errors, and start the waiter goroutine.
StartWritePid(r) ==
  LET s == Svc(r)
      p == req[r].pid
      clobbers == \E q \in Pids : q # p /\ Pending(q, s)
  IN  /\ up
      /\ req[r].pc = "write"
      /\ waiter' = [waiter EXCEPT ![p] = "wait"]
      /\ \/ /\ pidFile' = [pidFile EXCEPT ![s] = p]
            /\ untracked' = IF clobbers THEN untracked \cup {s} ELSE untracked
         \/ /\ PidWriteMayFail
            /\ pidFile' \in {pidFile, [pidFile EXCEPT ![s] = None]}
            /\ untracked' = untracked \cup {s}
      /\ Goto(r, "settle", None)
      /\ UNCHANGED <<up, boots, lock, life, svc, sent, procs, desired,
                     overtaken, late>>

\* Status after the 300 ms sleep decides between success and "exited after
\* start"; only success is persisted.
StartSettle(r) ==
  /\ up
  /\ req[r].pc = "settle"
  /\ desired' = IF Running(Svc(r)) THEN [desired EXCEPT ![Svc(r)] = "true"]
                                   ELSE desired
  /\ lock' = None
  /\ Return(r)
  /\ overtaken' = overtaken \ {r}
  /\ UNCHANGED <<up, boots, life, svc, sent, waiter, pidFile, procs,
                 untracked, late>>

\* Restores that have read s as enabled and not started it yet.
StartsOnCheck(s) ==
  { q \in Reqs : /\ req[q].kind = "restore" /\ req[q].plan # <<>>
                 /\ Head(req[q].plan) = On("start", s) }

PersistStop(r) ==
  IF Head(req[r].plan).do = "stop"
  THEN /\ setDesired(Svc(r), "false")
       /\ overtaken' = overtaken \cup StartsOnCheck(Svc(r))
  ELSE UNCHANGED <<desired, overtaken>>

\* stop, without a PID in the file.
StopNoPid(r) ==
  /\ AtSection(r, {"stop", "stopKeep"})
  /\ lock = None
  /\ pidFile[Svc(r)] = None
  /\ PersistStop(r)
  /\ Return(r)
  /\ UNCHANGED <<up, boots, lock, life, svc, sent, waiter, pidFile, procs,
                 untracked, late>>

\* Mutant: stop does not take sm.mu.
StopSignalUnlocked(r) ==
  LET p == pidFile[Svc(r)]
  IN  /\ AtSection(r, {"stop", "stopKeep"})
      /\ p # None
      /\ sent' = [sent EXCEPT ![p] =
                    IF life[p] = "alive" /\ @ = "none" THEN "term" ELSE @]
      /\ Goto(r, "poll", p)
      /\ UNCHANGED <<up, boots, lock, life, svc, waiter, pidFile, procs,
                     desired, untracked, overtaken, late>>

StopSignal(r) ==
  LET p == pidFile[Svc(r)]
  IN  /\ AtSection(r, {"stop", "stopKeep"})
      /\ lock = None
      /\ p # None
      /\ sent' = [sent EXCEPT ![p] =
                    IF life[p] = "alive" /\ @ = "none" THEN "term" ELSE @]
      /\ lock' = r
      /\ Goto(r, "poll", p)
      /\ UNCHANGED <<up, boots, life, svc, waiter, pidFile, procs, desired,
                     untracked, overtaken, late>>

\* A poll within the 5 s finds the process gone.
StopSeesExit(r) ==
  /\ up
  /\ req[r].pc = "poll"
  /\ ~processAlive(req[r].pid)
  /\ pidFile' = [pidFile EXCEPT ![Svc(r)] = None]
  /\ PersistStop(r)
  /\ lock' = None
  /\ Return(r)
  /\ UNCHANGED <<up, boots, life, svc, sent, waiter, procs, untracked, late>>

\* Mutant: after the deadline stop forgets the child instead of killing it.
StopGivesUp(r) ==
  /\ up
  /\ req[r].pc = "poll"
  /\ pidFile' = [pidFile EXCEPT ![Svc(r)] = None]
  /\ PersistStop(r)
  /\ lock' = None
  /\ Return(r)
  /\ UNCHANGED <<up, boots, life, svc, sent, waiter, procs, untracked, late>>

\* The 5 s are over: SIGKILL, and return without waiting for the death.
StopKills(r) ==
  LET p == req[r].pid
  IN  /\ up
      /\ req[r].pc = "poll"
      /\ sent' = [sent EXCEPT ![p] = IF life[p] = "alive" THEN "kill" ELSE @]
      /\ pidFile' = [pidFile EXCEPT ![Svc(r)] = None]
      /\ PersistStop(r)
      /\ lock' = None
      /\ Return(r)
      /\ UNCHANGED <<up, boots, life, svc, waiter, procs, untracked, late>>

\* Mutant: the restore starts every service, whatever the setting says.
CheckEnabledAlways(r) ==
  /\ AtSection(r, {"startIfOn"})
  /\ req' = [req EXCEPT ![r].plan =
               << On("start", Svc(r)) >> \o Tail(req[r].plan)]
  /\ overtaken' = overtaken \ {r}
  /\ UNCHANGED <<up, boots, lock, life, svc, sent, waiter, pidFile, procs,
                 desired, untracked, late>>

\* StartEnabled reads the setting outside the mutex and only then calls Start.
CheckEnabled(r) ==
  /\ AtSection(r, {"startIfOn"})
  /\ IF desired[Svc(r)] = "true"
     THEN /\ req' = [req EXCEPT ![r].plan =
                       << On("start", Svc(r)) >> \o Tail(req[r].plan)]
          /\ overtaken' = overtaken \ {r}
     ELSE Return(r) /\ UNCHANGED overtaken
  /\ UNCHANGED <<up, boots, lock, life, svc, sent, waiter, pidFile, procs,
                 desired, untracked, late>>

-----------------------------------------------------------------------------
(* Children and their waiter goroutines. *)

\* A child exits, on its own or because of a signal; init reaps the orphans.
Die(p) ==
  /\ life[p] = "alive"
  /\ life' = [life EXCEPT ![p] = IF Parented(p) THEN "zombie" ELSE "gone"]
  /\ UNCHANGED <<up, boots, lock, svc, sent, waiter, pidFile, procs, desired,
                 req, untracked, overtaken, late>>

WaiterReaps(p) ==
  /\ waiter[p] = "wait"
  /\ life[p] = "zombie"
  /\ life' = [life EXCEPT ![p] = "gone"]
  /\ waiter' = [waiter EXCEPT ![p] = "remove"]
  /\ UNCHANGED <<up, boots, lock, svc, sent, pidFile, procs, desired, req,
                 untracked, overtaken, late>>

\* os.Remove of the PID file: no mutex, and no look at the pid in it.
WaiterRemovesPid(p) ==
  /\ waiter[p] = "remove"
  /\ pidFile' = [pidFile EXCEPT ![svc[p]] = None]
  /\ waiter' = [waiter EXCEPT ![p] = "forget"]
  /\ UNCHANGED <<up, boots, lock, life, svc, sent, procs, desired, req,
                 untracked, overtaken, late>>

WaiterForgets(p) ==
  /\ waiter[p] = "forget"
  /\ lock = None
  /\ procs' = [procs EXCEPT ![svc[p]] = None]
  /\ waiter' = [waiter EXCEPT ![p] = "none"]
  /\ UNCHANGED <<up, boots, lock, life, svc, sent, pidFile, desired, req,
                 untracked, overtaken, late>>

-----------------------------------------------------------------------------
(* The manager process. *)

Submit(r) ==
  /\ up
  /\ req[r] = Idle
  /\ req' \in { [req EXCEPT ![r] = Begin("user", plan)] : plan \in UserPlans }
       \cup { [req EXCEPT ![r] = Begin("restore", RestorePlan)],
              [req EXCEPT ![r] = Begin("shutdown", ShutdownPlan)] }
  /\ UNCHANGED <<up, boots, lock, life, svc, sent, waiter, pidFile, procs,
                 desired, untracked, overtaken, late>>

\* serve: the restore runs in a goroutine beside the HTTP server.
Boot(r) ==
  /\ ~up
  /\ boots < MaxBoots
  /\ up' = TRUE
  /\ boots' = boots + 1
  /\ req' = [req EXCEPT ![r] = Begin("restore", RestorePlan)]
  /\ UNCHANGED <<lock, life, svc, sent, waiter, pidFile, procs, desired,
                 untracked, overtaken, late>>

\* Mutant: the exiting manager also removes the PID files of its children.
ManagerGoneCleansUp ==
  /\ up' = FALSE
  /\ lock' = None
  /\ req' = [r \in Reqs |-> Idle]
  /\ waiter' = [p \in Pids |-> "none"]
  /\ procs' = [s \in Services |-> None]
  /\ life' = [p \in Pids |-> IF life[p] = "zombie" THEN "gone" ELSE life[p]]
  /\ pidFile' = [s \in Services |-> None]
  /\ untracked' = untracked \cup
       { s \in Services : \E p \in Pids : InSpawn(p) /\ svc[p] = s }
  /\ overtaken' = {} /\ late' = {}
  /\ UNCHANGED <<boots, svc, sent, desired>>

\* Goroutines, the mutex and sm.procs end with the process; children do not,
\* they have their own process group.
ManagerGone ==
  /\ up' = FALSE
  /\ lock' = None
  /\ req' = [r \in Reqs |-> Idle]
  /\ waiter' = [p \in Pids |-> "none"]
  /\ procs' = [s \in Services |-> None]
  /\ life' = [p \in Pids |-> IF life[p] = "zombie" THEN "gone" ELSE life[p]]
  /\ untracked' = untracked \cup
       { s \in Services : \E p \in Pids : InSpawn(p) /\ svc[p] = s }
  /\ overtaken' = {} /\ late' = {}
  /\ UNCHANGED <<boots, svc, sent, pidFile, desired>>

Exit(r) ==
  /\ AtSection(r, {"exit"})
  /\ ManagerGone

Crash ==
  /\ up
  /\ ManagerGone

-----------------------------------------------------------------------------
StartStep(r) ==
  \/ StartAlreadyRunning(r) \/ StartEnter(r) \/ StartRefused(r)
  \/ StartSpawn(r) \/ StartWritePid(r) \/ StartSettle(r)

StopStep(r) ==
  StopNoPid(r) \/ StopSignal(r) \/ StopSeesExit(r) \/ StopKills(r)

RequestStep(r) == StartStep(r) \/ StopStep(r) \/ CheckEnabled(r) \/ Exit(r)

WaiterStep(p) == WaiterReaps(p) \/ WaiterRemovesPid(p) \/ WaiterForgets(p)

Next ==
  \/ \E r \in Reqs : RequestStep(r) \/ Submit(r) \/ Boot(r)
  \/ \E p \in Pids : WaiterStep(p) \/ Die(p)
  \/ Crash

Spec == Init /\ [][Next]_vars

(***************************************************************************)
(* Fairness: goroutines run, sync.Mutex hands itself over in FIFO order    *)
(* once a waiter starves (strong fairness of the steps that take it), and  *)
(* the kernel carries SIGKILL out.  Nothing makes a child obey SIGTERM.    *)
(***************************************************************************)
Fairness ==
  /\ \A r \in Reqs : SF_vars(RequestStep(r))
  /\ \A p \in Pids : SF_vars(WaiterStep(p))
  /\ \A p \in Pids : WF_vars(sent[p] = "kill" /\ Die(p))

FairSpec == Spec /\ Fairness

-----------------------------------------------------------------------------
Live(p) == life[p] = "alive" /\ sent[p] # "kill"

(* process.go:110 "Stop/Restart owns shutdown through PID files and process
   signals".  Every live child that was not sent SIGKILL is the one its PID
   file names, so that Stop can reach it, as long as no waiter goroutine of an
   earlier instance, failed write of the PID file or crash between fork and
   write got in between (untracked). *)
StopCanReach ==
  \A p \in Pids :
    Live(p) /\ ~InSpawn(p) /\ svc[p] \notin untracked => pidFile[svc[p]] = p

(* The same without the exception: what the comment promises. *)
StopOwnsShutdown ==
  \A p \in Pids : up /\ Live(p) /\ ~InSpawn(p) => pidFile[svc[p]] = p

(* Concurrent starts, restarts and restores never leave two instances of one
   service running, under the same exception: the loser finds the winner's PID
   file. *)
OneInstance ==
  \A p, q \in Pids :
    Live(p) /\ Live(q) /\ svc[p] = svc[q] /\ svc[p] \notin untracked => p = q

(* When the stop section of a Stop, Restart or StopAll returns, no instance of
   the service runs any more, except one that has been sent SIGKILL. *)
StopMeansStopped ==
  [][\A r \in Reqs :
       /\ up /\ up'
       /\ req[r].plan # <<>> /\ Head(req[r].plan).do \in {"stop", "stopKeep"}
       /\ req'[r] # req[r] /\ req'[r].pc # "poll"
       /\ Svc(r) \notin untracked
       => \A p \in Pids : svc[p] = Svc(r) => ~Live(p)']_vars

(* README.md:163: a service the user stopped stays off when msf restores its
   state: no step of a restore turns a stored "false" into "true". *)
RestoreRespectsStop ==
  [][\A r \in Reqs, s \in Services :
       req[r].kind = "restore" /\ req'[r] # req[r] /\ desired[s] = "false"
       => desired'[s] = "false"]_vars

(* What the code does keep, whatever requests run beside the restore: it turns
   a service on only if the service was on when it looked, and then only a stop
   that came between the look and the start (process.go:214) is undone.  A stop
   before the look, or of another service, stands. *)
RestoreActsOnItsLook ==
  [][\A r \in Reqs \ overtaken, s \in Services :
       req[r].kind = "restore" /\ req'[r] # req[r] /\ desired[s] = "false"
       => desired'[s] = "false"]_vars

(* Whatever starts, stops and restores run beside a shutdown, the only tracked
   instances that outlive msf are those forked after StopAll had passed their
   service (process.go:198-209, runtime_env.go:44-52): not one that ran before,
   nor one forked while its service still lay ahead. *)
OnlyLateOutlive ==
  [][(\E r \in Reqs : AtSection(r, {"exit"})) /\ ~up'
     => \A p \in Pids \ late : svc[p] \notin untracked => ~Live(p)']_vars

(* README.md:115: msf stops the children it hosts before it exits. *)
ShutdownStopsChildren ==
  [][(\E r \in Reqs : AtSection(r, {"exit"})) /\ ~up'
     => \A p \in Pids : svc[p] \notin untracked => ~Live(p)']_vars

(* No request waits forever on sm.mu: every handler returns. *)
RequestsReturn == \A r \in Reqs : req[r] # Idle ~> req[r] = Idle

(* A child that Stop has begun to stop is gone in the end, whether or not it
   obeys SIGTERM, unless the manager dies before it escalates. *)
StoppedChildDies ==
  \A p \in Pids : sent[p] # "none" ~> (life[p] # "alive" \/ ~up)

-----------------------------------------------------------------------------
(***************************************************************************)
(* The inductive invariant behind StopCanReach: what each goroutine may    *)
(* rely on at each step although waiters and children move meanwhile.      *)
(***************************************************************************)

\* sm.mu is held by exactly the request that is inside a section.
LockInv == \A r \in Reqs : req[r].pc \in Locked <=> lock = r

SectionInv ==
  \A r \in Reqs :
    /\ req[r].pc \in {"spawn", "write", "settle"} =>
         req[r].plan # <<>> /\ Head(req[r].plan).do = "start"
    /\ req[r].pc = "poll" =>
         req[r].plan # <<>> /\ Head(req[r].plan).do \in {"stop", "stopKeep"}

\* Nothing of a manager survives it.
DownInv ==
  ~up => /\ \A r \in Reqs : req[r] = Idle
         /\ \A p \in Pids : waiter[p] = "none"

FileInv == \A s \in Services : pidFile[s] # None => svc[pidFile[s]] = s

ProcInv ==
  \A p \in Pids :
    /\ life[p] # "gone" \/ waiter[p] # "none" => svc[p] \in Services
    /\ waiter[p] = "wait" => life[p] # "gone"
    /\ waiter[p] \in {"remove", "forget"} => life[p] = "gone"

\* Between the check and the write nobody else makes the service run.
SpawnInv ==
  \A r \in Reqs :
    /\ req[r].pc \in {"spawn", "write"} => ~Running(Svc(r))
    /\ req[r].pc = "write" =>
         /\ req[r].pid \in Pids
         /\ svc[req[r].pid] = Svc(r)
         /\ life[req[r].pid] # "gone"
         /\ waiter[req[r].pid] = "none"

PollInv ==
  \A r \in Reqs :
    req[r].pc = "poll" =>
      /\ req[r].pid \in Pids
      /\ pidFile[Svc(r)] \in {None, req[r].pid}

\* While an instance is tracked no older waiter can take its PID file away.
NoStaleWaiter ==
  \A p, q \in Pids :
    /\ p # q
    /\ Live(p) /\ ~InSpawn(p) /\ svc[p] \notin untracked
    => ~Pending(q, svc[p])

IInv ==
  /\ TypeOK /\ LockInv /\ SectionInv /\ DownInv /\ FileInv /\ ProcInv
  /\ SpawnInv /\ PollInv /\ StopCanReach /\ NoStaleWaiter

=============================================================================
