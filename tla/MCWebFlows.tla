------------------------------ MODULE MCWebFlows ------------------------------
(***************************************************************************)
(* The parts of the web interface that must get somewhere: the session of  *)
(* two tabs, the setup wizard, and the proxies page that refreshes itself. *)
(* A behaviour is one of the three, the others stand still.                *)
(***************************************************************************)
EXTENDS WebSession, SetupWizard, ProxyConsole, TLC

CONSTANTS t1, t2, s1, s2

VARIABLE shown

\* The first tab has two calls in flight, the second one.
MCSlotsOf == (t1 :> {s1, s2}) @@ (t2 :> {s1})

On(k) == shown = k

\* Names differ in nothing but their owner: the first to log in is always the same.
FirstName == owner[1] \in {NoUser, CHOOSE n \in Names : TRUE}

\* The proxies page with the state of the core on it, and no timer.
ProxyAtRest ==
  /\ now = [node |-> NoTask.node, mode |-> NoTask.mode]
  /\ proxies = [node |-> now.node, mode |-> now.mode, auto |-> FALSE, loading |-> FALSE]
  /\ task = [s \in ProxySlots |-> NoTask] /\ upsets = [failed |-> 0, others |-> 0]

FlowsInit ==
  /\ shown \in 1..3
  /\ On(1) \/ (ready = FALSE /\ writer = t1)
  /\ On(2) \/ gone = {}
  /\ Init /\ SetupInit
  /\ IF On(3) THEN ProxyInit ELSE ProxyAtRest

FlowsNext ==
  /\ UNCHANGED shown
  /\ \/ On(1) /\ Next /\ FirstName'
     \/ On(2) /\ SetupNext
     \/ On(3) /\ ProxyNext
  /\ IF On(1) THEN TRUE ELSE UNCHANGED vars
  /\ IF On(2) THEN TRUE ELSE UNCHANGED wvars
  /\ IF On(3) THEN TRUE ELSE UNCHANGED pvars

\* The fairness of the three modules, each for its own behaviours.
FlowsFairness ==
  /\ \A t \in Tabs : WF_vars(On(1) /\ \E s \in SlotsOf[t] : Polls(t, s))
  /\ \A f \in Flows : WF_wvars(On(2) /\ FlowStep(f))
  /\ \A s \in ProxySlots : WF_pvars(On(3) /\ (LoadStep(s) \/ CallStep(s)))

FlowsSpec ==
  FlowsInit /\ [][FlowsNext]_<<shown, vars, wvars, pvars>> /\ FlowsFairness

FlowsTypeOK == TypeOK /\ SetupTypeOK /\ ProxyTypeOK
===============================================================================
