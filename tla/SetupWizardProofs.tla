-------------------------- MODULE SetupWizardProofs ---------------------------
(***************************************************************************)
(* Proofs about SetupWizard: one flow at a time, which sends what was      *)
(* validated and activates what is installed, for any set of components,   *)
(* slots for flows, mistakes and states of the host.                       *)
(*                                                                         *)
(* The buttons look at downloadStatus and busy alone, so the invariant says*)
(* what a running flow keeps there, by the point it has reached; and, once *)
(* the page was left under a running flow, that the login page does not    *)
(* bring a new one back before the flow ends.  SetupIInv joins it with the *)
(* types and with the lists of components a flow walks through.            *)
(***************************************************************************)
EXTENDS SetupWizard, TLAPS

Typed ==
  /\ init \in BOOLEAN /\ gone \subseteq Comps
  /\ ctx \in [loading : BOOLEAN, initialized : BOOLEAN, recovery : BOOLEAN,
              missing : SUBSET Comps, user : {NoUser}]
  /\ boot \in {"idle", "sent", "ready", "unset"} /\ seen \subseteq Comps
  /\ wiz \in Page
  /\ flow \in [Flows -> Flow]

StatusIn(states) == wiz.status \in states
Busy == wiz.busy \/ StatusIn({"running", "completed"})
Downloads == {"account", "system", "stream", "cut"}

FlowOK(f) ==
  /\ flow[f].at \in {"preflight", "initialize", "initialized"} => flow[f].issues = {}
  /\ flow[f].at \in Downloads \cup {"initialized"} => init /\ gone \subseteq flow[f].todo
  /\ At(f, "activate") \/ (At(f, "check") /\ flow[f].sure) => init /\ gone = {}
  /\ flow[f].at # "idle" /\ wiz.route = "/login" => boot = "idle" /\ ctx.initialized
  /\ flow[f].at # "idle" /\ wiz.route = "/setup" => Busy
  /\ flow[f].at \in Downloads \cup {"activate"} /\ wiz.route = "/setup" =>
       StatusIn({"running", "completed"})

\* What the page shows of the components is no better than they are, and what
\* it would download again is all that is missing.
PageOK ==
  /\ wiz.route = "/setup" => \A c \in Comps : wiz.item[c] \in {"completed", "skipped"} => c \notin gone
  /\ wiz.route = "/setup" /\ wiz.status # "idle" => init /\ gone \subseteq Again
  /\ boot = "ready" => init /\ gone \subseteq seen

WizardIInv == Typed /\ FlowsAlone /\ (\A f \in Flows : FlowOK(f)) /\ PageOK

\* A flow that downloads has something to download, and the page shows a list:
\* every stream is that of a component.
HasWork(q) == q.at \in Downloads \cup {"initialized"} => q.todo # {}
ShowsList(p) ==
  p.route = "/setup" /\ p.status # "idle" => \E c \in Comps : p.item[c] # "absent"
ListOK == (\A f \in Flows : HasWork(flow[f])) /\ ShowsList(wiz)

SetupIInv == WizardIInv /\ SetupTypeOK /\ ListOK

-----------------------------------------------------------------------------

LEMMA NoFlowTyped == NoFlow \in Flow /\ NoFlow.at = "idle"
BY DEF NoFlow, Flow, Points

LEMMA ListedTyped ==
  ASSUME NEW list
  PROVE  /\ Listed(list) \in [Comps -> Outcome]
         /\ \A c \in Comps : Listed(list)[c] \notin {"completed", "skipped"}
         /\ \A c \in Comps : c \in list => Listed(list)[c] # "absent"
BY DEF Listed, Outcome

LEMMA FreshTyped ==
  /\ FreshPage \in Page /\ FreshPage.status = "idle" /\ FreshPage.route = "/setup"
  /\ LeftPage \in Page /\ LeftPage.route = "/login"
  /\ \A c \in Comps : FreshPage.item[c] \notin {"completed", "skipped"}
<1>1. Listed({}) \in [Comps -> Outcome] BY ListedTyped
<1>2. FreshPage \in Page BY <1>1 DEF FreshPage, Page, LastStep, Preflights
<1>3. FreshPage.status = "idle" /\ FreshPage.route = "/setup" /\ FreshPage.item = Listed({})
  BY DEF FreshPage
<1>4. LeftPage \in Page /\ LeftPage.route = "/login" BY <1>2 DEF LeftPage, Page
<1> QED BY <1>2, <1>3, <1>4, ListedTyped

\* The download view.
LEMMA HiddenTyped ==
  ASSUME NEW p \in Page
  PROVE  /\ Hidden(p) \in Page /\ Hidden(p).route = p.route /\ Hidden(p).status = p.status
         /\ Hidden(p).busy = p.busy /\ Hidden(p).item = p.item
<1>1. LastStep \in 0..LastStep /\ 0 \in 0..LastStep BY DEF LastStep
<1>2. {} \in SUBSET {1, 2, 3} OBVIOUS
<1>3. Hidden(p) = [p EXCEPT !.step = LastStep, !.alert = 0, !.issues = {}, !.checked = "none",
                            !.checking = FALSE, !.accepted = FALSE]
  BY DEF Hidden
<1> QED BY <1>1, <1>2, <1>3 DEF Page

\* The flow that runs, or the first one, moves: the others stay idle.
LEMMA OneMoves ==
  ASSUME WizardIInv, NEW f \in Flows, NEW q \in Flow,
         flow' = [flow EXCEPT ![f] = q],
         flow[f].at # "idle" \/ \A g \in Flows : flow[g].at = "idle",
         Typed', FlowOK(f)', PageOK'
  PROVE  WizardIInv'
<1>1. flow \in [Flows -> Flow] BY DEF WizardIInv, Typed
<1>2. \A g \in Flows \ {f} : flow[g].at = "idle" BY DEF WizardIInv, FlowsAlone
<1>3. \A g \in Flows \ {f} : flow'[g].at = "idle" BY <1>1, <1>2
<1>4. FlowsAlone' BY <1>3 DEF FlowsAlone
<1>5. \A g \in Flows \ {f} : FlowOK(g)' BY <1>3 DEF FlowOK, At, Downloads
<1> QED BY <1>4, <1>5 DEF WizardIInv

\* The flow that ends leaves none.
LEMMA OneEnds ==
  ASSUME WizardIInv, NEW f \in Flows, flow[f].at # "idle", flow' = Done(f), Typed', PageOK'
  PROVE  WizardIInv'
<1>1. flow' = [flow EXCEPT ![f] = NoFlow] BY DEF Done
<1>2. flow'[f] = NoFlow BY <1>1 DEF WizardIInv, Typed
<1>3. FlowOK(f)' BY <1>2, NoFlowTyped DEF FlowOK, At, Downloads
<1> QED BY <1>1, <1>3, NoFlowTyped, OneMoves

\* The form changes, or the server: the flows see nothing of it.
LEMMA NoneMoves ==
  ASSUME WizardIInv, UNCHANGED <<flow, ctx, boot, seen, init>>,
         gone' \subseteq gone, wiz' \in Page,
         wiz'.route = wiz.route, wiz'.status = wiz.status, wiz'.busy = wiz.busy, wiz'.item = wiz.item
  PROVE  WizardIInv'
<1>1. Typed' BY DEF WizardIInv, Typed
<1>2. FlowsAlone' BY DEF WizardIInv, FlowsAlone
<1>3. ASSUME NEW f \in Flows PROVE FlowOK(f)'
  <2>1. FlowOK(f) BY DEF WizardIInv
  <2> QED BY <2>1 DEF FlowOK, At, Busy, StatusIn
<1>4. PageOK' BY DEF WizardIInv, PageOK, Again
<1> QED BY <1>1, <1>2, <1>3, <1>4 DEF WizardIInv

-----------------------------------------------------------------------------
(* The form.                                                               *)

\* A page whose fields alone changed.
LEMMA FieldsTyped ==
  ASSUME NEW p \in Page, NEW k \in 0..LastStep, NEW a \in 0..LastStep, NEW iss \in SUBSET {1, 2, 3},
         NEW ch \in BOOLEAN, NEW r \in Preflights \cup {"none"}, NEW ac \in BOOLEAN
  PROVE  LET q == [p EXCEPT !.step = k, !.alert = a, !.issues = iss, !.checking = ch,
                            !.checked = r, !.accepted = ac]
         IN q \in Page /\ q.route = p.route /\ q.status = p.status /\ q.busy = p.busy /\ q.item = p.item
BY DEF Page

LEMMA IssueFound ==
  ASSUME NEW S \in SUBSET {1, 2, 3}, S # {}
  PROVE  (CHOOSE k \in S : \A j \in S : k <= j) \in 0..LastStep
<1>1. \E k \in S : \A j \in S : k <= j
  <2>1. CASE 1 \in S BY <2>1
  <2>2. CASE 1 \notin S /\ 2 \in S BY <2>2
  <2>3. CASE 1 \notin S /\ 2 \notin S
    <3>1. S = {3} BY <2>3
    <3> QED BY <3>1
  <2> QED BY <2>1, <2>2, <2>3
<1>2. (CHOOSE k \in S : \A j \in S : k <= j) \in S BY <1>1
<1>3. \A k \in {1, 2, 3} : k \in 0..LastStep BY DEF LastStep
<1> QED BY <1>2, <1>3

\* The result of a check of the host.
LEMMA CheckedTyped ==
  ASSUME NEW p \in Page, NEW r \in HostStates
  PROVE  LET q == Checked(p, r)
         IN q \in Page /\ q.route = p.route /\ q.status = p.status /\ q.busy = p.busy /\ q.item = p.item
<1>1. r \in Preflights \cup {"none"} BY HostAssumption
<1> DEFINE ac == p.accepted /\ Occupied(r)
<1>2. ac \in BOOLEAN BY DEF Page, Occupied
<1>3. Checked(p, r) = [p EXCEPT !.checking = FALSE, !.checked = r, !.accepted = ac]
  BY DEF Checked
<1> HIDE DEF ac
<1> QED BY <1>1, <1>2, <1>3 DEF Page

LEMMA FormSteps == ASSUME WizardIInv, FormStep PROVE WizardIInv'
<1>1. wiz \in Page BY DEF WizardIInv, Typed
<1> DEFINE same == /\ wiz' \in Page /\ wiz'.route = wiz.route /\ wiz'.status = wiz.status
                   /\ wiz'.busy = wiz.busy /\ wiz'.item = wiz.item
<1>2. UNCHANGED <<flow, ctx, boot, seen, init, gone>>
  BY DEF FormStep, Go, EditAccount, EditSystem, Recheck, Accept, GoToIssue, CompleteRefused,
         InterfacesReturn, CheckArrives, svars
<1>3. CASE \E k \in 0..LastStep : Go(k)
  <2>1. PICK k \in 0..LastStep : Go(k) BY <1>3
  <2>2. ASSUME wiz' = [wiz EXCEPT !.step = k, !.checking = TRUE] PROVE same BY <1>1, <2>2 DEF Page
  <2>3. ASSUME wiz' = [wiz EXCEPT !.step = k] PROVE same BY <1>1, <2>3 DEF Page
  <2>4. wiz' = [wiz EXCEPT !.step = k, !.checking = TRUE] \/ wiz' = [wiz EXCEPT !.step = k]
    BY <2>1 DEF Go
  <2>5. same BY <2>2, <2>3, <2>4
  <2> QED BY <1>2, <2>5, NoneMoves
<1>4. CASE EditAccount
  <2>1. PICK w \in SUBSET (Mistakes \cap {1}) : wiz' = [wiz EXCEPT !.issues = (@ \ {1}) \cup w]
    BY <1>4 DEF EditAccount
  <2>2. (wiz.issues \ {1}) \cup w \in SUBSET {1, 2, 3} BY <1>1 DEF Page
  <2>3. same BY <1>1, <2>1, <2>2 DEF Page
  <2> QED BY <1>2, <2>3, NoneMoves
<1>5. CASE EditSystem
  <2>1. ASSUME \E w \in SUBSET (Mistakes \cap {2}) : wiz' = [wiz EXCEPT !.issues = (@ \ {2}) \cup w]
       PROVE  same
    <3>1. PICK w \in SUBSET (Mistakes \cap {2}) : wiz' = [wiz EXCEPT !.issues = (@ \ {2}) \cup w]
      BY <2>1
    <3>2. (wiz.issues \ {2}) \cup w \in SUBSET {1, 2, 3} BY <1>1 DEF Page
    <3> QED BY <1>1, <3>1, <3>2 DEF Page
  <2>2. ASSUME wiz' = [wiz EXCEPT !.checked = "none", !.accepted = FALSE] PROVE same BY <1>1, <2>2 DEF Page
  <2>3. same BY <1>5, <2>1, <2>2 DEF EditSystem
  <2> QED BY <1>2, <2>3, NoneMoves
<1>6. CASE Recheck
  <2>1. same BY <1>1, <1>6 DEF Recheck, Page
  <2> QED BY <1>2, <2>1, NoneMoves
<1>7. CASE Accept
  <2>1. wiz' = [wiz EXCEPT !.accepted = ~wiz.accepted] BY <1>7 DEF Accept
  <2>2. (~wiz.accepted) \in BOOLEAN OBVIOUS
  <2>3. same BY <1>1, <2>1, <2>2 DEF Page
  <2> QED BY <1>2, <2>3, NoneMoves
<1>8. CASE GoToIssue
  <2>1. wiz.alert \in 0..LastStep /\ 0 \in 0..LastStep BY <1>1 DEF Page, LastStep
  <2>2. same BY <1>1, <1>8, <2>1 DEF GoToIssue, Page
  <2> QED BY <1>2, <2>2, NoneMoves
<1>9. CASE CompleteRefused
  <2> DEFINE k == CHOOSE k \in wiz.issues : \A j \in wiz.issues : k <= j
  <2>1. k \in 0..LastStep BY <1>1, <1>9, IssueFound DEF CompleteRefused, Page
  <2>2. wiz' = [wiz EXCEPT !.alert = k] BY <1>9 DEF CompleteRefused
  <2> HIDE DEF k
  <2>3. same BY <1>1, <2>1, <2>2 DEF Page
  <2> QED BY <1>2, <2>3, NoneMoves
<1>10. CASE InterfacesReturn
  <2>1. wiz.issues \ {3} \in SUBSET {1, 2, 3} BY <1>1 DEF Page
  <2>2. same BY <1>1, <1>10, <2>1 DEF InterfacesReturn, Page
  <2> QED BY <1>2, <2>2, NoneMoves
<1>11. CASE CheckArrives
  <2>1. ASSUME wiz' = wiz PROVE same BY <1>1, <2>1
  <2>2. ASSUME \E r \in HostStates : wiz' = Checked(wiz, r) PROVE same BY <1>1, <2>2, CheckedTyped
  <2>3. ASSUME wiz' = [wiz EXCEPT !.checking = FALSE] PROVE same BY <1>1, <2>3 DEF Page
  <2>4. same BY <1>11, <2>1, <2>2, <2>3 DEF CheckArrives
  <2> QED BY <1>2, <2>4, NoneMoves
<1> QED BY <1>3, <1>4, <1>5, <1>6, <1>7, <1>8, <1>9, <1>10, <1>11 DEF FormStep
-----------------------------------------------------------------------------
(* Loading.                                                                *)

\* No flow is left.
LEMMA NoneRuns ==
  ASSUME Typed', PageOK', \A g \in Flows : flow'[g].at = "idle"
  PROVE  WizardIInv'
<1>1. FlowsAlone' BY DEF FlowsAlone
<1>2. \A g \in Flows : FlowOK(g)' BY DEF FlowOK, At, Downloads
<1> QED BY <1>1, <1>2 DEF WizardIInv

LEMMA ContextTyped ==
  /\ FreshContext \in [loading : BOOLEAN, initialized : BOOLEAN, recovery : BOOLEAN,
                        missing : SUBSET Comps, user : {NoUser}]
  /\ ~FreshContext.initialized
BY DEF FreshContext

LEMMA InitSafe == SetupInit => WizardIInv
<1> SUFFICES ASSUME SetupInit PROVE WizardIInv OBVIOUS
<1>1. Typed BY FreshTyped, NoFlowTyped, ContextTyped DEF SetupInit, Typed
<1>2. \A f \in Flows : flow[f].at = "idle" BY NoFlowTyped DEF SetupInit
<1>3. PageOK BY FreshTyped DEF SetupInit, PageOK
<1>4. FlowsAlone BY <1>2 DEF FlowsAlone
<1>5. \A f \in Flows : FlowOK(f) BY <1>2 DEF FlowOK, At, Downloads
<1> QED BY <1>1, <1>3, <1>4, <1>5 DEF WizardIInv

LEMMA ReloadSafe == ASSUME WizardIInv, Reload PROVE WizardIInv'
<1>1. wiz' = FreshPage /\ boot' = "sent" /\ seen' = {} /\ gone' = gone /\ init' \in {init, TRUE}
  BY DEF Reload
<1>2. flow' = [f \in Flows |-> NoFlow] BY DEF Reload
<1>3. ctx' = [FreshContext EXCEPT !.loading = TRUE] BY DEF Reload, RefreshStarts
<1>4. Typed' BY <1>1, <1>2, <1>3, FreshTyped, NoFlowTyped, ContextTyped DEF WizardIInv, Typed
<1>5. PageOK' BY <1>1, FreshTyped DEF PageOK
<1> QED BY <1>2, <1>4, <1>5, NoFlowTyped, NoneRuns

LEMMA ServeBootSafe == ASSUME WizardIInv, ServeBoot PROVE WizardIInv'
<1>1. UNCHANGED <<init, gone, work, ctx, wiz, flow>> BY DEF ServeBoot, svars
<1>2. boot = "sent" /\ boot' \in {"ready", "unset"} /\ (boot' = "ready" => init)
  BY DEF ServeBoot
<1>3. seen' \in {gone, {}} /\ (boot' = "ready" => seen' = gone) BY DEF ServeBoot
<1>4. Typed' BY <1>1, <1>2, <1>3 DEF WizardIInv, Typed
<1>5. PageOK' BY <1>1, <1>2, <1>3 DEF WizardIInv, PageOK, Again
<1>6. FlowsAlone' BY <1>1 DEF WizardIInv, FlowsAlone
<1>7. ASSUME NEW f \in Flows PROVE FlowOK(f)'
  <2>1. FlowOK(f) BY DEF WizardIInv
  <2> QED BY <1>1, <1>2, <2>1 DEF FlowOK, At, Busy, StatusIn
<1> QED BY <1>4, <1>5, <1>6, <1>7 DEF WizardIInv

\* The recovery view replaces a form, although a flow may have started from it.
LEMMA RecoversTyped ==
  ASSUME NEW p \in Page, NEW list \in SUBSET Comps
  PROVE  LET q == [Hidden(p) EXCEPT !.status = "failed", !.item = Listed(ToDownload(list))]
         IN /\ q \in Page /\ q.route = p.route /\ q.status = "failed" /\ q.busy = p.busy
            /\ \A c \in Comps : q.item[c] \notin {"completed", "skipped"}
            /\ list \subseteq { c \in Comps : q.item[c] # "absent" }
<1> DEFINE it == Listed(ToDownload(list))
           q  == [Hidden(p) EXCEPT !.status = "failed", !.item = it]
<1>1. it \in [Comps -> Outcome] /\ \A c \in Comps : it[c] \notin {"completed", "skipped"}
  BY ListedTyped
<1>2. \A c \in Comps : c \in ToDownload(list) => it[c] # "absent" BY ListedTyped
<1>3. list \subseteq ToDownload(list) BY DEF ToDownload
<1>4. Hidden(p) \in Page /\ Hidden(p).route = p.route /\ Hidden(p).busy = p.busy BY HiddenTyped
<1> HIDE DEF it
<1>5. q \in Page /\ q.route = p.route /\ q.status = "failed" /\ q.busy = p.busy /\ q.item = it
  BY <1>1, <1>4 DEF Page
<1> HIDE DEF q
<1>6. list \subseteq { c \in Comps : q.item[c] # "absent" } BY <1>2, <1>3, <1>5
<1> QED BY <1>1, <1>5, <1>6 DEF it, q

LEMMA BootReturnsSafe == ASSUME WizardIInv, BootReturns PROVE WizardIInv'
<1>1. UNCHANGED <<init, gone, work, flow>> /\ boot # "idle" /\ boot' = "idle" /\ seen' = {}
  BY DEF BootReturns, svars
<1>2. wiz' = Effects(ctx', wiz) BY DEF BootReturns
<1>3. /\ ctx' \in [loading : BOOLEAN, initialized : BOOLEAN, recovery : BOOLEAN,
                   missing : SUBSET Comps, user : {NoUser}]
      /\ ctx'.initialized => boot = "ready" /\ ctx'.missing = seen
  <2>0. ctx \in [loading : BOOLEAN, initialized : BOOLEAN, recovery : BOOLEAN,
                 missing : SUBSET Comps, user : {NoUser}] /\ seen \in SUBSET Comps
    BY DEF WizardIInv, Typed
  <2>1. CASE boot \in {"ready", "unset"} /\ ctx' = RefreshEnds(CheckKnown(ctx, boot = "ready", seen), NoUser)
    <3> DEFINE ready == boot = "ready"
               mis   == IF ready THEN seen ELSE {}
               rec   == ready /\ seen # {}
    <3>1. ready \in BOOLEAN /\ rec \in BOOLEAN /\ mis \in SUBSET Comps /\ (ready => mis = seen)
      BY <2>0
    <3>2. ctx' = [ctx EXCEPT !.initialized = ready, !.recovery = rec, !.missing = mis,
                             !.user = NoUser, !.loading = FALSE]
      BY <2>0, <2>1 DEF RefreshEnds, CheckKnown
    <3>3. ready => boot = "ready" OBVIOUS
    <3> HIDE DEF ready, mis, rec
    <3> QED BY <2>0, <3>1, <3>2, <3>3
  <2>2. CASE ctx' = RefreshFails(ctx) BY <2>2, ContextTyped DEF RefreshFails
  <2> QED BY <2>1, <2>2 DEF BootReturns
<1>4. wiz \in Page BY DEF WizardIInv, Typed
<1>5. CASE wiz.route # "/setup" \/ LeaveSetup(ctx') # "/setup"
  <2>1. wiz' = LeftPage BY <1>2, <1>5 DEF Effects
  <2>2. Typed' BY <1>1, <1>3, <2>1, FreshTyped DEF WizardIInv, Typed
  <2>3. PageOK' BY <1>1, <2>1, FreshTyped DEF PageOK
  <2>4. CASE wiz.route # "/setup"
    <3>1. wiz.route = "/login" BY <1>4, <2>4 DEF Page
    <3>2. \A g \in Flows : flow[g].at = "idle" BY <1>1, <3>1 DEF WizardIInv, FlowOK
    <3> QED BY <1>1, <2>2, <2>3, <3>2, NoneRuns
  <2>5. CASE LeaveSetup(ctx') # "/setup"
    <3>1. ctx'.initialized
      <4>1. CASE ~ctx'.initialized
        <5>1. LeaveSetup(ctx') = "/setup" BY <1>3, <4>1 DEF LeaveSetup
        <5> QED BY <2>5, <5>1
      <4> QED BY <1>3, <4>1
    <3>2. FlowsAlone' BY <1>1 DEF WizardIInv, FlowsAlone
    <3>3. ASSUME NEW f \in Flows PROVE FlowOK(f)'
      <4>1. FlowOK(f) BY DEF WizardIInv
      <4> QED BY <1>1, <2>1, <3>1, <4>1, FreshTyped DEF FlowOK, At
    <3> QED BY <2>2, <2>3, <3>2, <3>3 DEF WizardIInv
  <2> QED BY <1>5, <2>4, <2>5
<1>6. CASE wiz.route = "/setup" /\ LeaveSetup(ctx') = "/setup"
  <2>1. wiz' = Recovers(ctx', wiz) BY <1>2, <1>6 DEF Effects
  <2>2. FlowsAlone' BY <1>1 DEF WizardIInv, FlowsAlone
  <2>3. CASE wiz' = wiz
    <3>1. Typed' BY <1>1, <1>3, <2>3 DEF WizardIInv, Typed
    <3>2. PageOK' BY <1>1, <2>3 DEF WizardIInv, PageOK, Again
    <3>3. ASSUME NEW f \in Flows PROVE FlowOK(f)'
      <4>1. FlowOK(f) BY DEF WizardIInv
      <4> QED BY <1>1, <1>6, <2>3, <4>1 DEF FlowOK, At, Busy, StatusIn
    <3> QED BY <2>2, <3>1, <3>2, <3>3 DEF WizardIInv
  <2>4. CASE ctx'.initialized /\ wiz.status = "idle"
             /\ wiz' = [Hidden(wiz) EXCEPT !.status = "failed", !.item = Listed(ToDownload(ctx'.missing))]
    <3>1. boot = "ready" /\ ctx'.missing = seen BY <1>3, <2>4
    <3>2. init /\ gone \subseteq seen BY <3>1 DEF WizardIInv, PageOK
    <3>3. /\ wiz' \in Page /\ wiz'.route = "/setup" /\ wiz'.status = "failed" /\ wiz'.busy = wiz.busy
          /\ \A c \in Comps : wiz'.item[c] \notin {"completed", "skipped"}
          /\ seen \subseteq { c \in Comps : wiz'.item[c] # "absent" }
      <4>1. seen \in SUBSET Comps BY DEF WizardIInv, Typed
      <4> QED BY <1>4, <1>6, <2>4, <3>1, <4>1, RecoversTyped
    <3>4. Typed' BY <1>1, <1>3, <3>3 DEF WizardIInv, Typed
    <3>5. PageOK' BY <1>1, <3>2, <3>3 DEF PageOK, Again
    <3>6. ASSUME NEW f \in Flows PROVE FlowOK(f)'
      <4>1. FlowOK(f) BY DEF WizardIInv
      <4> QED BY <1>1, <1>6, <2>4, <3>3, <4>1 DEF FlowOK, At, Busy, StatusIn
    <3> QED BY <2>2, <3>4, <3>5, <3>6 DEF WizardIInv
  <2> QED BY <2>1, <2>3, <2>4 DEF Recovers
<1> QED BY <1>5, <1>6

LEMMA LoginPageSafe == ASSUME WizardIInv, LoginPage PROVE WizardIInv'
<1>1. UNCHANGED <<init, gone, work, ctx, boot, seen, flow>> /\ wiz' = FreshPage /\ wiz.route = "/login"
  BY DEF LoginPage, svars
<1>2. ~ctx.initialized
  <2>1. ctx.user = NoUser BY DEF WizardIInv, Typed
  <2> QED BY <2>1 DEF LoginPage, PublicOnly
<1>3. \A g \in Flows : flow[g].at = "idle" BY <1>1, <1>2 DEF WizardIInv, FlowOK
<1>4. Typed' BY <1>1, FreshTyped DEF WizardIInv, Typed
<1>5. PageOK' BY <1>1, FreshTyped DEF WizardIInv, PageOK
<1> QED BY <1>1, <1>3, <1>4, <1>5, NoneRuns

LEMMA InstallEndsSafe == ASSUME WizardIInv, NEW c \in Comps, InstallEnds(c) PROVE WizardIInv'
<1>1. UNCHANGED <<flow, ctx, boot, seen, init>> /\ gone' \subseteq gone /\ wiz' = wiz
  BY DEF InstallEnds
<1>2. wiz \in Page BY DEF WizardIInv, Typed
<1> QED BY <1>1, <1>2, NoneMoves
-----------------------------------------------------------------------------
(* The flow.  A page that is gone ignores what its flow says of it.        *)

LEMMA CompleteStartsSafe == ASSUME WizardIInv, NEW f \in Flows, CompleteStarts(f) PROVE WizardIInv'
<1>1. UNCHANGED <<init, gone, work, ctx, boot, seen>> BY DEF CompleteStarts, svars
<1>2. wiz.route = "/setup" /\ wiz.status = "idle" /\ ~wiz.busy /\ wiz.issues = {} /\ wiz \in Page
  BY DEF CompleteStarts, FooterComplete, OnStep, OnForm, WizardIInv, Typed
<1>3. \A g \in Flows : flow[g].at = "idle" BY <1>2 DEF WizardIInv, FlowOK, Busy, StatusIn
<1> DEFINE q == [NoFlow EXCEPT !.at = "preflight", !.accepted = wiz.accepted, !.issues = wiz.issues]
<1>4. q \in Flow /\ q.at = "preflight" /\ q.issues = {}
  BY <1>2, NoFlowTyped DEF Flow, Points, Page
<1>5. flow' = [flow EXCEPT ![f] = q] BY DEF CompleteStarts
<1> HIDE DEF q
<1>6. flow'[f] = q /\ flow' \in [Flows -> Flow] BY <1>4, <1>5 DEF WizardIInv, Typed
<1>7. wiz' = [wiz EXCEPT !.busy = TRUE, !.checking = TRUE] BY DEF CompleteStarts
<1>8. /\ wiz' \in Page /\ wiz'.route = wiz.route /\ wiz'.status = wiz.status /\ wiz'.busy
      /\ wiz'.item = wiz.item
  BY <1>2, <1>7 DEF Page
<1>9. Typed' BY <1>1, <1>6, <1>8 DEF WizardIInv, Typed
<1>10. PageOK' BY <1>1, <1>8 DEF WizardIInv, PageOK, Again
<1>11. FlowOK(f)' BY <1>2, <1>4, <1>6, <1>8 DEF FlowOK, At, Busy, Downloads
<1> QED BY <1>3, <1>4, <1>5, <1>9, <1>10, <1>11, OneMoves

\* The view of a download that starts.
LEMMA StartTyped ==
  ASSUME NEW p \in Page, NEW list \in SUBSET Comps, NEW b \in BOOLEAN
  PROVE  LET q == [Hidden(p) EXCEPT !.status = "running", !.item = Listed(list), !.busy = b]
         IN /\ q \in Page /\ q.route = p.route /\ q.status = "running" /\ q.busy = b
            /\ \A c \in Comps : q.item[c] \notin {"completed", "skipped"}
            /\ list \subseteq { c \in Comps : q.item[c] # "absent" }
<1> DEFINE it == Listed(list)
           q  == [Hidden(p) EXCEPT !.status = "running", !.item = it, !.busy = b]
<1>1. /\ it \in [Comps -> Outcome] /\ \A c \in Comps : it[c] \notin {"completed", "skipped"}
      /\ \A c \in Comps : c \in list => it[c] # "absent"
  BY ListedTyped
<1>2. Hidden(p) \in Page /\ Hidden(p).route = p.route BY HiddenTyped
<1> HIDE DEF it
<1>3. q \in Page /\ q.route = p.route /\ q.status = "running" /\ q.busy = b /\ q.item = it
  BY <1>1, <1>2 DEF Page
<1> HIDE DEF q
<1>4. list \subseteq { c \in Comps : q.item[c] # "absent" } BY <1>1, <1>3
<1> QED BY <1>1, <1>3, <1>4 DEF it, q

LEMMA RetrySafe == ASSUME WizardIInv, NEW f \in Flows, Retry(f) PROVE WizardIInv'
<1>1. UNCHANGED <<init, gone, work, ctx, boot, seen>> BY DEF Retry, svars
<1>2. wiz.route = "/setup" /\ wiz.status = "failed" /\ ~wiz.busy /\ wiz \in Page
  BY DEF Retry, FailedView, WizardIInv, Typed
<1>3. \A g \in Flows : flow[g].at = "idle" BY <1>2 DEF WizardIInv, FlowOK, Busy, StatusIn
<1>4. init /\ gone \subseteq Again BY <1>2 DEF WizardIInv, PageOK
<1>5. Again \in SUBSET Comps BY DEF Again
<1> DEFINE q == [NoFlow EXCEPT !.at = "account", !.todo = Again]
<1>6. q \in Flow /\ q.at = "account" /\ q.todo = Again
  BY <1>5, NoFlowTyped DEF Flow, Points
<1>7. flow' = [flow EXCEPT ![f] = q] BY DEF Retry
<1> HIDE DEF q
<1>8. flow'[f] = q /\ flow' \in [Flows -> Flow] BY <1>6, <1>7 DEF WizardIInv, Typed
<1>9. wiz' = [Hidden(wiz) EXCEPT !.status = "running", !.item = Listed(Again), !.busy = TRUE]
  BY <1>2 DEF Retry, FlowStarts, Set
<1>10. /\ wiz' \in Page /\ wiz'.route = "/setup" /\ wiz'.status = "running"
       /\ \A c \in Comps : wiz'.item[c] \notin {"completed", "skipped"}
       /\ Again \subseteq { c \in Comps : wiz'.item[c] # "absent" }
  BY <1>2, <1>5, <1>9, StartTyped
<1>11. Typed' BY <1>1, <1>8, <1>10 DEF WizardIInv, Typed
<1>12. Again' = { c \in Comps : wiz'.item[c] # "absent" } BY DEF Again
<1>13. gone' \subseteq Again' BY <1>1, <1>4, <1>10, <1>12
<1>14. PageOK' BY <1>1, <1>4, <1>10, <1>13 DEF WizardIInv, PageOK
<1>15. FlowOK(f)' BY <1>1, <1>4, <1>6, <1>8, <1>10 DEF FlowOK, At, Busy, StatusIn, Downloads
<1> QED BY <1>3, <1>6, <1>7, <1>11, <1>14, <1>15, OneMoves

LEMMA ManualSafe == ASSUME WizardIInv, NEW f \in Flows, Manual(f) PROVE WizardIInv'
<1>1. UNCHANGED <<init, gone, work, ctx, boot, seen>> BY DEF Manual, svars
<1>2. wiz.route = "/setup" /\ wiz.status = "failed" /\ ~wiz.busy /\ wiz \in Page
  BY DEF Manual, FailedView, WizardIInv, Typed
<1>3. \A g \in Flows : flow[g].at = "idle" BY <1>2 DEF WizardIInv, FlowOK, Busy, StatusIn
<1> DEFINE q == [NoFlow EXCEPT !.at = "manual"]
<1>4. q \in Flow /\ q.at = "manual" BY NoFlowTyped DEF Flow, Points
<1>5. flow' = [flow EXCEPT ![f] = q] BY DEF Manual
<1> HIDE DEF q
<1>6. flow'[f] = q /\ flow' \in [Flows -> Flow] BY <1>4, <1>5 DEF WizardIInv, Typed
<1>7. wiz' = [wiz EXCEPT !.busy = TRUE] BY DEF Manual
<1>8. /\ wiz' \in Page /\ wiz'.route = wiz.route /\ wiz'.status = wiz.status /\ wiz'.busy
      /\ wiz'.item = wiz.item
  BY <1>2, <1>7 DEF Page
<1>9. Typed' BY <1>1, <1>6, <1>8 DEF WizardIInv, Typed
<1>10. PageOK' BY <1>1, <1>8 DEF WizardIInv, PageOK, Again
<1>11. FlowOK(f)' BY <1>2, <1>4, <1>6, <1>8 DEF FlowOK, At, Busy, Downloads
<1> QED BY <1>3, <1>4, <1>5, <1>9, <1>10, <1>11, OneMoves
-----------------------------------------------------------------------------
(* What a running flow does.                                               *)

LEMMA PageKept ==
  ASSUME WizardIInv, UNCHANGED <<init, gone, ctx, boot, seen>>, flow' \in [Flows -> Flow],
         wiz' \in Page, wiz'.route = wiz.route, wiz'.status = wiz.status, wiz'.item = wiz.item
  PROVE  Typed' /\ PageOK'
<1>1. Typed' BY DEF WizardIInv, Typed
<1>2. PageOK' BY DEF WizardIInv, PageOK, Again
<1> QED BY <1>1, <1>2

LEMMA PointTyped ==
  ASSUME Typed, NEW f \in Flows, NEW p \in Points
  PROVE  LET q == [flow[f] EXCEPT !.at = p]
         IN /\ q \in Flow /\ q.at = p /\ q.todo = flow[f].todo /\ q.issues = flow[f].issues
            /\ q.sure = flow[f].sure
            /\ To(f, p) = [flow EXCEPT ![f] = q]
            /\ To(f, p) \in [Flows -> Flow] /\ To(f, p)[f] = q
<1> DEFINE q == [flow[f] EXCEPT !.at = p]
<1>1. flow[f] \in Flow /\ flow \in [Flows -> Flow] BY DEF Typed
<1>2. /\ q \in Flow /\ q.at = p /\ q.todo = flow[f].todo /\ q.issues = flow[f].issues
      /\ q.sure = flow[f].sure
  BY <1>1 DEF Flow
<1>3. To(f, p) = [flow EXCEPT ![f] = q] BY DEF To
<1> HIDE DEF q
<1>4. [flow EXCEPT ![f] = q] \in [Flows -> Flow] /\ [flow EXCEPT ![f] = q][f] = q BY <1>1, <1>2
<1>5. To(f, p) \in [Flows -> Flow] /\ To(f, p)[f] = q BY <1>3, <1>4
<1> QED BY <1>2, <1>3, <1>5 DEF q

LEMMA DoneTyped == ASSUME Typed, NEW f \in Flows PROVE Done(f) \in [Flows -> Flow]
BY NoFlowTyped DEF Done, Typed

\* The button comes back, if the page is still there.
LEMMA FreedTyped ==
  ASSUME NEW p \in Page
  PROVE  LET q == [p EXCEPT !.busy = FALSE]
         IN q \in Page /\ q.route = p.route /\ q.status = p.status /\ q.item = p.item
BY DEF Page

LEMMA CompletePreflightSafe ==
  ASSUME WizardIInv, NEW f \in Flows, CompletePreflight(f) PROVE WizardIInv'
<1> DEFINE Goes(r) == r = "clean" \/ (r = "occupied" /\ flow[f].accepted)
           P(r) == IF ~OnForm THEN wiz
                   ELSE IF r = "error" THEN [wiz EXCEPT !.checking = FALSE]
                   ELSE Checked(wiz, r)
<1>1. UNCHANGED <<init, gone, work, ctx, boot, seen>> BY DEF CompletePreflight, svars
<1>2. PICK r \in HostStates \cup {"error"} :
         /\ flow' = IF Goes(r) THEN [flow EXCEPT ![f].at = "initialize", ![f].issues = Sends(f)]
                    ELSE Done(f)
         /\ wiz' = IF Goes(r) THEN P(r) ELSE Set([P(r) EXCEPT !.busy = FALSE])
  BY DEF CompletePreflight
<1>3. wiz \in Page /\ Typed /\ flow[f].at = "preflight" /\ FlowOK(f)
  BY DEF CompletePreflight, At, WizardIInv, Typed
<1>4. /\ P(r) \in Page /\ P(r).route = wiz.route /\ P(r).status = wiz.status
      /\ P(r).busy = wiz.busy /\ P(r).item = wiz.item
  <2>1. CASE ~OnForm
    <3>1. P(r) = wiz BY <2>1
    <3> QED BY <1>3, <3>1
  <2>2. CASE OnForm /\ r = "error"
    <3>1. P(r) = [wiz EXCEPT !.checking = FALSE] BY <2>2
    <3> HIDE DEF P
    <3> QED BY <1>3, <3>1 DEF Page
  <2>3. CASE OnForm /\ r # "error"
    <3>1. P(r) = Checked(wiz, r) /\ r \in HostStates BY <2>3
    <3> HIDE DEF P
    <3> QED BY <1>3, <3>1, CheckedTyped
  <2> QED BY <2>1, <2>2, <2>3
<1> HIDE DEF P
<1>5. CASE Goes(r)
  <2> DEFINE q == [flow[f] EXCEPT !.at = "initialize", !.issues = flow[f].issues]
  <2>1. q \in Flow /\ q.at = "initialize" /\ q.issues = {}
    <3>1. flow[f] \in Flow BY <1>3 DEF Typed
    <3>2. flow[f].issues = {} BY <1>3 DEF FlowOK
    <3> QED BY <3>1, <3>2 DEF Flow, Points
  <2>2. flow' = [flow EXCEPT ![f] = q] BY <1>2, <1>5 DEF Sends
  <2> HIDE DEF q
  <2>3. flow'[f] = q /\ flow' \in [Flows -> Flow] BY <1>3, <2>1, <2>2 DEF Typed
  <2>4. wiz' = P(r) BY <1>2, <1>5
  <2>5. Typed' /\ PageOK' BY <1>1, <1>4, <2>3, <2>4, PageKept
  <2>6. FlowOK(f)' BY <1>1, <1>3, <1>4, <2>1, <2>3, <2>4 DEF FlowOK, At, Busy, StatusIn, Downloads
  <2> QED BY <1>3, <2>1, <2>2, <2>5, <2>6, OneMoves
<1>6. CASE ~Goes(r)
  <2>1. flow' = Done(f) /\ wiz' = Set([P(r) EXCEPT !.busy = FALSE]) BY <1>2, <1>6
  <2>2. wiz' \in Page /\ wiz'.route = wiz.route /\ wiz'.status = wiz.status /\ wiz'.item = wiz.item
    BY <1>3, <1>4, <2>1, FreedTyped DEF Set
  <2>3. Typed' /\ PageOK' BY <1>1, <1>3, <2>1, <2>2, DoneTyped, PageKept
  <2> QED BY <1>3, <2>1, <2>3, OneEnds
<1> QED BY <1>5, <1>6

LEMMA ServeInitializeSafe ==
  ASSUME WizardIInv, NEW f \in Flows, ServeInitialize(f) PROVE WizardIInv'
<1>1. UNCHANGED <<gone, work, ctx, boot, seen, wiz>> /\ init' = TRUE BY DEF ServeInitialize
<1>2. Typed /\ flow[f].at = "initialize" /\ FlowOK(f) /\ gone \in SUBSET Comps
  BY DEF ServeInitialize, At, WizardIInv, Typed
<1> DEFINE q == [flow[f] EXCEPT !.at = "initialized", !.todo = ToDownload(gone)]
<1>3. ToDownload(gone) \in SUBSET Comps /\ gone \subseteq ToDownload(gone) BY <1>2 DEF ToDownload
<1>4. q \in Flow /\ q.at = "initialized" /\ q.issues = {} /\ gone \subseteq q.todo
  <2>1. flow[f] \in Flow BY <1>2 DEF Typed
  <2>2. flow[f].issues = {} BY <1>2 DEF FlowOK
  <2> QED BY <1>3, <2>1, <2>2 DEF Flow, Points
<1>5. flow' = [flow EXCEPT ![f] = q] BY DEF ServeInitialize
<1> HIDE DEF q
<1>6. flow'[f] = q /\ flow' \in [Flows -> Flow] BY <1>2, <1>4, <1>5 DEF Typed
<1>7. Typed' BY <1>1, <1>2, <1>6 DEF Typed
<1>8. PageOK' BY <1>1 DEF WizardIInv, PageOK, Again
<1>9. FlowOK(f)' BY <1>1, <1>2, <1>4, <1>6 DEF FlowOK, At, Busy, StatusIn, Downloads
<1> QED BY <1>2, <1>4, <1>5, <1>7, <1>8, <1>9, OneMoves

LEMMA InitializeFailsSafe ==
  ASSUME WizardIInv, NEW f \in Flows, InitializeFails(f) PROVE WizardIInv'
<1>1. UNCHANGED <<init, gone, work, ctx, boot, seen>> /\ flow' = Done(f) /\ flow[f].at # "idle"
  BY DEF InitializeFails, svars, At
<1>2. wiz \in Page /\ Typed BY DEF WizardIInv, Typed
<1>3. wiz' \in Page /\ wiz'.route = wiz.route /\ wiz'.status = wiz.status /\ wiz'.item = wiz.item
  BY <1>2, FreedTyped DEF InitializeFails, Set
<1>4. Typed' /\ PageOK' BY <1>1, <1>2, <1>3, DoneTyped, PageKept
<1> QED BY <1>1, <1>4, OneEnds

LEMMA InitializeReturnsSafe ==
  ASSUME WizardIInv, NEW f \in Flows, InitializeReturns(f) PROVE WizardIInv'
<1>1. UNCHANGED <<init, gone, work, ctx, boot, seen>> BY DEF InitializeReturns, svars
<1>2. /\ Typed /\ wiz \in Page /\ flow[f].at = "initialized" /\ FlowOK(f) /\ PageOK
      /\ flow[f].todo \in SUBSET Comps
  BY DEF InitializeReturns, At, WizardIInv, Typed, Flow
<1>3. init /\ gone \subseteq flow[f].todo BY <1>2 DEF FlowOK
<1> DEFINE q == [flow[f] EXCEPT !.at = "account"]
<1>4. "account" \in Points BY DEF Points
<1>5. /\ q \in Flow /\ q.at = "account" /\ q.todo = flow[f].todo
      /\ To(f, "account") = [flow EXCEPT ![f] = q]
      /\ To(f, "account") \in [Flows -> Flow] /\ To(f, "account")[f] = q
  BY <1>2, <1>4, PointTyped
<1>6. flow' = [flow EXCEPT ![f] = q] /\ flow' \in [Flows -> Flow] /\ flow'[f] = q
  BY <1>5 DEF InitializeReturns
<1> HIDE DEF q
<1>7. /\ wiz' \in Page /\ wiz'.route = wiz.route
      /\ wiz.route = "/setup" =>
           /\ wiz'.status = "running"
           /\ \A c \in Comps : wiz'.item[c] \notin {"completed", "skipped"}
           /\ flow[f].todo \subseteq { c \in Comps : wiz'.item[c] # "absent" }
  <2>1. CASE wiz.route = "/setup"
    <3>1. wiz' = [Hidden(wiz) EXCEPT !.status = "running", !.item = Listed(flow[f].todo), !.busy = FALSE]
      BY <2>1 DEF InitializeReturns, FlowStarts, Set
    <3> QED BY <1>2, <2>1, <3>1, StartTyped
  <2>2. CASE wiz.route # "/setup"
    <3>1. wiz' = wiz BY <2>2 DEF InitializeReturns, FlowStarts, Set
    <3> QED BY <1>2, <2>2, <3>1
  <2> QED BY <2>1, <2>2
<1>8. Typed' BY <1>1, <1>2, <1>6, <1>7 DEF Typed
<1>9. Again' = { c \in Comps : wiz'.item[c] # "absent" } BY DEF Again
<1>10. PageOK'
  <2>1. wiz.route = "/setup" => gone' \subseteq Again' BY <1>1, <1>3, <1>7, <1>9
  <2> QED BY <1>1, <1>2, <1>3, <1>7, <2>1 DEF PageOK
<1>11. FlowOK(f)' BY <1>1, <1>2, <1>3, <1>5, <1>6, <1>7 DEF FlowOK, At, Busy, StatusIn, Downloads
<1>12. flow[f].at # "idle" BY <1>2
<1> QED BY <1>5, <1>6, <1>8, <1>10, <1>11, <1>12, OneMoves

LEMMA IntroducesSafe == ASSUME WizardIInv, NEW f \in Flows, Introduces(f) PROVE WizardIInv'
<1>1. UNCHANGED <<init, gone, work, ctx, boot, seen, wiz>> BY DEF Introduces, svars
<1>2. Typed /\ FlowOK(f) /\ wiz \in Page /\ flow[f].at \in {"account", "system"}
  BY DEF Introduces, At, WizardIInv, Typed
<1>3. PICK p \in {"system", "stream"} : flow' = To(f, p) BY DEF Introduces
<1> DEFINE q == [flow[f] EXCEPT !.at = p]
<1>4. p \in Points BY DEF Points
<1>5. /\ q \in Flow /\ q.at = p /\ q.todo = flow[f].todo
      /\ To(f, p) = [flow EXCEPT ![f] = q]
      /\ To(f, p) \in [Flows -> Flow] /\ To(f, p)[f] = q
  BY <1>2, <1>4, PointTyped
<1>6. flow' = [flow EXCEPT ![f] = q] /\ flow' \in [Flows -> Flow] /\ flow'[f] = q BY <1>3, <1>5
<1> HIDE DEF q
<1>7. Typed' /\ PageOK' BY <1>1, <1>2, <1>6, PageKept
<1>8. FlowOK(f)' BY <1>1, <1>2, <1>3, <1>5, <1>6 DEF FlowOK, At, Busy, StatusIn, Downloads
<1>9. flow[f].at # "idle" BY <1>2
<1> QED BY <1>5, <1>6, <1>7, <1>8, <1>9, OneMoves

\* The component that was streamed is there, and the page says so.
LEMMA StreamCompletesSafe == ASSUME WizardIInv, NEW f \in Flows, StreamCompletes(f) PROVE WizardIInv'
<1> DEFINE c    == Streamed(f)
           rest == flow[f].todo \ {c}
           pt   == IF rest = {} THEN "activate" ELSE "stream"
           st   == IF rest = {} THEN "completed" ELSE wiz.status
           o    == IF c \in gone THEN "completed" ELSE "skipped"
           q    == [flow[f] EXCEPT !.todo = rest, !.at = pt]
<1>1. UNCHANGED <<init, work, ctx, boot, seen>> BY DEF StreamCompletes
<1>2. /\ Typed /\ FlowOK(f) /\ PageOK /\ wiz \in Page /\ flow[f].at = "stream"
      /\ flow[f] \in Flow /\ gone \in SUBSET Comps
  BY DEF StreamCompletes, At, WizardIInv, Typed
<1>3. init /\ gone \subseteq flow[f].todo
      /\ (wiz.route = "/setup" => wiz.status \in {"running", "completed"})
  BY <1>2 DEF FlowOK, Downloads, StatusIn
<1>4. gone' = gone \ {c} /\ gone' \subseteq rest BY <1>3 DEF StreamCompletes
<1>5. q \in Flow /\ q.at = pt /\ q.todo = rest /\ pt \in {"activate", "stream"}
  BY <1>2 DEF Flow, Points
<1>6. flow' = [flow EXCEPT ![f] = q] BY DEF StreamCompletes
<1>7. pt = "activate" => gone' = {} /\ st = "completed" BY <1>4
<1>8. o \in {"completed", "skipped"} OBVIOUS
<1>9. st \in {"idle", "running", "completed", "failed"}
      /\ (wiz.route = "/setup" => st \in {"running", "completed"})
  BY <1>2, <1>3 DEF Page
<1>10. wiz' = Set([wiz EXCEPT !.item[c] = o, !.status = st])
  BY DEF StreamCompletes
<1> HIDE DEF q, pt, st, o, c
<1>11. flow'[f] = q /\ flow' \in [Flows -> Flow] BY <1>2, <1>5, <1>6 DEF Typed
<1>12. /\ wiz' \in Page /\ wiz'.route = wiz.route
       /\ wiz.route = "/setup" =>
            /\ wiz'.status = st
            /\ \A d \in Comps : d # c => wiz'.item[d] = wiz.item[d]
            /\ \A d \in Comps : d = c => wiz'.item[d] = o
  <2>1. CASE wiz.route = "/setup"
    <3> DEFINE it == [wiz.item EXCEPT ![c] = o]
    <3>1. o \in Outcome /\ wiz.busy \in BOOLEAN /\ wiz.item \in [Comps -> Outcome]
      BY <1>2, <1>8 DEF Outcome, Page
    <3>2. /\ it \in [Comps -> Outcome]
          /\ \A d \in Comps : d # c => it[d] = wiz.item[d]
          /\ \A d \in Comps : d = c => it[d] = o
      BY <3>1
    <3>3. [wiz EXCEPT !.item[c] = o, !.status = st]
          = [wiz EXCEPT !.status = st, !.item = it, !.busy = wiz.busy]
      BY <1>2 DEF Page
    <3>4. wiz' = [wiz EXCEPT !.status = st, !.item = it, !.busy = wiz.busy]
      BY <1>10, <2>1, <3>3 DEF Set
    <3> HIDE DEF it
    <3>5. wiz' \in Page /\ wiz'.route = wiz.route /\ wiz'.status = st /\ wiz'.item = it
      BY <1>2, <1>9, <3>1, <3>2, <3>4 DEF Page
    <3> QED BY <3>2, <3>5
  <2>2. CASE wiz.route # "/setup"
    <3>1. wiz' = wiz BY <1>10, <2>2 DEF Set
    <3> QED BY <1>2, <2>2, <3>1
  <2> QED BY <2>1, <2>2
<1>13. Typed' BY <1>1, <1>2, <1>4, <1>11, <1>12 DEF Typed
<1>14. PageOK'
  <2>1. ASSUME wiz.route = "/setup"
       PROVE  /\ \A d \in Comps : wiz'.item[d] \in {"completed", "skipped"} => d \notin gone'
              /\ gone' \subseteq Again'
    <3>1. \A d \in Comps : wiz.item[d] \in {"completed", "skipped"} => d \notin gone
      BY <1>2, <2>1 DEF PageOK
    <3>2. gone \subseteq Again BY <1>2, <1>3, <2>1 DEF PageOK
    <3>3. Again' = { d \in Comps : wiz'.item[d] # "absent" } BY DEF Again
    <3>4. Again = { d \in Comps : wiz.item[d] # "absent" } BY DEF Again
    <3>5. ASSUME NEW d \in gone' PROVE d \in Again'
      <4>1. d \in Comps /\ d # c /\ wiz.item[d] # "absent" BY <1>2, <1>4, <3>2, <3>4, <3>5
      <4> QED BY <1>12, <2>1, <3>3, <4>1
    <3> QED BY <1>4, <1>12, <2>1, <3>1, <3>5
  <2> QED BY <1>1, <1>2, <1>3, <1>4, <1>12, <2>1 DEF PageOK
<1>15. FlowOK(f)'
  BY <1>1, <1>2, <1>3, <1>4, <1>5, <1>7, <1>9, <1>11, <1>12 DEF FlowOK, At, Busy, StatusIn, Downloads
<1>16. flow[f].at # "idle" BY <1>2
<1> QED BY <1>5, <1>6, <1>13, <1>14, <1>15, <1>16, OneMoves

\* The view with the two buttons: what it shows was already in the list.
LEMMA FailedSafe ==
  ASSUME WizardIInv, NEW f \in Flows, flow[f].at \in {"stream", "cut"},
         UNCHANGED <<init, gone, ctx, boot, seen>>, flow' = Done(f),
         wiz' = Set([wiz EXCEPT !.status = "failed", !.busy = FALSE, !.item[Streamed(f)] = "failed"])
  PROVE  WizardIInv'
<1> DEFINE c == Streamed(f)
<1>1. Typed /\ FlowOK(f) /\ PageOK /\ wiz \in Page BY DEF WizardIInv, Typed
<1>2. wiz.route = "/setup" => wiz.status \in {"running", "completed"}
  BY <1>1 DEF FlowOK, Downloads, StatusIn
<1>3. wiz.route = "/setup" => init /\ gone \subseteq Again BY <1>1, <1>2 DEF PageOK
<1>4. /\ wiz' \in Page /\ wiz'.route = wiz.route
      /\ wiz.route = "/setup" =>
           /\ \A d \in Comps : d # c => wiz'.item[d] = wiz.item[d]
           /\ \A d \in Comps : d = c => wiz'.item[d] = "failed"
  <2>1. CASE wiz.route = "/setup"
    <3> DEFINE it == [wiz.item EXCEPT ![c] = "failed"]
    <3>1. "failed" \in Outcome /\ wiz.item \in [Comps -> Outcome] BY <1>1 DEF Outcome, Page
    <3>2. /\ it \in [Comps -> Outcome]
          /\ \A d \in Comps : d # c => it[d] = wiz.item[d]
          /\ \A d \in Comps : d = c => it[d] = "failed"
      BY <3>1
    <3>3. [wiz EXCEPT !.status = "failed", !.busy = FALSE, !.item[c] = "failed"]
          = [wiz EXCEPT !.status = "failed", !.item = it, !.busy = FALSE]
      BY <1>1 DEF Page
    <3>4. wiz' = [wiz EXCEPT !.status = "failed", !.item = it, !.busy = FALSE]
      BY <2>1, <3>3 DEF Set
    <3> HIDE DEF it
    <3>5. wiz' \in Page /\ wiz'.route = wiz.route /\ wiz'.item = it
      BY <1>1, <3>2, <3>4 DEF Page
    <3> QED BY <3>2, <3>5
  <2>2. CASE wiz.route # "/setup"
    <3>1. wiz' = wiz BY <2>2 DEF Set
    <3> QED BY <1>1, <2>2, <3>1
  <2> QED BY <2>1, <2>2
<1>5. Typed' BY <1>1, <1>4, DoneTyped DEF Typed
<1>6. PageOK'
  <2>1. ASSUME wiz.route = "/setup"
       PROVE  /\ \A d \in Comps : wiz'.item[d] \in {"completed", "skipped"} => d \notin gone
              /\ gone \subseteq Again'
    <3>1. \A d \in Comps : wiz.item[d] \in {"completed", "skipped"} => d \notin gone
      BY <1>1, <2>1 DEF PageOK
    <3>2. Again' = { d \in Comps : wiz'.item[d] # "absent" } BY DEF Again
    <3>3. Again = { d \in Comps : wiz.item[d] # "absent" } BY DEF Again
    <3> QED BY <1>3, <1>4, <2>1, <3>1, <3>2, <3>3
  <2> QED BY <1>1, <1>3, <1>4, <2>1 DEF PageOK
<1> QED BY <1>5, <1>6, OneEnds

LEMMA StreamFailsSafe == ASSUME WizardIInv, NEW f \in Flows, StreamFails(f) PROVE WizardIInv'
<1>1. UNCHANGED <<init, gone, ctx, boot, seen>> /\ flow[f].at \in {"stream", "cut"} /\ flow' = Done(f)
  BY DEF StreamFails, svars, At, EndsAfter
<1>2. wiz' = Set([wiz EXCEPT !.status = "failed", !.busy = FALSE, !.item[Streamed(f)] = "failed"])
  BY DEF StreamFails
<1> QED BY <1>1, <1>2, FailedSafe

LEMMA StreamErrorSafe == ASSUME WizardIInv, NEW f \in Flows, StreamError(f) PROVE WizardIInv'
<1>1. UNCHANGED <<init, gone, ctx, boot, seen>> /\ flow[f].at \in {"stream", "cut"} /\ flow' = Done(f)
  BY DEF StreamError, HearsError, svars, At
<1>2. wiz' = Set([wiz EXCEPT !.status = "failed", !.busy = FALSE, !.item[Streamed(f)] = "failed"])
  BY DEF StreamError
<1> QED BY <1>1, <1>2, FailedSafe

LEMMA StreamBreaksSafe == ASSUME WizardIInv, NEW f \in Flows, StreamBreaks(f) PROVE WizardIInv'
<1>1. UNCHANGED <<init, gone, ctx, boot, seen, wiz>> BY DEF StreamBreaks
<1>2. Typed /\ FlowOK(f) /\ wiz \in Page /\ flow[f].at = "stream"
  BY DEF StreamBreaks, At, WizardIInv, Typed
<1> DEFINE q == [flow[f] EXCEPT !.at = "cut"]
<1>3. "cut" \in Points BY DEF Points
<1>4. /\ q \in Flow /\ q.at = "cut" /\ q.todo = flow[f].todo
      /\ To(f, "cut") = [flow EXCEPT ![f] = q]
      /\ To(f, "cut") \in [Flows -> Flow] /\ To(f, "cut")[f] = q
  BY <1>2, <1>3, PointTyped
<1>5. flow' = [flow EXCEPT ![f] = q] /\ flow' \in [Flows -> Flow] /\ flow'[f] = q
  BY <1>4 DEF StreamBreaks
<1> HIDE DEF q
<1>6. Typed' /\ PageOK' BY <1>1, <1>2, <1>5, PageKept
<1>7. FlowOK(f)' BY <1>1, <1>2, <1>4, <1>5 DEF FlowOK, At, Busy, StatusIn, Downloads
<1>8. flow[f].at # "idle" BY <1>2
<1> QED BY <1>4, <1>5, <1>6, <1>7, <1>8, OneMoves
LEMMA ActivatesSafe == ASSUME WizardIInv, NEW f \in Flows, Activates(f) PROVE WizardIInv'
<1>1. UNCHANGED <<init, gone, work, boot, seen>> /\ flow[f].at = "activate" BY DEF Activates, At
<1>2. Typed /\ FlowOK(f) /\ PageOK /\ wiz \in Page /\ init /\ gone = {}
  BY <1>1 DEF WizardIInv, Typed, FlowOK, At
<1>3. ASSUME flow' = To(f, "check"), ctx' = RefreshStarts(ctx), wiz' = wiz PROVE WizardIInv'
  <2>1. /\ ctx' \in [loading : BOOLEAN, initialized : BOOLEAN, recovery : BOOLEAN,
                     missing : SUBSET Comps, user : {NoUser}]
        /\ ctx'.initialized = ctx.initialized
    BY <1>2, <1>3 DEF RefreshStarts, Typed
  <2> DEFINE q == [flow[f] EXCEPT !.at = "check"]
  <2>2. "check" \in Points BY DEF Points
  <2>3. /\ q \in Flow /\ q.at = "check" /\ To(f, "check") = [flow EXCEPT ![f] = q]
        /\ To(f, "check") \in [Flows -> Flow] /\ To(f, "check")[f] = q
    BY <1>2, <2>2, PointTyped
  <2>4. flow' = [flow EXCEPT ![f] = q] /\ flow' \in [Flows -> Flow] /\ flow'[f] = q BY <1>3, <2>3
  <2> HIDE DEF q
  <2>5. Typed' BY <1>1, <1>2, <1>3, <2>1, <2>4 DEF Typed
  <2>6. PageOK' BY <1>1, <1>2, <1>3 DEF PageOK, Again
  <2>7. FlowOK(f)' BY <1>1, <1>2, <1>3, <2>1, <2>3, <2>4 DEF FlowOK, At, Busy, StatusIn, Downloads
  <2>8. flow[f].at # "idle" BY <1>1
  <2> QED BY <2>3, <2>4, <2>5, <2>6, <2>7, <2>8, OneMoves
<1>4. ASSUME flow' = Done(f), ctx' = ctx,
             wiz' = Set([wiz EXCEPT !.status = "failed", !.busy = FALSE])
     PROVE  WizardIInv'
  <2>1. wiz' \in Page /\ wiz'.route = wiz.route /\ wiz'.item = wiz.item
    <3>1. CASE wiz.route = "/setup"
      <4>1. wiz' = [wiz EXCEPT !.status = "failed", !.busy = FALSE] BY <1>4, <3>1 DEF Set
      <4> QED BY <1>2, <4>1 DEF Page
    <3>2. CASE wiz.route # "/setup" BY <1>2, <1>4, <3>2 DEF Set
    <3> QED BY <3>1, <3>2
  <2>2. Typed' BY <1>1, <1>2, <1>4, <2>1, DoneTyped DEF Typed
  <2>3. PageOK' BY <1>1, <1>2, <2>1 DEF PageOK
  <2> QED BY <1>1, <1>4, <2>2, <2>3, OneEnds
<1> QED BY <1>3, <1>4 DEF Activates

LEMMA ManualActivatesSafe == ASSUME WizardIInv, NEW f \in Flows, ManualActivates(f) PROVE WizardIInv'
<1>1. UNCHANGED <<init, gone, work, boot, seen, wiz>> /\ flow[f].at = "manual"
  BY DEF ManualActivates, At
<1>2. Typed /\ FlowOK(f) /\ PageOK /\ wiz \in Page BY DEF WizardIInv, Typed
<1>3. /\ ctx' \in [loading : BOOLEAN, initialized : BOOLEAN, recovery : BOOLEAN,
                   missing : SUBSET Comps, user : {NoUser}]
      /\ ctx'.initialized = ctx.initialized
  BY <1>2 DEF ManualActivates, RefreshStarts, Typed
<1> DEFINE q == [flow[f] EXCEPT !.at = "check", !.sure = FALSE]
<1>4. q \in Flow /\ q.at = "check" /\ ~q.sure
  <2>1. flow[f] \in Flow BY <1>2 DEF Typed
  <2> QED BY <2>1 DEF Flow, Points
<1>5. flow' = [flow EXCEPT ![f] = q] BY <1>2 DEF ManualActivates, To, Typed, Flow
<1> HIDE DEF q
<1>6. flow' \in [Flows -> Flow] /\ flow'[f] = q BY <1>2, <1>4, <1>5 DEF Typed
<1>7. Typed' BY <1>1, <1>2, <1>3, <1>6 DEF Typed
<1>8. PageOK' BY <1>1, <1>2 DEF PageOK, Again
<1>9. FlowOK(f)' BY <1>1, <1>2, <1>3, <1>4, <1>6 DEF FlowOK, At, Busy, StatusIn, Downloads
<1>10. flow[f].at # "idle" BY <1>1
<1> QED BY <1>4, <1>5, <1>7, <1>8, <1>9, <1>10, OneMoves

LEMMA LeavesSafe == ASSUME WizardIInv, NEW f \in Flows, Leaves(f) PROVE WizardIInv'
<1>1. UNCHANGED <<init, gone, work, boot, seen>> /\ wiz' = LeftPage /\ flow' = Done(f) /\ flow[f].at # "idle"
  BY DEF Leaves, svars, At
<1>2. Typed /\ PageOK BY DEF WizardIInv, Typed
<1>3. ctx' \in [loading : BOOLEAN, initialized : BOOLEAN, recovery : BOOLEAN,
                missing : SUBSET Comps, user : {NoUser}]
  <2>1. CASE ctx' = RefreshFails(ctx) BY <2>1, ContextTyped DEF RefreshFails
  <2>2. CASE ctx' = RefreshEnds(CheckKnown(ctx, init, gone), NoUser)
    <3> DEFINE mis == IF init THEN gone ELSE {}
               rec == init /\ gone # {}
    <3>1. rec \in BOOLEAN /\ mis \in SUBSET Comps /\ init \in BOOLEAN BY <1>2 DEF Typed
    <3>2. ctx' = [ctx EXCEPT !.initialized = init, !.recovery = rec, !.missing = mis,
                             !.user = NoUser, !.loading = FALSE]
      BY <1>2, <2>2 DEF RefreshEnds, CheckKnown, Typed
    <3> HIDE DEF mis, rec
    <3> QED BY <1>2, <3>1, <3>2 DEF Typed
  <2> QED BY <2>1, <2>2 DEF Leaves
<1>4. Typed' BY <1>1, <1>2, <1>3, FreshTyped, DoneTyped DEF Typed
<1>5. PageOK' BY <1>1, <1>2, FreshTyped DEF PageOK
<1> QED BY <1>1, <1>4, <1>5, OneEnds

-----------------------------------------------------------------------------
(* The invariant, and what it says of every behaviour.                     *)

LEMMA FlowSteps == ASSUME WizardIInv, NEW f \in Flows, FlowStep(f) PROVE WizardIInv'
BY CompletePreflightSafe, ServeInitializeSafe, InitializeFailsSafe, InitializeReturnsSafe,
   IntroducesSafe, StreamCompletesSafe, StreamFailsSafe, StreamBreaksSafe, StreamErrorSafe,
   ActivatesSafe, ManualActivatesSafe, LeavesSafe DEF FlowStep

LEMMA WizardSafe == WizardIInv /\ [SetupNext]_wvars => WizardIInv'
<1> SUFFICES ASSUME WizardIInv, [SetupNext]_wvars PROVE WizardIInv' OBVIOUS
<1>1. CASE Reload BY <1>1, ReloadSafe
<1>2. CASE ServeBoot BY <1>2, ServeBootSafe
<1>3. CASE BootReturns BY <1>3, BootReturnsSafe
<1>4. CASE LoginPage BY <1>4, LoginPageSafe
<1>5. CASE FormStep BY <1>5, FormSteps
<1>6. CASE \E c \in Comps : InstallEnds(c) BY <1>6, InstallEndsSafe
<1>7. CASE \E f \in Flows : FlowStep(f) \/ CompleteStarts(f) \/ Retry(f) \/ Manual(f)
  BY <1>7, FlowSteps, CompleteStartsSafe, RetrySafe, ManualSafe
<1>8. CASE UNCHANGED wvars
  <2>1. UNCHANGED <<flow, ctx, boot, seen, init, gone, wiz>> BY <1>8 DEF wvars
  <2>2. wiz \in Page BY DEF WizardIInv, Typed
  <2> QED BY <2>1, <2>2, NoneMoves
<1> QED BY <1>1, <1>2, <1>3, <1>4, <1>5, <1>6, <1>7, <1>8 DEF SetupNext

-----------------------------------------------------------------------------
(* The lists of components, and the counters.                              *)

LEMMA ListBegins == SetupInit => SetupIInv
<1> SUFFICES ASSUME SetupInit PROVE SetupIInv OBVIOUS
<1>1. WizardIInv BY InitSafe
<1>2. SetupTypeOK BY <1>1, ChecksAssumption DEF WizardIInv, Typed, SetupTypeOK, SetupInit
<1>3. ListOK BY FreshTyped, NoFlowTyped DEF SetupInit, ListOK, HasWork, ShowsList, Downloads
<1> QED BY <1>1, <1>2, <1>3 DEF SetupIInv

\* A flow that moves still has its work, and the page a list.
LEMMA ListKept ==
  ASSUME SetupIInv, WizardIInv', NEW f \in Flows,
         \A g \in Flows \ {f} : flow'[g] = flow[g], HasWork(flow'[f]), ShowsList(wiz'),
         work' \subseteq Comps, UNCHANGED checks
  PROVE  SetupIInv'
<1>1. SetupTypeOK' BY DEF WizardIInv, Typed, SetupTypeOK, SetupIInv
<1>2. \A g \in Flows : HasWork(flow'[g]) BY DEF SetupIInv, ListOK
<1> QED BY <1>1, <1>2 DEF SetupIInv, ListOK

\* No flow changes, the page shows its list or none.
LEMMA ListStays ==
  ASSUME SetupIInv, WizardIInv', UNCHANGED flow, ShowsList(wiz'),
         work' \subseteq Comps, checks' \in 0..MaxChecks
  PROVE  SetupIInv'
<1>1. SetupTypeOK' BY DEF WizardIInv, Typed, SetupTypeOK, SetupIInv
<1> QED BY <1>1 DEF SetupIInv, ListOK

\* What the page of a flow becomes: gone, or the page with a list.
LEMMA SetShows ==
  ASSUME ShowsList(wiz), NEW p, ShowsList(p) PROVE ShowsList(Set(p))
BY DEF Set

LEMMA SameList ==
  ASSUME ShowsList(wiz), NEW p, p.route = wiz.route, p.status = wiz.status, p.item = wiz.item
  PROVE  ShowsList(p)
BY DEF ShowsList

\* A component of the list of a flow is on the page.
LEMMA StreamedIn ==
  ASSUME SetupIInv, NEW f \in Flows, flow[f].at \in {"stream", "cut"}
  PROVE  Streamed(f) \in flow[f].todo /\ Streamed(f) \in Comps
<1>1. flow[f].todo # {} /\ flow[f].todo \subseteq Comps
  BY DEF SetupIInv, ListOK, HasWork, Downloads, SetupTypeOK, Flow
<1> QED BY <1>1 DEF Streamed

LEMMA ListedShows ==
  ASSUME NEW list \in SUBSET Comps, list # {}
  PROVE  \E c \in Comps : Listed(list)[c] # "absent"
BY ListedTyped

LEMMA DownloadsSome ==
  ASSUME NEW list \in SUBSET Comps
  PROVE  ToDownload(list) \in SUBSET Comps /\ ToDownload(list) # {}
BY CompsAssumption DEF ToDownload

-----------------------------------------------------------------------------

LEMMA ListForm == ASSUME SetupIInv, WizardIInv', FormStep PROVE SetupIInv'
<1>1. UNCHANGED <<flow, work>>
  BY DEF FormStep, Go, EditAccount, EditSystem, Recheck, Accept, GoToIssue, CompleteRefused,
         InterfacesReturn, CheckArrives, svars
<1>2. wiz \in Page /\ wiz' \in Page /\ checks \in 0..MaxChecks BY DEF SetupIInv, SetupTypeOK, WizardIInv, Typed
<1>3. checks' \in 0..MaxChecks
  <2>1. \/ checks' = checks
        \/ checks < MaxChecks /\ checks' = checks + 1
        \/ checks > 0 /\ checks' = checks - 1
    BY DEF FormStep, Go, EditAccount, EditSystem, Recheck, Accept, GoToIssue, CompleteRefused,
           InterfacesReturn, CheckArrives
  <2> QED BY <1>2, <2>1, ChecksAssumption
<1>4. wiz'.route = wiz.route /\ wiz'.status = wiz.status /\ wiz'.item = wiz.item
  <2>1. CASE (\E k \in 0..LastStep : Go(k)) \/ Recheck
    BY <1>2, <2>1 DEF Go, Recheck, Page
  <2>2. CASE EditAccount \/ EditSystem \/ InterfacesReturn
    BY <1>2, <2>2 DEF EditAccount, EditSystem, InterfacesReturn, Page
  <2>3. CASE Accept \/ GoToIssue \/ CompleteRefused
    BY <1>2, <2>3 DEF Accept, GoToIssue, CompleteRefused, Page
  <2>4. CASE CheckArrives
    BY <1>2, <2>4 DEF CheckArrives, Checked, Page
  <2> QED BY <2>1, <2>2, <2>3, <2>4 DEF FormStep
<1>5. ShowsList(wiz') BY <1>4, SameList DEF SetupIInv, ListOK
<1> QED BY <1>1, <1>3, <1>5, ListStays DEF SetupIInv, SetupTypeOK

LEMMA ListReload == ASSUME SetupIInv, WizardIInv', Reload PROVE SetupIInv'
<1>1. work' \subseteq Comps
  <2>1. \A f \in Flows : At(f, "stream") => Streamed(f) \in Comps BY StreamedIn DEF At
  <2>2. work' = work \cup { Streamed(f) : f \in { g \in Flows : At(g, "stream") } } BY DEF Reload
  <2> QED BY <2>1, <2>2 DEF SetupIInv, SetupTypeOK
<1>2. SetupTypeOK' BY <1>1, ChecksAssumption DEF WizardIInv, Typed, SetupTypeOK, Reload
<1>3. ListOK' BY FreshTyped, NoFlowTyped DEF Reload, ListOK, HasWork, ShowsList, Downloads
<1> QED BY <1>2, <1>3 DEF SetupIInv

LEMMA ListBoot == ASSUME SetupIInv, WizardIInv', BootReturns PROVE SetupIInv'
<1>1. UNCHANGED <<flow, work, checks>> BY DEF BootReturns, svars
<1>2. ShowsList(wiz')
  <2>1. CASE wiz' = LeftPage BY <2>1, FreshTyped DEF ShowsList
  <2>2. CASE wiz' = wiz BY <2>2 DEF SetupIInv, ListOK
  <2>3. CASE wiz' = [Hidden(wiz) EXCEPT !.status = "failed", !.item = Listed(ToDownload(ctx'.missing))]
    <3>1. ctx'.missing \in SUBSET Comps BY DEF WizardIInv, Typed
    <3>2. \E c \in Comps : Listed(ToDownload(ctx'.missing))[c] # "absent"
      BY <3>1, DownloadsSome, ListedShows
    <3>3. Hidden(wiz) \in Page BY HiddenTyped DEF SetupIInv, SetupTypeOK
    <3>4. wiz'.item = Listed(ToDownload(ctx'.missing)) BY <2>3, <3>3 DEF Page
    <3> QED BY <3>2, <3>4 DEF ShowsList
  <2> QED BY <2>1, <2>2, <2>3 DEF BootReturns, Effects, Recovers
<1> QED BY <1>1, <1>2, ListStays DEF SetupIInv, SetupTypeOK

LEMMA ListQuiet ==
  ASSUME SetupIInv, WizardIInv', ServeBoot \/ LoginPage \/ (\E c \in Comps : InstallEnds(c)) \/ UNCHANGED wvars
  PROVE  SetupIInv'
<1>1. UNCHANGED <<flow, checks>> /\ work' \subseteq work
  BY DEF ServeBoot, LoginPage, InstallEnds, wvars, svars
<1>2. wiz' = wiz \/ wiz' = FreshPage
  BY DEF ServeBoot, LoginPage, InstallEnds, wvars, svars
<1>3. ShowsList(wiz') BY <1>2, FreshTyped DEF SetupIInv, ListOK, ShowsList
<1> QED BY <1>1, <1>3, ListStays DEF SetupIInv, SetupTypeOK

LEMMA SlotChanges ==
  ASSUME SetupIInv, NEW f \in Flows, NEW q, flow' = [flow EXCEPT ![f] = q]
  PROVE  flow'[f] = q /\ \A g \in Flows \ {f} : flow'[g] = flow[g]
BY DEF SetupIInv, SetupTypeOK

LEMMA ListEnds ==
  ASSUME SetupIInv, WizardIInv', NEW f \in Flows, flow' = Done(f), ShowsList(wiz'),
         work' \subseteq Comps, UNCHANGED checks
  PROVE  SetupIInv'
<1>1. HasWork(NoFlow) BY DEF HasWork, NoFlow, Downloads
<1>2. flow' = [flow EXCEPT ![f] = NoFlow] BY DEF Done
<1> QED BY <1>1, <1>2, SlotChanges, ListKept

\* The flow goes on to another point with the same list.
LEMMA ListGoes ==
  ASSUME SetupIInv, WizardIInv', NEW f \in Flows, NEW p \in Points, flow' = To(f, p),
         flow[f].at \in Downloads \cup {"initialized"} \/ p \notin Downloads \cup {"initialized"},
         ShowsList(wiz'), work' \subseteq Comps, UNCHANGED checks
  PROVE  SetupIInv'
<1>1. flow[f] \in Flow /\ flow \in [Flows -> Flow] BY DEF SetupIInv, SetupTypeOK
<1>2. flow'[f].at = p /\ flow'[f].todo = flow[f].todo /\ \A g \in Flows \ {f} : flow'[g] = flow[g]
  BY <1>1 DEF To, Flow
<1>3. HasWork(flow[f]) BY DEF SetupIInv, ListOK
<1>4. HasWork(flow'[f]) BY <1>2, <1>3 DEF HasWork
<1> QED BY <1>2, <1>4, ListKept

LEMMA ListStarts ==
  ASSUME SetupIInv, WizardIInv', NEW f \in Flows, CompleteStarts(f) \/ Retry(f) \/ Manual(f)
  PROVE  SetupIInv'
<1>1. UNCHANGED <<work, checks>> BY DEF CompleteStarts, Retry, Manual, svars
<1>2. wiz \in Page /\ ShowsList(wiz) /\ work \subseteq Comps BY DEF SetupIInv, SetupTypeOK, ListOK
<1>3. CASE CompleteStarts(f) \/ Manual(f)
  <2>1. wiz'.route = wiz.route /\ wiz'.status = wiz.status /\ wiz'.item = wiz.item
    BY <1>2, <1>3 DEF CompleteStarts, Manual, Page
  <2>2. ShowsList(wiz') BY <1>2, <2>1, SameList
  <2>3. PICK q : flow' = [flow EXCEPT ![f] = q] /\ q.at \in {"preflight", "manual"}
    <3>1. CASE CompleteStarts(f)
      <4> DEFINE q == [NoFlow EXCEPT !.at = "preflight", !.accepted = wiz.accepted, !.issues = wiz.issues]
      <4>1. flow' = [flow EXCEPT ![f] = q] BY <3>1 DEF CompleteStarts
      <4>2. q.at = "preflight" BY DEF NoFlow
      <4> QED BY <4>1, <4>2
    <3>2. CASE Manual(f)
      <4> DEFINE q == [NoFlow EXCEPT !.at = "manual"]
      <4>1. flow' = [flow EXCEPT ![f] = q] BY <3>2 DEF Manual
      <4>2. q.at = "manual" BY DEF NoFlow
      <4> QED BY <4>1, <4>2
    <3> QED BY <1>3, <3>1, <3>2
  <2>4. HasWork(q) BY <2>3 DEF HasWork, Downloads
  <2> QED BY <1>1, <1>2, <2>2, <2>3, <2>4, SlotChanges, ListKept
<1>4. CASE Retry(f)
  <2> DEFINE q == [NoFlow EXCEPT !.at = "account", !.todo = Again]
  <2>1. \E c \in Comps : wiz.item[c] # "absent" BY <1>2, <1>4 DEF Retry, FailedView, ShowsList
  <2>2. Again # {} /\ Again \in SUBSET Comps BY <2>1 DEF Again
  <2>3. q.at = "account" /\ q.todo = Again BY DEF NoFlow
  <2>4. flow' = [flow EXCEPT ![f] = q] BY <1>4 DEF Retry
  <2> HIDE DEF q
  <2>5. HasWork(q) BY <2>2, <2>3 DEF HasWork
  <2>6. wiz' = FlowStarts(Again, TRUE) BY <1>4 DEF Retry
  <2>7. \E c \in Comps : Listed(Again)[c] # "absent" BY <2>2, ListedShows
  <2>8. wiz' = [Hidden(wiz) EXCEPT !.status = "running", !.item = Listed(Again), !.busy = TRUE]
    BY <1>4, <2>6 DEF Retry, FailedView, FlowStarts, Set
  <2>9. wiz'.item = Listed(Again) BY <1>2, <2>8, HiddenTyped DEF Page
  <2>10. ShowsList(wiz') BY <2>7, <2>9 DEF ShowsList
  <2> QED BY <1>1, <1>2, <2>4, <2>5, <2>10, SlotChanges, ListKept
<1> QED BY <1>3, <1>4

\* What a component came to is part of the list.
LEMMA ItemShows ==
  ASSUME SetupIInv, NEW c \in Comps, NEW o \in Outcome, o # "absent", NEW p,
         p.item = [wiz.item EXCEPT ![c] = o]
  PROVE  ShowsList(p)
<1>1. wiz.item \in [Comps -> Outcome] BY DEF SetupIInv, SetupTypeOK, Page
<1> QED BY <1>1 DEF ShowsList

LEMMA ListChecked == ASSUME SetupIInv, WizardIInv', NEW f \in Flows, CompletePreflight(f) PROVE SetupIInv'
<1> DEFINE Goes(r) == r = "clean" \/ (r = "occupied" /\ flow[f].accepted)
           P(r) == IF ~OnForm THEN wiz
                   ELSE IF r = "error" THEN [wiz EXCEPT !.checking = FALSE]
                   ELSE Checked(wiz, r)
<1>1. UNCHANGED <<work, checks>> BY DEF CompletePreflight, svars
<1>2. PICK r \in HostStates \cup {"error"} :
         /\ flow' = IF Goes(r) THEN [flow EXCEPT ![f].at = "initialize", ![f].issues = Sends(f)]
                    ELSE Done(f)
         /\ wiz' = IF Goes(r) THEN P(r) ELSE Set([P(r) EXCEPT !.busy = FALSE])
  BY DEF CompletePreflight
<1>3. wiz \in Page /\ ShowsList(wiz) /\ work \subseteq Comps /\ flow \in [Flows -> Flow]
  BY DEF SetupIInv, SetupTypeOK, ListOK
<1>4. P(r) \in Page /\ P(r).route = wiz.route /\ P(r).status = wiz.status /\ P(r).item = wiz.item
  <2>1. CASE ~OnForm
    <3>1. P(r) = wiz BY <2>1
    <3> QED BY <1>3, <3>1
  <2>2. CASE OnForm /\ r = "error"
    <3>1. P(r) = [wiz EXCEPT !.checking = FALSE] BY <2>2
    <3> HIDE DEF P
    <3> QED BY <1>3, <3>1 DEF Page
  <2>3. CASE OnForm /\ r # "error"
    <3>1. P(r) = Checked(wiz, r) /\ r \in HostStates BY <2>3
    <3> HIDE DEF P
    <3> QED BY <1>3, <3>1, CheckedTyped
  <2> QED BY <2>1, <2>2, <2>3
<1> HIDE DEF P
<1>5. CASE Goes(r)
  <2> DEFINE q == [flow[f] EXCEPT !.at = "initialize", !.issues = flow[f].issues]
  <2>1. q.at = "initialize" BY <1>3 DEF Flow
  <2>2. flow' = [flow EXCEPT ![f] = q] BY <1>2, <1>5 DEF Sends
  <2> HIDE DEF q
  <2>3. HasWork(q) BY <2>1 DEF HasWork, Downloads
  <2>4. ShowsList(wiz') BY <1>2, <1>3, <1>4, <1>5, SameList
  <2> QED BY <1>1, <1>3, <2>2, <2>3, <2>4, SlotChanges, ListKept
<1>6. CASE ~Goes(r)
  <2> DEFINE p == [P(r) EXCEPT !.busy = FALSE]
  <2>1. flow' = Done(f) /\ wiz' = Set(p) BY <1>2, <1>6
  <2>2. p.route = wiz.route /\ p.status = wiz.status /\ p.item = wiz.item BY <1>4, FreedTyped
  <2> HIDE DEF p
  <2>3. ShowsList(wiz') BY <1>3, <2>1, <2>2, SameList, SetShows
  <2> QED BY <1>1, <1>3, <2>1, <2>3, ListEnds
<1> QED BY <1>5, <1>6

LEMMA ListInitialized ==
  ASSUME SetupIInv, WizardIInv', NEW f \in Flows,
         ServeInitialize(f) \/ InitializeFails(f) \/ InitializeReturns(f)
  PROVE  SetupIInv'
<1>1. UNCHANGED <<work, checks>> BY DEF ServeInitialize, InitializeFails, InitializeReturns, svars
<1>2. /\ wiz \in Page /\ ShowsList(wiz) /\ work \subseteq Comps /\ gone \in SUBSET Comps
      /\ flow \in [Flows -> Flow] /\ HasWork(flow[f])
  BY DEF SetupIInv, SetupTypeOK, ListOK
<1>3. CASE ServeInitialize(f)
  <2> DEFINE q == [flow[f] EXCEPT !.at = "initialized", !.todo = ToDownload(gone)]
  <2>1. q.todo # {} BY <1>2, DownloadsSome DEF Flow
  <2>2. flow' = [flow EXCEPT ![f] = q] BY <1>3 DEF ServeInitialize
  <2> HIDE DEF q
  <2>3. HasWork(q) BY <2>1 DEF HasWork
  <2>4. wiz' = wiz BY <1>3 DEF ServeInitialize
  <2> QED BY <1>1, <1>2, <2>2, <2>3, <2>4, SlotChanges, ListKept
<1>4. CASE InitializeFails(f)
  <2> DEFINE p == [wiz EXCEPT !.busy = FALSE]
  <2>1. flow' = Done(f) /\ wiz' = Set(p) BY <1>4 DEF InitializeFails
  <2>2. p.route = wiz.route /\ p.status = wiz.status /\ p.item = wiz.item BY <1>2 DEF Page
  <2> HIDE DEF p
  <2>3. ShowsList(wiz') BY <1>2, <2>1, <2>2, SameList, SetShows
  <2> QED BY <1>1, <1>2, <2>1, <2>3, ListEnds
<1>5. CASE InitializeReturns(f)
  <2>1. flow' = To(f, "account") /\ flow[f].at = "initialized" BY <1>5 DEF InitializeReturns, At
  <2>2. flow[f].todo \in SUBSET Comps /\ flow[f].todo # {} BY <1>2, <2>1 DEF HasWork, Flow
  <2>3. \E c \in Comps : Listed(flow[f].todo)[c] # "absent" BY <2>2, ListedShows
  <2> DEFINE p == [Hidden(wiz) EXCEPT !.status = "running", !.item = Listed(flow[f].todo), !.busy = FALSE]
  <2>4. p.item = Listed(flow[f].todo) BY <1>2, HiddenTyped DEF Page
  <2>5. wiz' = Set(p) BY <1>5 DEF InitializeReturns, FlowStarts
  <2> HIDE DEF p
  <2>6. ShowsList(wiz') BY <1>2, <2>3, <2>4, <2>5, SetShows DEF ShowsList
  <2>7. "account" \in Points BY DEF Points
  <2> QED BY <1>1, <1>2, <2>1, <2>6, <2>7, ListGoes
<1> QED BY <1>3, <1>4, <1>5

LEMMA ListStreams ==
  ASSUME SetupIInv, WizardIInv', NEW f \in Flows, Introduces(f) \/ StreamBreaks(f) \/ ManualActivates(f)
  PROVE  SetupIInv'
<1>1. UNCHANGED <<wiz, checks>> BY DEF Introduces, StreamBreaks, ManualActivates
<1>2. ShowsList(wiz) /\ work \subseteq Comps /\ flow \in [Flows -> Flow] BY DEF SetupIInv, SetupTypeOK, ListOK
<1>3. CASE Introduces(f)
  <2>1. PICK p \in {"system", "stream"} : flow' = To(f, p) BY <1>3 DEF Introduces
  <2>2. flow[f].at \in Downloads /\ p \in Points /\ work' = work
    BY <1>3 DEF Introduces, At, Downloads, Points, svars
  <2> QED BY <1>1, <1>2, <2>1, <2>2, ListGoes
<1>4. CASE StreamBreaks(f)
  <2>1. flow' = To(f, "cut") /\ flow[f].at = "stream" /\ work' = work \cup {Streamed(f)}
    BY <1>4 DEF StreamBreaks, At
  <2>2. "stream" \in Downloads /\ "cut" \in Points /\ Streamed(f) \in Comps
    BY <2>1, StreamedIn DEF Downloads, Points
  <2> QED BY <1>1, <1>2, <2>1, <2>2, ListGoes
<1>5. CASE ManualActivates(f)
  <2> DEFINE q == [flow[f] EXCEPT !.at = "check", !.sure = FALSE]
  <2>1. q.at = "check" BY <1>2 DEF Flow
  <2>2. flow' = [flow EXCEPT ![f] = q] BY <1>2, <1>5 DEF ManualActivates, To
  <2> HIDE DEF q
  <2>3. HasWork(q) BY <2>1 DEF HasWork, Downloads
  <2>4. work' = work BY <1>5 DEF ManualActivates
  <2> QED BY <1>1, <1>2, <2>2, <2>3, <2>4, SlotChanges, ListKept
<1> QED BY <1>3, <1>4, <1>5

LEMMA ListCompletes == ASSUME SetupIInv, WizardIInv', NEW f \in Flows, StreamCompletes(f) PROVE SetupIInv'
<1> DEFINE c    == Streamed(f)
           rest == flow[f].todo \ {c}
           pt   == IF rest = {} THEN "activate" ELSE "stream"
           o    == IF c \in gone THEN "completed" ELSE "skipped"
           st   == IF rest = {} THEN "completed" ELSE wiz.status
           q    == [flow[f] EXCEPT !.todo = rest, !.at = pt]
           p    == [wiz EXCEPT !.item[c] = o, !.status = st]
<1>1. UNCHANGED <<work, checks>> BY DEF StreamCompletes
<1>2. wiz \in Page /\ ShowsList(wiz) /\ work \subseteq Comps /\ flow \in [Flows -> Flow]
  BY DEF SetupIInv, SetupTypeOK, ListOK
<1>3. c \in Comps BY StreamedIn DEF StreamCompletes, At
<1>4. flow' = [flow EXCEPT ![f] = q] /\ wiz' = Set(p) BY DEF StreamCompletes
<1>5. HasWork(q)
  <2>1. q.todo = rest /\ q.at = pt BY <1>2 DEF Flow
  <2> QED BY <2>1 DEF HasWork, Downloads
<1>6. o \in Outcome /\ o # "absent" BY DEF Outcome
<1>7. p.item = [wiz.item EXCEPT ![c] = o] BY <1>2 DEF Page
<1> HIDE DEF q, p, o, c
<1>8. ShowsList(wiz') BY <1>2, <1>3, <1>4, <1>6, <1>7, ItemShows, SetShows
<1> QED BY <1>1, <1>2, <1>4, <1>5, <1>8, SlotChanges, ListKept

LEMMA ListFails ==
  ASSUME SetupIInv, WizardIInv', NEW f \in Flows, StreamFails(f) \/ StreamError(f) PROVE SetupIInv'
<1> DEFINE c == Streamed(f)
           p == [wiz EXCEPT !.status = "failed", !.busy = FALSE, !.item[c] = "failed"]
<1>1. UNCHANGED <<work, checks>> /\ flow' = Done(f) /\ wiz' = Set(p)
  BY DEF StreamFails, StreamError, EndsAfter, svars
<1>2. wiz \in Page /\ ShowsList(wiz) /\ work \subseteq Comps BY DEF SetupIInv, SetupTypeOK, ListOK
<1>3. c \in Comps BY StreamedIn DEF StreamFails, StreamError, HearsError, At
<1>4. p.item = [wiz.item EXCEPT ![c] = "failed"] BY <1>2 DEF Page
<1> HIDE DEF p, c
<1>5. "failed" \in Outcome BY DEF Outcome
<1>6. ShowsList(wiz') BY <1>1, <1>2, <1>3, <1>4, <1>5, ItemShows, SetShows
<1> QED BY <1>1, <1>2, <1>6, ListEnds

LEMMA ListActivates ==
  ASSUME SetupIInv, WizardIInv', NEW f \in Flows, Activates(f) \/ Leaves(f) PROVE SetupIInv'
<1>1. UNCHANGED <<work, checks>> BY DEF Activates, Leaves, svars
<1>2. wiz \in Page /\ ShowsList(wiz) /\ work \subseteq Comps /\ WizardIInv
  BY DEF SetupIInv, SetupTypeOK, ListOK
<1>3. CASE Leaves(f)
  <2>1. flow' = Done(f) /\ wiz' = LeftPage BY <1>3 DEF Leaves
  <2>2. ShowsList(wiz') BY <2>1, FreshTyped DEF ShowsList
  <2> QED BY <1>1, <1>2, <2>1, <2>2, ListEnds
<1>4. CASE Activates(f) /\ flow' = To(f, "check") /\ wiz' = wiz
  <2>1. "check" \in Points /\ "check" \notin Downloads \cup {"initialized"} BY DEF Points, Downloads
  <2> QED BY <1>1, <1>2, <1>4, <2>1, ListGoes
<1>5. CASE /\ Activates(f) /\ flow' = Done(f)
           /\ wiz' = Set([wiz EXCEPT !.status = "failed", !.busy = FALSE])
  <2> DEFINE p == [wiz EXCEPT !.status = "failed", !.busy = FALSE]
  <2>1. flow[f].at = "activate" /\ FlowOK(f) BY <1>2, <1>5 DEF Activates, At, WizardIInv
  <2>2. wiz.route = "/setup" => wiz.status \in {"running", "completed"}
    BY <2>1 DEF FlowOK, StatusIn
  <2>3. p.route = wiz.route /\ p.item = wiz.item BY <1>2 DEF Page
  <2> HIDE DEF p
  <2>4. ShowsList(p) BY <1>2, <2>2, <2>3 DEF ShowsList
  <2>5. ShowsList(wiz') BY <1>2, <1>5, <2>4, SetShows DEF p
  <2> QED BY <1>1, <1>2, <1>5, <2>5, ListEnds
<1> QED BY <1>3, <1>4, <1>5 DEF Activates

\* The inductive invariant of the wizard with its lists and counters.
THEOREM SetupInductive == SetupInit /\ [][SetupNext]_wvars => []SetupIInv
<1>1. SetupIInv /\ [SetupNext]_wvars => SetupIInv'
  <2> SUFFICES ASSUME SetupIInv, [SetupNext]_wvars PROVE SetupIInv' OBVIOUS
  <2>1. WizardIInv' BY WizardSafe DEF SetupIInv
  <2>2. CASE \E f \in Flows : FlowStep(f)
    BY <2>1, <2>2, ListChecked, ListInitialized, ListStreams, ListCompletes, ListFails, ListActivates DEF FlowStep
  <2>3. CASE \E f \in Flows : CompleteStarts(f) \/ Retry(f) \/ Manual(f)
    BY <2>1, <2>3, ListStarts
  <2> QED BY <2>1, <2>2, <2>3, ListQuiet, ListReload, ListBoot, ListForm DEF SetupNext
<1> QED BY <1>1, ListBegins, PTL

\* One flow at a time, whatever was clicked, shown again or loaded again
\* (SetupPage.tsx:892, 1083, 1105, 1115).
THEOREM OneFlowOnly == SetupInit /\ [][SetupNext]_wvars => []FlowsAlone
<1>1. WizardIInv => FlowsAlone BY DEF WizardIInv
<1> QED BY <1>1, InitSafe, WizardSafe, PTL

\* What is sent was validated at the click (SetupPage.tsx:1075-1105).
THEOREM SentIsValid == SetupInit /\ [][SetupNext]_wvars => []SendsValidated
<1>1. WizardIInv => SendsValidated BY DEF WizardIInv, FlowOK, SendsValidated
<1> QED BY <1>1, InitSafe, WizardSafe, PTL

\* What is shown as done is installed, and a system that is activated is
\* complete (SetupPage.tsx:1003-1073).
THEOREM DoneIsInstalled == SetupInit /\ [][SetupNext]_wvars => []TicksAreTrue
<1>1. WizardIInv => TicksAreTrue BY DEF WizardIInv, FlowOK, PageOK, TicksAreTrue
<1> QED BY <1>1, InitSafe, WizardSafe, PTL
===============================================================================
