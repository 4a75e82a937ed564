----------------------------- MODULE SetupWizard -----------------------------
(***************************************************************************)
(* The set-up wizard (web/src/pages/SetupPage.tsx): six steps of a form,   *)
(* the checks before the installation, and the flow that downloads the     *)
(* core components over event streams and activates the system; with the   *)
(* handlers it calls (internal/server/handlers_setup.go).                  *)
(*                                                                         *)
(* A click starts a flow that keeps what its closure saw and goes on after *)
(* every await, whatever the page shows by then.  The stepper and the      *)
(* fields stay usable while a flow is busy.  The page may be loaded again  *)
(* at any time, any call may fail or lose its answer, and a stream may be  *)
(* cut while the server goes on installing.                                *)
(***************************************************************************)
EXTENDS Naturals, FiniteSets, AuthContext

CONSTANTS
  Comps,      \* core components
  Flows,      \* slots for flows started by a click
  Mistakes,   \* steps whose fields the user may fill wrongly: of 1 and 2
  HostStates, \* what the checks of the host may find
  MaxChecks   \* bound: checks of the last step in flight

VARIABLES
  init,     \* the server: is_initialized
  gone,     \* the server: components that are not installed
  work,     \* the server: installations nobody listens to any more
  ctx,      \* the context (AuthContext)
  boot,     \* refresh() of the load: "idle", "sent", "ready" or "unset"
  seen,     \* the components missing in that answer
  wiz,      \* the page: see Page
  checks,   \* checks of the last step in flight
  flow      \* the flows

Preflights == {"clean", "occupied", "blocked", "both"}

ASSUME MistakesAssumption == Mistakes \subseteq {1, 2}
ASSUME HostAssumption == HostStates \subseteq Preflights
ASSUME CompsAssumption == Comps # {}
ASSUME ChecksAssumption == MaxChecks \in Nat

svars == <<init, gone, work>>
wvars == <<init, gone, work, ctx, boot, seen, wiz, checks, flow>>

LastStep == 5
Outcome == {"absent", "pending", "completed", "skipped", "failed"}
Points == {"idle", "preflight", "initialize", "initialized", "account", "system",
           "stream", "cut", "activate", "check", "manual"}

\* route: the page, or where it went.  issues: the steps whose fields
\* validateAll refuses.  alert: the step the dialog points at, 0 without one.
\* checked, checking, accepted: preflight, preflightBusy, portRiskAccepted.
\* item: downloadSteps.
Page == [route : {"/setup", "/login"}, step : 0..LastStep, alert : 0..LastStep,
         issues : SUBSET {1, 2, 3}, busy : BOOLEAN,
         status : {"idle", "running", "completed", "failed"},
         checked : Preflights \cup {"none"}, checking : BOOLEAN,
         accepted : BOOLEAN, item : [Comps -> Outcome]]

\* accepted, issues: what the click saw.  todo: components still to download.
Flow == [at : Points, todo : SUBSET Comps, accepted : BOOLEAN,
         issues : SUBSET {1, 2, 3}, sure : BOOLEAN]

NoFlow == [at |-> "idle", todo |-> {}, accepted |-> FALSE, issues |-> {},
           sure |-> TRUE]
Listed(list) == [c \in Comps |-> IF c \in list THEN "pending" ELSE "absent"]
FreshPage ==
  [route |-> "/setup", step |-> 0, alert |-> 0, issues |-> {1, 3}, busy |-> FALSE,
   status |-> "idle", checked |-> "none", checking |-> FALSE,
   accepted |-> FALSE, item |-> Listed({})]

\* The page that was left keeps no state.
LeftPage == [FreshPage EXCEPT !.route = "/login"]

SetupTypeOK ==
  /\ init \in BOOLEAN /\ gone \subseteq Comps /\ work \subseteq Comps
  /\ ctx \in [loading : BOOLEAN, initialized : BOOLEAN, recovery : BOOLEAN,
              missing : SUBSET Comps, user : {NoUser}]
  /\ boot \in {"idle", "sent", "ready", "unset"} /\ seen \subseteq Comps
  /\ wiz \in Page /\ checks \in 0..MaxChecks
  /\ flow \in [Flows -> Flow]

SetupInit ==
  /\ init = FALSE /\ gone \in SUBSET Comps /\ work = {}
  /\ ctx = FreshContext /\ boot = "sent" /\ seen = {}
  /\ wiz = FreshPage /\ checks = 0
  /\ flow = [f \in Flows |-> NoFlow]

-----------------------------------------------------------------------------
(* Helpers.                                                                *)

\* setState of a flow whose page is gone does nothing.
Set(p) == IF wiz.route = "/setup" THEN p ELSE wiz
\* The download view takes the place of the form, for good: what the form held
\* is never read again and forgotten here.
Hidden(p) ==
  [p EXCEPT !.step = LastStep, !.alert = 0, !.issues = {}, !.checked = "none",
            !.checking = FALSE, !.accepted = FALSE]

\* The slot the next flow takes.
Free(f) == f = CHOOSE g \in Flows : flow[g].at = "idle"

At(f, p) == flow[f].at = p
To(f, p) == [flow EXCEPT ![f].at = p]
Done(f) == [flow EXCEPT ![f] = NoFlow]
OnForm == wiz.route = "/setup" /\ wiz.status = "idle"
OnStep(k) == OnForm /\ wiz.step = k /\ wiz.alert = 0

\* normalizeDownloadComponents: an empty list means both components.
ToDownload(list) == IF list = {} THEN Comps ELSE list

\* The next component: one stream at a time.
Streamed(f) == CHOOSE c \in flow[f].todo : TRUE

\* Mutant: the recovery view also replaces a flow that runs.
RecoversAlways(c, p) ==
  IF ~c.loading /\ c.initialized /\ c.recovery
  THEN [Hidden(p) EXCEPT !.status = "failed", !.item = Listed(ToDownload(c.missing))]
  ELSE p
\* The effect that turns the form into the failed download view.
Recovers(c, p) ==
  IF ~c.loading /\ c.initialized /\ c.recovery /\ p.status = "idle"
  THEN [Hidden(p) EXCEPT !.status = "failed", !.item = Listed(ToDownload(c.missing))]
  ELSE p

\* The two effects on the context: leave the page, or show the recovery.
Effects(c, p) ==
  IF p.route # "/setup" \/ LeaveSetup(c) # "/setup" THEN LeftPage
  ELSE Recovers(c, p)

-----------------------------------------------------------------------------
(* Loading, and what the page asks on its own.                             *)

\* Requests that left may be served all the same.
Reload ==
  /\ wiz' = FreshPage
  /\ ctx' = RefreshStarts(FreshContext) /\ boot' = "sent" /\ seen' = {}
  /\ checks' = 0
  /\ flow' = [f \in Flows |-> NoFlow]
  /\ work' = work \cup { Streamed(f) : f \in { g \in Flows : At(g, "stream") } }
  /\ init' \in {init} \cup { TRUE : f \in { g \in Flows : At(g, "initialize") } }
  /\ UNCHANGED gone

\* refresh() of AuthProvider is served, and its answer is read later.
ServeBoot ==
  /\ boot = "sent"
  /\ boot' = IF init THEN "ready" ELSE "unset"
  /\ seen' = IF init THEN gone ELSE {}
  /\ UNCHANGED <<svars, ctx, wiz, checks, flow>>

BootReturns ==
  /\ \/ boot \in {"ready", "unset"}
        /\ ctx' = RefreshEnds(CheckKnown(ctx, boot = "ready", seen), NoUser)
     \/ boot # "idle" /\ ctx' = RefreshFails(ctx)
  /\ boot' = "idle" /\ seen' = {}
  /\ wiz' = Effects(ctx', wiz)
  /\ UNCHANGED <<svars, checks, flow>>

\* The host's interfaces arrive: the first one that is up is selected.
InterfacesReturn ==
  /\ OnForm /\ 3 \in wiz.issues
  /\ wiz' = [wiz EXCEPT !.issues = @ \ {3}]
  /\ UNCHANGED <<svars, ctx, boot, seen, checks, flow>>

-----------------------------------------------------------------------------
(* The form.                                                               *)

\* Mutant: the button moves one step on, past the last one.
GoOn(k) ==
  /\ OnForm /\ wiz.alert = 0 /\ k # wiz.step
  /\ wiz' = [wiz EXCEPT !.step = @ + 1]
  /\ UNCHANGED <<svars, ctx, boot, seen, checks, flow>>
\* go(), and the effect that checks the host on the last step.
Go(k) ==
  /\ OnForm /\ wiz.alert = 0 /\ k # wiz.step
  /\ \/ k = LastStep /\ checks < MaxChecks /\ checks' = checks + 1
        /\ wiz' = [wiz EXCEPT !.step = k, !.checking = TRUE]
     \/ k # LastStep /\ wiz' = [wiz EXCEPT !.step = k] /\ UNCHANGED checks
  /\ UNCHANGED <<svars, ctx, boot, seen, flow>>

\* Step 1: the account; its fields may be right or wrong.
EditAccount ==
  /\ OnStep(1)
  /\ \E wrong \in SUBSET (Mistakes \cap {1}) : wiz' = [wiz EXCEPT !.issues = (@ \ {1}) \cup wrong]
  /\ UNCHANGED <<svars, ctx, boot, seen, checks, flow>>

\* Step 2: the port may be wrong; another time zone takes back the check and
\* the consent.
EditSystem ==
  /\ OnStep(2)
  /\ \/ \E wrong \in SUBSET (Mistakes \cap {2}) : wiz' = [wiz EXCEPT !.issues = (@ \ {2}) \cup wrong]
     \/ wiz' = [wiz EXCEPT !.checked = "none", !.accepted = FALSE]
  /\ UNCHANGED <<svars, ctx, boot, seen, checks, flow>>

\* fetchPreflight ends: a host without occupied ports takes the consent back.
Occupied(r) == r \in {"occupied", "both"}
Blocks(r) == r \in {"blocked", "both"}
Checked(p, r) ==
  [p EXCEPT !.checking = FALSE, !.checked = r, !.accepted = @ /\ Occupied(r)]

Recheck ==
  /\ OnStep(LastStep) /\ ~wiz.checking /\ checks < MaxChecks
  /\ checks' = checks + 1
  /\ wiz' = [wiz EXCEPT !.checking = TRUE]
  /\ UNCHANGED <<svars, ctx, boot, seen, flow>>

CheckArrives ==
  /\ checks > 0 /\ checks' = checks - 1
  /\ IF ~OnForm THEN UNCHANGED wiz
     ELSE \/ \E r \in HostStates : wiz' = Checked(wiz, r)
          \/ wiz' = [wiz EXCEPT !.checking = FALSE]
  /\ UNCHANGED <<svars, ctx, boot, seen, flow>>

\* The box below the list of occupied ports.
Accept ==
  /\ OnStep(LastStep) /\ Occupied(wiz.checked)
  /\ wiz' = [wiz EXCEPT !.accepted = ~@]
  /\ UNCHANGED <<svars, ctx, boot, seen, checks, flow>>

\* The button of the dialog.
GoToIssue ==
  /\ OnForm /\ wiz.alert # 0
  /\ wiz' = [wiz EXCEPT !.step = wiz.alert, !.alert = 0]
  /\ UNCHANGED <<svars, ctx, boot, seen, checks, flow>>

-----------------------------------------------------------------------------
(* completeInitialize: validate, check the host, initialise, download.     *)

FooterComplete ==
  /\ OnStep(LastStep)
  /\ ~wiz.busy /\ ~wiz.checking /\ ~Blocks(wiz.checked)
  /\ Occupied(wiz.checked) => wiz.accepted

CompleteRefused ==
  /\ FooterComplete /\ wiz.issues # {}
  /\ wiz' = [wiz EXCEPT !.alert = CHOOSE k \in wiz.issues :
                                    \A j \in wiz.issues : k <= j]
  /\ UNCHANGED <<svars, ctx, boot, seen, checks, flow>>

CompleteStarts(f) ==
  /\ FooterComplete /\ wiz.issues = {} /\ Free(f)
  /\ flow' = [flow EXCEPT ![f] = [NoFlow EXCEPT !.at = "preflight",
                                   !.accepted = wiz.accepted, !.issues = wiz.issues]]
  /\ wiz' = [wiz EXCEPT !.busy = TRUE, !.checking = TRUE]
  /\ UNCHANGED <<svars, ctx, boot, seen, checks>>

\* Mutant: the fields of the page, not those of the click, are sent.
SendsCurrent(f) == wiz.issues
Sends(f) == flow[f].issues

\* The answer decides, with the consent of the click.
CompletePreflight(f) ==
  /\ At(f, "preflight")
  /\ \E r \in HostStates \cup {"error"} :
       LET goes == r = "clean" \/ (r = "occupied" /\ flow[f].accepted)
           p == IF ~OnForm THEN wiz
                ELSE IF r = "error" THEN [wiz EXCEPT !.checking = FALSE]
                ELSE Checked(wiz, r)
       IN /\ flow' = IF goes
                     THEN [flow EXCEPT ![f].at = "initialize", ![f].issues = Sends(f)]
                     ELSE Done(f)
          /\ wiz' = IF goes THEN p ELSE Set([p EXCEPT !.busy = FALSE])
  /\ UNCHANGED <<svars, ctx, boot, seen, checks>>

\* POST /setup/initialize: the row is written before the answer leaves.
ServeInitialize(f) ==
  /\ At(f, "initialize")
  /\ init' = TRUE
  /\ flow' = [flow EXCEPT ![f].at = "initialized", ![f].todo = ToDownload(gone)]
  /\ UNCHANGED <<gone, work, ctx, boot, seen, wiz, checks>>

\* It fails, or its answer is lost.
InitializeFails(f) ==
  /\ At(f, "initialize") \/ At(f, "initialized")
  /\ flow' = Done(f)
  /\ wiz' = Set([wiz EXCEPT !.busy = FALSE])
  /\ UNCHANGED <<svars, ctx, boot, seen, checks>>

\* runDownloadFlow, up to its first timer.
FlowStarts(list, b) ==
  Set([Hidden(wiz) EXCEPT !.status = "running", !.item = Listed(list), !.busy = b])

InitializeReturns(f) ==
  /\ At(f, "initialized")
  /\ flow' = To(f, "account")
  /\ wiz' = FlowStarts(flow[f].todo, FALSE)
  /\ UNCHANGED <<svars, ctx, boot, seen, checks>>

-----------------------------------------------------------------------------
(* runDownloadFlow.                                                        *)

\* The three timers of the introduction.
Introduces(f) ==
  /\ \/ At(f, "account") /\ flow' = To(f, "system")
     \/ At(f, "system") /\ flow' = To(f, "stream")
  /\ UNCHANGED <<svars, ctx, boot, seen, wiz, checks>>

\* The stream says completed, or skipped when the component is there.
StreamCompletes(f) ==
  /\ At(f, "stream")
  /\ LET c == Streamed(f)
         rest == flow[f].todo \ {c}
     IN /\ gone' = gone \ {c}
        /\ flow' = [flow EXCEPT ![f].todo = rest,
                                ![f].at = IF rest = {} THEN "activate" ELSE "stream"]
        /\ wiz' = Set([wiz EXCEPT !.item[c] = IF c \in gone THEN "completed" ELSE "skipped",
                              !.status = IF rest = {} THEN "completed" ELSE @])
  /\ UNCHANGED <<init, work, ctx, boot, seen, checks>>

\* Mutant: a failed component does not end the flow.
GoesOnAfter(f) ==
  LET rest == flow[f].todo \ {Streamed(f)}
  IN [flow EXCEPT ![f].todo = rest, ![f].at = IF rest = {} THEN "activate" ELSE "stream"]
EndsAfter(f) == Done(f)

\* The stream says failed: the flow ends in the view with the two buttons.
StreamFails(f) ==
  /\ At(f, "stream") /\ Streamed(f) \in gone
  /\ flow' = EndsAfter(f)
  /\ wiz' = Set([wiz EXCEPT !.status = "failed", !.busy = FALSE,
                        !.item[Streamed(f)] = "failed"])
  /\ UNCHANGED <<svars, ctx, boot, seen, checks>>

\* The connection breaks; the server may go on installing.
StreamBreaks(f) ==
  /\ At(f, "stream")
  /\ flow' = To(f, "cut")
  /\ work' = work \cup {Streamed(f)}
  /\ UNCHANGED <<init, gone, ctx, boot, seen, wiz, checks>>

\* Mutant: nobody listens to source.onerror.
DeafToError(f) == FALSE
HearsError(f) == At(f, "cut")

StreamError(f) ==
  /\ HearsError(f)
  /\ flow' = Done(f)
  /\ wiz' = Set([wiz EXCEPT !.status = "failed", !.busy = FALSE,
                        !.item[Streamed(f)] = "failed"])
  /\ UNCHANGED <<svars, ctx, boot, seen, checks>>

\* The server ends an installation nobody listens to.
InstallEnds(c) ==
  /\ c \in work /\ work' = work \ {c}
  /\ gone' \in {gone, gone \ {c}}
  /\ UNCHANGED <<init, ctx, boot, seen, wiz, checks, flow>>

-----------------------------------------------------------------------------
(* activateAndGoLogin, and the two buttons of the failed view.             *)

Activates(f) ==
  /\ At(f, "activate")
  /\ \/ /\ flow' = To(f, "check") /\ ctx' = RefreshStarts(ctx)
        /\ UNCHANGED wiz
     \/ /\ flow' = Done(f)    \* refused, or the answer is lost
        /\ wiz' = Set([wiz EXCEPT !.status = "failed", !.busy = FALSE])
        /\ UNCHANGED ctx
  /\ UNCHANGED <<init, gone, work, boot, seen, checks>>

\* goManualDownload: the answer of the activation does not matter.
ManualActivates(f) ==
  /\ At(f, "manual")
  /\ flow' = [To(f, "check") EXCEPT ![f].sure = FALSE]
  /\ ctx' = RefreshStarts(ctx)
  /\ UNCHANGED <<init, gone, work, boot, seen, wiz, checks>>

\* refresh() and navigate("/login"), whatever the answer was.
Leaves(f) ==
  /\ At(f, "check")
  /\ ctx' \in { RefreshEnds(CheckKnown(ctx, init, gone), NoUser), RefreshFails(ctx) }
  /\ wiz' = LeftPage
  /\ flow' = Done(f)
  /\ UNCHANGED <<svars, boot, seen, checks>>

\* The login page sends a tab that knows of no installation back to a new
\* wizard.
LoginPage ==
  /\ wiz.route = "/login" /\ PublicOnly(ctx) = "/setup"
  /\ wiz' = FreshPage
  /\ UNCHANGED <<svars, ctx, boot, seen, checks, flow>>

FailedView == wiz.route = "/setup" /\ wiz.status = "failed" /\ ~wiz.busy

\* The components of the list that is shown.
Again == { c \in Comps : wiz.item[c] # "absent" }

Retry(f) ==
  /\ FailedView /\ Free(f)
  /\ flow' = [flow EXCEPT ![f] = [NoFlow EXCEPT !.at = "account",
                                                !.todo = Again]]
  /\ wiz' = FlowStarts(Again, TRUE)
  /\ UNCHANGED <<svars, ctx, boot, seen, checks>>

Manual(f) ==
  /\ FailedView /\ Free(f)
  /\ flow' = [flow EXCEPT ![f] = [NoFlow EXCEPT !.at = "manual"]]
  /\ wiz' = [wiz EXCEPT !.busy = TRUE]
  /\ UNCHANGED <<svars, ctx, boot, seen, checks>>

-----------------------------------------------------------------------------

FormStep ==
  \/ \E k \in 0..LastStep : Go(k)
  \/ EditAccount \/ EditSystem \/ Recheck \/ Accept \/ GoToIssue
  \/ CompleteRefused \/ InterfacesReturn \/ CheckArrives

FlowStep(f) ==
  \/ CompletePreflight(f) \/ ServeInitialize(f) \/ InitializeFails(f)
  \/ InitializeReturns(f) \/ Introduces(f)
  \/ StreamCompletes(f) \/ StreamFails(f) \/ StreamBreaks(f) \/ StreamError(f)
  \/ Activates(f) \/ ManualActivates(f) \/ Leaves(f)

SetupNext ==
  \/ Reload \/ ServeBoot \/ BootReturns \/ LoginPage \/ FormStep
  \/ \E c \in Comps : InstallEnds(c)
  \/ \E f \in Flows : FlowStep(f) \/ CompleteStarts(f) \/ Retry(f) \/ Manual(f)

-----------------------------------------------------------------------------
(* Properties.                                                             *)

\* At most one flow runs, so that no component is downloaded over two streams
\* of one page: the first form, the recovery view that a late /setup/check
\* brings up, and the two buttons of the failed view exclude each other by
\* downloadStatus and busy (SetupPage.tsx:892, 1083, 1105, 1115).
FlowsAlone ==
  \A f, g \in Flows : flow[f].at # "idle" /\ flow[g].at # "idle" => f = g

\* What is sent to /setup/initialize is what validateAll accepted at the click,
\* although the fields and the stepper stay usable during the check of the host
\* (SetupPage.tsx:1075-1105).
SendsValidated ==
  \A f \in Flows : flow[f].at \in {"initialize", "initialized"} => flow[f].issues = {}

\* A component shown as done is installed, and a flow that goes on to activate
\* the system has all of them, whatever was cut, retried or shown from an older
\* answer (SetupPage.tsx:1003-1073).
TicksAreTrue ==
  /\ wiz.route = "/setup" =>
       \A c \in Comps : wiz.item[c] \in {"completed", "skipped"} => c \notin gone
  /\ \A f \in Flows :
       At(f, "activate") \/ (At(f, "check") /\ flow[f].sure) => init /\ gone = {}

\* The wizard does not hang: after a click it comes back to the form or to the
\* two buttons of the failed view, or it leaves the page.
WizardReturns ==
  (wiz.busy \/ wiz.status \in {"running", "completed"}) ~>
    (wiz.route # "/setup" \/ (~wiz.busy /\ wiz.status \in {"idle", "failed"}))
=============================================================================
