---------------------------- MODULE ProxyConsole -----------------------------
(***************************************************************************)
(* The page of Mihomo's proxy groups (web/src/app/mihomo/proxies/page.tsx):*)
(* the node a group uses and the routing mode are shown before the server  *)
(* has them, and read back by load(), which a timer, a button and every    *)
(* handler start without waiting for one another.                          *)
(*                                                                         *)
(* The answers of two loads may arrive in either order, and each reads the *)
(* selection and the mode at moments of its own.                           *)
(***************************************************************************)
EXTENDS Naturals

CONSTANTS
  ProxyNodes,   \* nodes of the group that is shown
  ProxyModes,   \* direct, rule, global
  ProxySlots,   \* slots for handlers and loads in flight
  ProxyFaults,  \* bound: calls that fail
  ProxyOthers   \* bound: changes by other clients of the controller

ASSUME ProxyBounds == ProxyFaults \in Nat /\ ProxyOthers \in Nat
ASSUME ProxyChoices == ProxyNodes # {} /\ ProxyModes # {}

VARIABLES
  now,      \* the controller: the node of the group and the mode
  proxies,  \* the page: selected node, mode, autoRefresh, loading
  task,     \* handlers and loads in flight
  upsets    \* how many calls failed, how often other clients acted

pvars == <<now, proxies, task, upsets>>

State == [node : ProxyNodes, mode : ProxyModes]
View == [node : ProxyNodes, mode : ProxyModes, auto : BOOLEAN, loading : BOOLEAN]

\* "proxies": load() waits for the groups; "overview": and for the mode;
\* "loaded": for both answers; "select", "switch": the call of the handler.
\* node, mode: what the task sends, or has read; back: previous.
Steps == {"idle", "proxies", "overview", "loaded", "select", "switch"}
Task == [at : Steps, node : ProxyNodes, mode : ProxyModes, back : ProxyModes]
NoTask == [at |-> "idle", node |-> CHOOSE n \in ProxyNodes : TRUE,
           mode |-> CHOOSE m \in ProxyModes : TRUE,
           back |-> CHOOSE m \in ProxyModes : TRUE]

ProxyTypeOK ==
  /\ now \in State /\ proxies \in View
  /\ task \in [ProxySlots -> Task]
  /\ upsets \in [failed : 0..ProxyFaults, others : 0..ProxyOthers]

\* The first load of the page has been sent.
ProxyInit ==
  /\ now \in State
  /\ proxies \in [node : ProxyNodes, mode : ProxyModes, auto : {TRUE}, loading : {TRUE}]
  /\ \E s \in ProxySlots :
       task = [x \in ProxySlots |-> IF x = s THEN [NoTask EXCEPT !.at = "proxies"]
                                    ELSE NoTask]
  /\ upsets = [failed |-> 0, others |-> 0]

-----------------------------------------------------------------------------

\* The slot the next one takes.
OpenSlot(s) ==
  task[s].at = "idle" /\ s = CHOOSE x \in ProxySlots : task[x].at = "idle"
Begins(s, k) == task' = [task EXCEPT ![s] = k]
Over(s) == task' = [task EXCEPT ![s] = NoTask]

\* load(): from a handler, a timer or a button.
LoadFrom(s) ==
  /\ Begins(s, [NoTask EXCEPT !.at = "proxies"])
  /\ proxies' = [proxies EXCEPT !.loading = TRUE]

\* One more call that fails.
Fails == /\ upsets.failed < ProxyFaults
         /\ upsets' = [upsets EXCEPT !.failed = @ + 1]

-----------------------------------------------------------------------------
(* load().                                                                 *)

\* The timer of autoRefresh looks at nothing else.
Timer(s) == proxies.auto /\ OpenSlot(s)

Tick(s) == Timer(s) /\ LoadFrom(s) /\ UNCHANGED <<now, upsets>>

\* The button is disabled while a load is in flight.
Refresh(s) ==
  /\ ~proxies.loading /\ OpenSlot(s)
  /\ LoadFrom(s)
  /\ UNCHANGED <<now, upsets>>

\* The three calls of Promise.all are served in any order; the list of groups
\* and the overview are what the page keeps.
ServeProxies(s) ==
  /\ task[s].at = "proxies"
  /\ Begins(s, [task[s] EXCEPT !.at = "overview", !.node = now.node])
  /\ UNCHANGED <<now, proxies, upsets>>

ServeOverview(s) ==
  /\ task[s].at = "overview"
  /\ Begins(s, [task[s] EXCEPT !.at = "loaded", !.mode = now.mode])
  /\ UNCHANGED <<now, proxies, upsets>>

\* Mutant: load() leaves the mode alone.
KeepsMode(v, s) == [v EXCEPT !.node = task[s].node]
\* What load() sets.
Loaded(v, s) == [v EXCEPT !.node = task[s].node, !.mode = task[s].mode]

\* Without the overview the mode stays as it is shown.
LoadReturns(s) ==
  /\ task[s].at = "loaded"
  /\ \/ proxies' = [Loaded(proxies, s) EXCEPT !.loading = FALSE] /\ UNCHANGED upsets
     \/ Fails /\ proxies' = [proxies EXCEPT !.node = task[s].node, !.loading = FALSE]
     \/ Fails /\ proxies' = [proxies EXCEPT !.loading = FALSE]
  /\ Over(s)
  /\ UNCHANGED now

-----------------------------------------------------------------------------
(* The handlers.                                                           *)

AutoRefresh ==
  /\ proxies' = [proxies EXCEPT !.auto = ~@]
  /\ UNCHANGED <<now, task, upsets>>

\* selectNode: shown at once.
Select(s, n) ==
  /\ OpenSlot(s)
  /\ proxies' = [proxies EXCEPT !.node = n]
  /\ Begins(s, [NoTask EXCEPT !.at = "select", !.node = n])
  /\ UNCHANGED <<now, upsets>>

\* The page is read again whether or not the call succeeded.
SelectReads(s) == LoadFrom(s)

SelectReturns(s) ==
  /\ task[s].at = "select"
  /\ \/ now' = [now EXCEPT !.node = task[s].node] /\ LoadFrom(s) /\ UNCHANGED upsets
     \/ now' \in {now, [now EXCEPT !.node = task[s].node]} /\ Fails /\ SelectReads(s)

\* switchMode: shown at once, with the mode to go back to.
Switch(s, m) ==
  /\ OpenSlot(s)
  /\ proxies' = [proxies EXCEPT !.mode = m]
  /\ Begins(s, [NoTask EXCEPT !.at = "switch", !.mode = m, !.back = proxies.mode])
  /\ UNCHANGED <<now, upsets>>

\* A call that failed may have been carried out.
SwitchReturns(s) ==
  /\ task[s].at = "switch"
  /\ \/ now' = [now EXCEPT !.mode = task[s].mode] /\ LoadFrom(s) /\ UNCHANGED upsets
     \/ /\ now' \in {now, [now EXCEPT !.mode = task[s].mode]} /\ Fails
        /\ proxies' = [proxies EXCEPT !.mode = task[s].back]
        /\ Over(s)

\* Another tab, or another panel of the controller.
OtherClient ==
  /\ upsets.others < ProxyOthers
  /\ upsets' = [upsets EXCEPT !.others = @ + 1]
  /\ now' \in State \ {now}
  /\ UNCHANGED <<proxies, task>>

-----------------------------------------------------------------------------

LoadStep(s) == Tick(s) \/ ServeProxies(s) \/ ServeOverview(s) \/ LoadReturns(s)
CallStep(s) == SelectReturns(s) \/ SwitchReturns(s)

ProxyNext ==
  \/ AutoRefresh \/ OtherClient
  \/ \E s \in ProxySlots :
       \/ LoadStep(s) \/ CallStep(s) \/ Refresh(s)
       \/ \E n \in ProxyNodes : Select(s, n)
       \/ \E m \in ProxyModes : Switch(s, m)

-----------------------------------------------------------------------------
(* Properties.                                                             *)

Settled == \A s \in ProxySlots : task[s].at \notin {"select", "switch"}
Agrees == proxies.node = now.node /\ proxies.mode = now.mode

\* A page that is left alone with autoRefresh on shows the controller's node and
\* mode in the end, whatever was rolled back to an older mode, read before a
\* change or answered out of order (page.tsx:858-909, 1155-1188).
PageCatchesUp == <>[](proxies.auto /\ Settled) => <>[]Agrees
=============================================================================
