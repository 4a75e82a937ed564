---------------------------- MODULE MosdnsSystem -----------------------------
(***************************************************************************)
(* The system page of MosDNS (web/src/app/mosdns/system/page.tsx, the      *)
(* cards of web/src/components/mosdns and the handlers of                  *)
(* internal/server/handlers_mosdns.go). A change of the upstream servers   *)
(* sends the whole table of the page; a switch is turned at once and turned*)
(* back when it is refused; and the page is loaded again after some of the *)
(* calls. One group of upstreams and one of the eight switches that are    *)
(* turned stand for all; the seven requests of a load are answered         *)
(* together; of the proxy, the log capacity and the schedule, which are    *)
(* typed, only the calls are kept, not the texts.                          *)
(***************************************************************************)
EXTENDS Naturals, FiniteSets

CONSTANTS
  Upstreams,  \* upstream servers, each with its name, protocol and address
  SysCalls,   \* calls in flight
  SysReads    \* loadSystem in flight

ASSUME SysReadsAssumption == SysReads # {}

UpstreamTable == [Upstreams -> {"none", "off", "on"}]
Present(t) == { u \in Upstreams : t[u] # "none" }

\* What the server keeps and the page shows; mode is TRUE for "compatible".
Kept == [ups : UpstreamTable, flag : BOOLEAN, mode : BOOLEAN]
Blank == [ups |-> [u \in Upstreams |-> "none"], flag |-> FALSE, mode |-> TRUE]

VARIABLES
  sys,      \* the server
  spage,    \* the page
  loaded,   \* some load has arrived
  sread,    \* loadSystem, in flight
  scall,    \* the calls of the switches, the table, the capacity, the schedule
  saveall,  \* saveAndRestart
  gone,     \* history: upstreams that were not there, or were taken out
  untrue,   \* history: what the last answer said wrongly, until a load shows it
  muddled   \* history: see SystemAgrees

sysvars == <<sys, spage, loaded, sread, scall, saveall, gone, untrue, muddled>>

\* all: the load saveAndRestart waits for.
SysRead == [at : {"idle", "sent", "back"}, got : Kept, all : BOOLEAN]
NoSysRead == [at |-> "idle", got |-> Blank, all |-> FALSE]
SysCall == [at : {"idle", "sent", "ok", "refused"}, val : BOOLEAN, ups : UpstreamTable,
            what : {"table", "flag", "mode", "capacity", "task"}]
NoSysCall == [at |-> "idle", val |-> FALSE, ups |-> Blank.ups, what |-> "task"]
\* Of these the page shows what the server keeps.
Displayed == {"table", "flag", "mode"}
BatchParts == {"capacity", "table", "task"}
Batch == [at : {"idle", "parts", "restart", "load"}, out : SUBSET BatchParts, ups : UpstreamTable]
NoBatch == [at |-> "idle", out |-> {}, ups |-> Blank.ups]

SystemTypeOK ==
  /\ sys \in Kept /\ spage \in Kept /\ loaded \in BOOLEAN
  /\ sread \in [SysReads -> SysRead] /\ scall \in [SysCalls -> SysCall] /\ saveall \in Batch
  /\ gone \in SUBSET Upstreams /\ untrue \in SUBSET Displayed /\ muddled \in BOOLEAN

FirstRead(l) == sread[l].at = "idle" /\ l = CHOOSE x \in SysReads : sread[x].at = "idle"
SysReading == \E l \in SysReads : sread[l].at # "idle"
Sent(what) == \/ \E c \in SysCalls : scall[c].at # "idle" /\ scall[c].what = what
              \/ what \in saveall.out
SysQuiet == ~SysReading /\ (\A c \in SysCalls : scall[c].at = "idle") /\ saveall = NoBatch

\* The page is loaded when it is mounted.
SystemInit ==
  /\ sys \in { [Blank EXCEPT !.ups = t] : t \in UpstreamTable }
  /\ spage = Blank /\ loaded = FALSE
  /\ sread = [l \in SysReads |-> IF l = CHOOSE x \in SysReads : TRUE
                                 THEN [NoSysRead EXCEPT !.at = "sent"] ELSE NoSysRead]
  /\ scall = [c \in SysCalls |-> NoSysCall] /\ saveall = NoBatch
  /\ gone = Upstreams \ Present(sys.ups) /\ untrue = {} /\ muddled = FALSE

-----------------------------------------------------------------------------
(* loadSystem: it replaces everything the page shows.                      *)

LoadSystem(l, all) ==
  /\ FirstRead(l)
  /\ sread' = [sread EXCEPT ![l] = [NoSysRead EXCEPT !.at = "sent", !.all = all]]

SystemRead(l) ==
  /\ sread[l].at = "sent"
  /\ sread' = [sread EXCEPT ![l].at = "back", ![l].got = sys]
  /\ UNCHANGED <<sys, spage, loaded, scall, saveall, gone, untrue, muddled>>

\* The save that waited for the load is over with it, whatever came of it.
LoadEnds(l) ==
  /\ sread' = [sread EXCEPT ![l] = NoSysRead]
  /\ saveall' = IF sread[l].all THEN [saveall EXCEPT !.at = "idle"] ELSE saveall

SystemShown(l) ==
  /\ sread[l].at = "back" /\ LoadEnds(l)
  /\ spage' = sread[l].got /\ loaded' = TRUE /\ untrue' = {}
  /\ UNCHANGED <<sys, scall, gone, muddled>>

SystemNotRead(l) ==
  /\ sread[l].at = "sent" /\ LoadEnds(l)
  /\ muddled' = TRUE
  /\ UNCHANGED <<sys, spage, loaded, scall, gone, untrue>>

-----------------------------------------------------------------------------
(* The calls.                                                              *)

SysSends(c, what, val, page) ==
  /\ scall[c].at = "idle" /\ c = CHOOSE x \in SysCalls : scall[x].at = "idle"
  /\ scall' = [scall EXCEPT ![c] = [at |-> "sent", what |-> what, val |-> val,
                 ups |-> IF what = "table" THEN page.ups ELSE Blank.ups]]
  /\ spage' = page
  /\ muddled' = (muddled \/ SysReading \/ Sent(what))
  /\ UNCHANGED <<sys, loaded, sread, saveall, untrue>>

\* persistGroups, with groupsToPayload: the table is shown and sent.
PersistGroups(c, t) == SysSends(c, "table", FALSE, [spage EXCEPT !.ups = t])

Flip(v) == IF v = "on" THEN "off" ELSE "on"

ToggleServer(c, u) ==
  /\ spage.ups[u] # "none" /\ PersistGroups(c, [spage.ups EXCEPT ![u] = Flip(@)])
  /\ UNCHANGED gone

\* Three questions, which any of may be cancelled.
EditServer(c, u, w) ==
  /\ spage.ups[u] # "none" /\ spage.ups[w] = "none"
  /\ PersistGroups(c, [spage.ups EXCEPT ![w] = spage.ups[u], ![u] = "none"])
  /\ gone' = gone \cup {u}

DeleteServer(c, u) ==
  /\ spage.ups[u] # "none" /\ PersistGroups(c, [spage.ups EXCEPT ![u] = "none"])
  /\ gone' = gone \cup {u}

AddServer(c, u) ==
  /\ loaded /\ spage.ups[u] = "none" /\ PersistGroups(c, [spage.ups EXCEPT ![u] = "on"])
  /\ UNCHANGED gone

\* toggleAll of the header of a group: a call per server that is not yet as the
\* others shall be, each from the table shown before the first, so that each
\* takes back what the ones before it sent and the page shows the last.
ToggleAll(order) ==
  LET to == IF \A u \in Present(spage.ups) : spage.ups[u] = "on" THEN "off" ELSE "on"
      turned == { u \in Present(spage.ups) : spage.ups[u] # to }
      with(u) == [spage.ups EXCEPT ![u] = to]
      users == { c \in SysCalls : order[c] \in turned }
  IN /\ Cardinality(turned) > 1
     /\ \A c \in SysCalls : scall[c].at = "idle"
     /\ \A u \in turned : Cardinality({ c \in SysCalls : order[c] = u }) = 1
     /\ scall' = [c \in SysCalls |-> IF c \in users
                    THEN [at |-> "sent", what |-> "table", val |-> FALSE, ups |-> with(order[c])] ELSE NoSysCall]
     /\ \E last \in turned : spage' = [spage EXCEPT !.ups = with(last)]
     /\ muddled' = TRUE
     /\ UNCHANGED <<sys, loaded, sread, saveall, gone, untrue>>

\* toggleFilter, toggleResolution, toggleCacheStrategy.
ToggleSwitch(c) ==
  /\ SysSends(c, "flag", ~spage.flag, [spage EXCEPT !.flag = ~@])
  /\ UNCHANGED gone

\* changeRunMode, the mode that is on included.
ChangeRunMode(c, m) == SysSends(c, "mode", m, [spage EXCEPT !.mode = m]) /\ UNCHANGED gone

SaveLogCapacity(c) == SysSends(c, "capacity", FALSE, spage) /\ UNCHANGED gone
\* saveScheduler and runRoutingAction.
RunTask(c) == SysSends(c, "task", FALSE, spage) /\ UNCHANGED gone

\* What the server keeps once call c is stored.
SysStored(c) ==
  CASE scall[c].what = "table" -> [sys EXCEPT !.ups = scall[c].ups]
    [] scall[c].what = "flag" -> [sys EXCEPT !.flag = scall[c].val]
    [] scall[c].what = "mode" -> [sys EXCEPT !.mode = scall[c].val]
    [] OTHER -> sys
Answered(c, how) ==
  /\ scall[c].at = "sent" /\ scall' = [scall EXCEPT ![c].at = how]
  /\ UNCHANGED <<spage, loaded, sread, saveall, gone, muddled>>

ServeSystem(c) ==
  /\ Answered(c, "ok") /\ sys' = SysStored(c) /\ untrue' = untrue \ {scall[c].what}
\* The handlers of the switches and of the upstreams drop the error of the
\* database and answer 200.
SwallowSystem(c) ==
  /\ scall[c].what \in Displayed
  /\ Answered(c, "ok") /\ UNCHANGED sys /\ untrue' = untrue \cup {scall[c].what}
RefuseSystem(c) == Answered(c, "refused") /\ UNCHANGED <<sys, untrue>>
\* The answer is lost on its way back: to the page the call failed.
LoseAnswer(c) ==
  /\ scall[c].what \in Displayed
  /\ Answered(c, "refused") /\ sys' = SysStored(c) /\ untrue' = untrue \cup {scall[c].what}

Settle(c) == scall' = [scall EXCEPT ![c] = NoSysCall]
\* The schedule and the tasks of the cache are read again after they were sent,
\* the upstreams after they were refused.
Reloads(c) ==
  /\ Settle(c) /\ \E l \in SysReads : LoadSystem(l, FALSE)
  /\ muddled' = (muddled \/ saveall # NoBatch \/ \E d \in SysCalls \ {c} : scall[d].at # "idle")
  /\ UNCHANGED <<sys, spage, loaded, saveall, gone, untrue>>

SystemSaved(c) ==
  /\ scall[c].at = "ok"
  /\ IF scall[c].what = "task" THEN Reloads(c)
     ELSE Settle(c) /\ UNCHANGED <<sys, spage, loaded, sread, saveall, gone, untrue, muddled>>

\* A switch goes back to what it was; the mode goes to the other one, also when
\* the one that was refused had been on before.
SystemRefused(c) ==
  /\ scall[c].at = "refused"
  /\ IF scall[c].what = "table" THEN Reloads(c)
     ELSE /\ Settle(c)
          /\ spage' = CASE scall[c].what = "flag" -> [spage EXCEPT !.flag = ~scall[c].val]
                        [] scall[c].what = "mode" -> [spage EXCEPT !.mode = ~@]
                        [] OTHER -> spage
          /\ untrue' = IF scall[c].what = "mode" /\ scall[c].val = sys.mode
                       THEN untrue \cup {"mode"} ELSE untrue
          /\ UNCHANGED <<sys, loaded, sread, saveall, gone, muddled>>

-----------------------------------------------------------------------------
(* saveAndRestart: three calls side by side, the restart, the load.        *)

SaveAll ==
  /\ saveall = NoBatch
  /\ saveall' = [at |-> "parts", out |-> BatchParts, ups |-> spage.ups]
  /\ muddled' = (muddled \/ SysReading \/ Sent("table"))
  /\ UNCHANGED <<sys, spage, loaded, sread, scall, gone, untrue>>

BatchWithout(x) ==
  LET out == saveall.out \ {x}
      at == IF saveall.at = "parts" /\ out = {} THEN "restart" ELSE saveall.at
  IN [at |-> at, out |-> out, ups |-> IF "table" \in out THEN saveall.ups ELSE Blank.ups]
\* The first refusal ends the save; the calls that are out go on.
BatchFails(x) ==
  [BatchWithout(x) EXCEPT !.at = "idle"]

\* Stored or not, and answered as done or as failed: the table that is sent is the
\* one the page shows already and goes on showing.
ServePart(x) ==
  /\ x \in saveall.out
  /\ saveall' \in {BatchWithout(x), BatchFails(x)}
  /\ \/ x = "table" /\ sys' = [sys EXCEPT !.ups = saveall.ups] /\ untrue' = untrue \ {"table"}
     \/ UNCHANGED <<sys, untrue>>
  /\ UNCHANGED <<spage, loaded, sread, scall, gone, muddled>>

Restarted ==
  /\ saveall.at = "restart"
  /\ \/ /\ \E l \in SysReads : LoadSystem(l, TRUE)
        /\ saveall' = [NoBatch EXCEPT !.at = "load"]
        /\ muddled' = (muddled \/ \E c \in SysCalls : scall[c].at # "idle")
     \/ saveall' = NoBatch /\ UNCHANGED <<sread, muddled>>
  /\ UNCHANGED <<sys, spage, loaded, scall, gone, untrue>>

SystemNext ==
  \/ \E l \in SysReads : SystemRead(l) \/ SystemShown(l) \/ SystemNotRead(l)
  \/ \E c \in SysCalls :
       \/ \E u \in Upstreams :
            \/ ToggleServer(c, u) \/ DeleteServer(c, u) \/ AddServer(c, u)
            \/ \E w \in Upstreams : EditServer(c, u, w)
       \/ ToggleSwitch(c) \/ \E m \in BOOLEAN : ChangeRunMode(c, m)
       \/ SaveLogCapacity(c) \/ RunTask(c)
       \/ ServeSystem(c) \/ SwallowSystem(c) \/ RefuseSystem(c) \/ LoseAnswer(c)
       \/ SystemSaved(c) \/ SystemRefused(c)
  \/ \E order \in [SysCalls -> Upstreams] : ToggleAll(order)
  \/ SaveAll \/ \E x \in BatchParts : ServePart(x)
  \/ Restarted

SystemSpec == SystemInit /\ [][SystemNext]_sysvars

-----------------------------------------------------------------------------
(* Properties.                                                             *)

\* The page at rest shows the upstreams, the switches and the mode the server
\* keeps, whichever of its calls were refused; what an answer told wrongly (an error
\* the handler dropped, a switch whose answer was lost, the mode that was on chosen
\* again and refused) is shown rightly again after the next load, or the next call
\* for it that is stored and answered; and the server loses no upstream that was not
\* taken out. Save where a load failed, or was on its way when something was changed;
\* where two calls for the same thing were on their way; or where everything was
\* saved before anything was loaded (system/page.tsx:337-409, 498-507,
\* handlers_mosdns.go:1284-1315).
SystemAgrees ==
  /\ (~muddled /\ SysQuiet) =>
       /\ "table" \notin untrue => spage.ups = sys.ups
       /\ "flag" \notin untrue => spage.flag = sys.flag
       /\ "mode" \notin untrue => spage.mode = sys.mode
  /\ ~muddled => \A u \in Upstreams : sys.ups[u] = "none" => u \in gone
=============================================================================
