---------------------------- MODULE ClientsConsole ----------------------------
(***************************************************************************)
(* The clients page of MosDNS (web/src/app/mosdns/clients/page.tsx) and    *)
(* its handlers (internal/server/handlers_mosdns.go, mosdns_panels.go):    *)
(* which clients are on the one list, the mode that makes it a white or a  *)
(* black one, moves of one client and of all the selected ones, and the    *)
(* reads every ten seconds. The moves of a selection are sent at once; the *)
(* first that is refused ends the page's part of it, the others go on.     *)
(***************************************************************************)
EXTENDS Naturals

CONSTANTS
  Hosts,      \* clients, all of them known to the server
  ClientOps,  \* operations in flight
  ListModes   \* among off, white and black

ASSUME ModesAssumption == "off" \in ListModes

VARIABLES
  clist,    \* the server: the mode, and the clients on the list
  cview,    \* the page
  cops,     \* operations in flight
  waits,    \* history: clients of a sent selection whose move was not accepted
  fickle    \* history: the selection was touched while it was being moved

hvars == <<clist, cview, cops, waits, fickle>>

ListState == [mode : ListModes, listed : SUBSET Hosts]
Acts == {"none", "selected", "add", "scan"}
\* busy: busyKey, a client or the name of an operation.
ClientsView == [mode : ListModes, multi : BOOLEAN, picks : SUBSET Hosts,
                adding : BOOLEAN, busy : Hosts \cup Acts]
\* todo: the clients whose request the server has yet to answer; lists: they
\* join the list; read: the read of the list and the mode that follows.
ClientOp == [at : {"idle", "sent", "read"},
             what : {"move", "selected", "add", "mode", "scan"},
             todo : SUBSET Hosts, lists : BOOLEAN, mode : ListModes, back : ListModes,
             failed : BOOLEAN, told : BOOLEAN]
NoClientOp == [at |-> "idle", what |-> "scan", todo |-> {}, lists |-> FALSE, mode |-> "off",
               back |-> "off", failed |-> FALSE, told |-> FALSE]

ClientsTypeOK ==
  /\ clist \in ListState /\ cview \in ClientsView /\ cops \in [ClientOps -> ClientOp]
  /\ waits \subseteq Hosts /\ fickle \in BOOLEAN

ClientsInit ==
  /\ clist \in ListState
  /\ cview = [mode |-> "off", multi |-> FALSE, picks |-> {}, adding |-> FALSE,
              busy |-> "none"]
  /\ cops = [o \in ClientOps |-> NoClientOp]
  /\ waits = {} /\ fickle = FALSE

-----------------------------------------------------------------------------
(* The page's controls.                                                    *)

FreeSlot(o) == cops[o].at = "idle" /\ o = CHOOSE x \in ClientOps : cops[x].at = "idle"
Starts(o, op) == FreeSlot(o) /\ cops' = [cops EXCEPT ![o] = op]
Asks(what, todo) == [NoClientOp EXCEPT !.at = "sent", !.what = what, !.todo = todo]
BusyWith(b) == [cview EXCEPT !.busy = b]

Moving == \E o \in ClientOps : cops[o].at # "idle" /\ cops[o].what = "selected"

\* A click on a card while 多选 is on; the button turns it on or off and
\* forgets the selection.
TouchPicks(picks, multi) ==
  /\ cview' = [cview EXCEPT !.picks = picks, !.multi = multi]
  /\ fickle' = (fickle \/ Moving)
  /\ waits' = {}
  /\ UNCHANGED <<clist, cops>>
PickHost(h) ==
  cview.multi /\ TouchPicks(IF h \in cview.picks THEN cview.picks \ {h} ELSE cview.picks \cup {h}, TRUE)
MultiSelect == TouchPicks({}, ~cview.multi)

AddDialog ==
  /\ cview' = [cview EXCEPT !.adding = ~@]
  /\ UNCHANGED <<clist, cops, waits, fickle>>

\* The plus of a card that is not on the list, and the cross of one that is,
\* which is shown while the mode is on. What the cards show of the list is up
\* to ten seconds old: any card may show either.
MoveClient(o, h, lists) ==
  /\ cview.busy # h
  /\ IF lists THEN ~cview.multi ELSE cview.mode # "off"
  /\ Starts(o, [Asks("move", {h}) EXCEPT !.lists = lists])
  /\ cview' = BusyWith(h)
  /\ UNCHANGED <<clist, waits, fickle>>

\* Only the selected clients that the page still shows are sent: a rescan may
\* have deleted any of them.
MoveSelected(o) ==
  /\ cview.multi /\ cview.busy # "selected"
  /\ \E targets \in SUBSET cview.picks \ {{}} :
       /\ Starts(o, [Asks("selected", targets) EXCEPT !.lists = TRUE])
       /\ fickle' = (fickle \/ Moving)
       /\ waits' = IF fickle' THEN {} ELSE targets
  /\ cview' = BusyWith("selected")
  /\ UNCHANGED clist

\* A client added by hand is unlisted, also when it was on the list.
AddClient(o, h) ==
  /\ cview.adding
  /\ Starts(o, Asks("add", {h}))
  /\ cview' = BusyWith("add")
  /\ UNCHANGED <<clist, waits, fickle>>

\* The mode is shown before it is stored.
ChangeMode(o, m) ==
  /\ Starts(o, [Asks("mode", {}) EXCEPT !.mode = m, !.back = cview.mode])
  /\ cview' = [cview EXCEPT !.mode = m]
  /\ UNCHANGED <<clist, waits, fickle>>

\* 重新扫描; 清空并扫描 sends two requests and is busy under a name of its own.
ScanClients(o) ==
  /\ cview.busy # "scan"
  /\ Starts(o, Asks("scan", {}))
  /\ cview' = BusyWith("scan")
  /\ UNCHANGED <<clist, waits, fickle>>

\* What a read finds; the call for the mode may fail on its own.
Found(view) == {[view EXCEPT !.mode = m] : m \in {clist.mode, view.mode}}

PollClients ==
  /\ cview' \in Found(cview)
  /\ UNCHANGED <<clist, cops, waits, fickle>>

-----------------------------------------------------------------------------
(* The server: one request at a time; a refused one changes nothing.       *)

ServeMove(o, h) ==
  /\ cops[o].at = "sent" /\ h \in cops[o].todo
  /\ clist' = [clist EXCEPT !.listed = IF cops[o].lists THEN @ \cup {h} ELSE @ \ {h}]
  /\ cops' = [cops EXCEPT ![o].todo = @ \ {h}]
  /\ waits' = IF cops[o].what = "selected" THEN waits \ {h} ELSE waits
  /\ UNCHANGED <<cview, fickle>>

RefuseMove(o, h) ==
  /\ cops[o].at = "sent" /\ h \in cops[o].todo
  /\ cops' = [cops EXCEPT ![o].todo = @ \ {h}, ![o].failed = TRUE]
  /\ UNCHANGED <<clist, cview, waits, fickle>>

\* A mode is stored; a scan changes neither the list nor the mode.
ServeOther(o) ==
  /\ cops[o].at = "sent" /\ cops[o].what \in {"mode", "scan"}
  /\ \/ /\ cops[o].what = "mode" /\ clist' = [clist EXCEPT !.mode = cops[o].mode]
        /\ cops' = [cops EXCEPT ![o] = NoClientOp] /\ UNCHANGED cview
     \/ /\ cops[o].what # "mode" /\ cops' = [cops EXCEPT ![o].at = "read"] /\ UNCHANGED <<clist, cview>>
     \/ /\ cops' = [cops EXCEPT ![o] = NoClientOp] /\ UNCHANGED clist
        /\ cview' = IF cops[o].what = "mode" THEN [cview EXCEPT !.mode = cops[o].back] ELSE BusyWith("none")
  /\ UNCHANGED <<waits, fickle>>

-----------------------------------------------------------------------------
(* The answers.                                                            *)

\* Mutant: the selection is forgotten whatever became of it (finally).
PicksCleared(o) == {}
PicksAfterFailure(o) == cview.picks

\* The first refusal is reported; requests that are still out are not waited for.
MoveFails(o) ==
  /\ cops[o].at = "sent" /\ cops[o].failed /\ ~cops[o].told
  /\ cview' = [BusyWith("none") EXCEPT !.picks = PicksAfterFailure(o)]
  /\ cops' = [cops EXCEPT ![o].told = TRUE]
  /\ UNCHANGED <<clist, waits, fickle>>

MoveForgotten(o) ==
  /\ cops[o].at = "sent" /\ cops[o].told /\ cops[o].todo = {}
  /\ cops' = [cops EXCEPT ![o] = NoClientOp]
  /\ UNCHANGED <<clist, cview, waits, fickle>>

MoveSucceeds(o) ==
  /\ cops[o].at = "sent" /\ cops[o].what \in {"move", "selected", "add"}
  /\ cops[o].todo = {} /\ ~cops[o].failed
  /\ cview' = [cview EXCEPT !.picks = IF cops[o].what = "selected" THEN {} ELSE @,
                            !.adding = @ /\ cops[o].what # "add"]
  /\ cops' = [cops EXCEPT ![o] = [NoClientOp EXCEPT !.at = "read"]]
  /\ UNCHANGED <<clist, waits, fickle>>

\* The read that follows an operation ends it, also when it fails.
ReadEnds(o) ==
  /\ cops[o].at = "read"
  /\ cview' \in Found(BusyWith("none"))
  /\ cops' = [cops EXCEPT ![o] = NoClientOp]
  /\ UNCHANGED <<clist, waits, fickle>>

-----------------------------------------------------------------------------

ClientsControls(o) ==
  \/ \E h \in Hosts : AddClient(o, h) \/ \E lists \in BOOLEAN : MoveClient(o, h, lists)
  \/ MoveSelected(o) \/ ScanClients(o)
  \/ \E m \in ListModes : ChangeMode(o, m)

ClientsAnswers(o) ==
  \/ \E h \in Hosts : ServeMove(o, h) \/ RefuseMove(o, h)
  \/ ServeOther(o) \/ MoveFails(o) \/ MoveForgotten(o) \/ MoveSucceeds(o)
  \/ ReadEnds(o)

ClientsNext ==
  \/ MultiSelect \/ AddDialog \/ PollClients \/ \E h \in Hosts : PickHost(h)
  \/ \E o \in ClientOps : ClientsControls(o) \/ ClientsAnswers(o)

ClientsSpec == ClientsInit /\ [][ClientsNext]_hvars

-----------------------------------------------------------------------------
(* Properties.                                                             *)

\* A selected client whose move was refused, or is still out when another one
\* was refused, stays selected, so that the button tries it again; what the
\* clear after a success (page.tsx:364) takes away was moved, unless the
\* selection was touched meanwhile.
UnmovedStayPicked == ~fickle => waits \subseteq cview.picks
===============================================================================
