----------------------------- MODULE ProcessPage ------------------------------
(***************************************************************************)
(* The page of the processes (web/src/app/process/page.tsx) over the       *)
(* handlers of internal/server/handlers_services.go. Each service has a    *)
(* busy flag of its own, and the list of all of them is read again after   *)
(* each action that was answered; nothing reads it meanwhile. A start or a *)
(* stop that failed is answered as well, with success false and the status *)
(* of a success, and the page goes on as after a success.                  *)
(***************************************************************************)

CONSTANTS
  Daemons,     \* services of the list
  DaemonReads  \* loadServices in flight

ASSUME ReadsAssumption == DaemonReads # {}

VARIABLES
  up,       \* the server: what each service is
  services, \* services, as last listed
  busyWith, \* busy, with where the action is: service -> step
  dread,    \* loadServices, in flight
  drifted   \* history: see ServicesAsListed

procvars == <<up, services, busyWith, dread, drifted>>

DaemonState == {"missing", "stopped", "running"}
\* alone: no other list was out, and nothing else moved, since it was asked for;
\* for: the actions that wait for it, none for the refresh button.
DaemonRead == [at : {"idle", "sent", "back"}, got : [Daemons -> DaemonState], alone : BOOLEAN,
               for : SUBSET Daemons]
NoDaemonRead == [at |-> "idle", got |-> [d \in Daemons |-> "missing"], alone |-> FALSE, for |-> {}]

ProcessTypeOK ==
  /\ up \in [Daemons -> DaemonState] /\ services \in [Daemons -> DaemonState]
  /\ busyWith \in [Daemons -> {"no", "start", "stop", "restart", "answered", "listing"}]
  /\ dread \in [DaemonReads -> DaemonRead] /\ drifted \in BOOLEAN

ProcessInit ==
  /\ up \in [Daemons -> DaemonState] /\ services = NoDaemonRead.got
  /\ busyWith = [d \in Daemons |-> "no"]
  /\ dread = [l \in DaemonReads |-> IF l = CHOOSE x \in DaemonReads : TRUE
                                    THEN [NoDaemonRead EXCEPT !.at = "sent", !.alone = TRUE] ELSE NoDaemonRead]
  /\ drifted = FALSE

Listing == \E l \in DaemonReads : dread[l].at # "idle"
ProcessQuiet == ~Listing /\ \A d \in Daemons : busyWith[d] = "no"
\* Something the page is not told of.
Drifts ==
  /\ drifted' = TRUE
  /\ dread' = [l \in DaemonReads |-> [dread[l] EXCEPT !.alone = FALSE]]

-----------------------------------------------------------------------------

LoadServices(l, waiting) ==
  /\ dread[l].at = "idle" /\ l = CHOOSE x \in DaemonReads : dread[x].at = "idle"
  /\ dread' = [x \in DaemonReads |->
                 IF x = l THEN [NoDaemonRead EXCEPT !.at = "sent", !.alone = ~Listing, !.for = waiting]
                 ELSE [dread[x] EXCEPT !.alone = FALSE]]

\* The refresh button; loading is over with the first of two lists that arrives.
Refresh(l) ==
  /\ ~Listing /\ LoadServices(l, {})
  /\ UNCHANGED <<up, services, busyWith, drifted>>

ListServices(l) ==
  /\ dread[l].at = "sent"
  /\ dread' = [dread EXCEPT ![l].at = "back", ![l].got = up]
  /\ UNCHANGED <<up, services, busyWith, drifted>>

Freed(l) == [d \in Daemons |-> IF d \in dread[l].for THEN "no" ELSE busyWith[d]]

ServicesListed(l) ==
  /\ dread[l].at = "back"
  /\ services' = dread[l].got /\ drifted' = ~dread[l].alone
  /\ busyWith' = Freed(l) /\ dread' = [dread EXCEPT ![l] = NoDaemonRead]
  /\ UNCHANGED up

ServicesNotListed(l) ==
  /\ dread[l].at = "sent"
  /\ busyWith' = Freed(l) /\ drifted' = TRUE
  /\ dread' = [x \in DaemonReads |-> IF x = l THEN NoDaemonRead ELSE [dread[x] EXCEPT !.alone = FALSE]]
  /\ UNCHANGED <<up, services>>

\* One button stops what is listed as running and starts what is not.
RunAction(d, restart) ==
  /\ busyWith[d] = "no" /\ services[d] # "missing"
  /\ busyWith' = [busyWith EXCEPT ![d] = IF restart THEN "restart"
                                     ELSE IF services[d] = "running" THEN "stop" ELSE "start"]
  /\ UNCHANGED <<up, services, dread, drifted>>

\* What the service may be after the call, carried out or failed.
Outcome(d) ==
  CASE busyWith[d] = "start" -> {up[d], "running"}
    [] busyWith[d] = "stop" -> {up[d], "stopped"}
    [] OTHER -> {up[d], "stopped", "running"}

ActionServed(d) ==
  /\ busyWith[d] \in {"start", "stop", "restart"}
  /\ \E s \in Outcome(d) : up' = [up EXCEPT ![d] = s]
  /\ busyWith' = [busyWith EXCEPT ![d] = "answered"]
  /\ UNCHANGED <<services, dread, drifted>>

\* The list is read again, whatever the answer says.
ActionAnswered(d) ==
  /\ busyWith[d] = "answered"
  /\ busyWith' = [busyWith EXCEPT ![d] = "listing"]
  /\ \E l \in DaemonReads : LoadServices(l, {d})
  /\ UNCHANGED <<up, services, drifted>>

\* No answer came; the call may have been carried out.
ActionLost(d) ==
  /\ busyWith[d] = "answered" /\ Drifts
  /\ busyWith' = [busyWith EXCEPT ![d] = "no"]
  /\ UNCHANGED <<up, services>>

\* A service ends, or is restored, without this page.
MovesByItself(d) ==
  /\ up[d] # "missing" /\ Drifts
  /\ up' = [up EXCEPT ![d] = IF @ = "running" THEN "stopped" ELSE "running"]
  /\ UNCHANGED <<services, busyWith>>

ProcessNext ==
  \/ \E l \in DaemonReads : Refresh(l) \/ ListServices(l) \/ ServicesListed(l) \/ ServicesNotListed(l)
  \/ \E d \in Daemons :
       \/ \E restart \in BOOLEAN : RunAction(d, restart)
       \/ ActionServed(d) \/ ActionAnswered(d) \/ ActionLost(d) \/ MovesByItself(d)

ProcessSpec == ProcessInit /\ [][ProcessNext]_procvars

-----------------------------------------------------------------------------
(* Properties.                                                             *)

\* The page at rest lists every service as it is, however the actions on several
\* of them interleaved and whichever failed, since the last list that was read
\* alone; an answer that is lost, a list that fails, two lists at once and a
\* service that moves by itself undo it until then (process/page.tsx:58-99).
ServicesAsListed == (~drifted /\ ProcessQuiet) => services = up
===============================================================================
