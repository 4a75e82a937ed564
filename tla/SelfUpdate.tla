----------------------------- MODULE SelfUpdate ------------------------------
(***************************************************************************)
(* msf updates itself from the settings page: UpdateTab of                 *)
(* web/src/app/settings/SettingsClient.tsx and the handlers of             *)
(* internal/server/handlers_update.go:49-345.  The server checks,          *)
(* downloads, and starts an installer that restarts msf; the page goes on  *)
(* asking until the new server answers.                                    *)
(*                                                                         *)
(* A load keeps what its closure saw (restartPending, checkRemote) and     *)
(* reads the status at a moment of its own; while the server restarts every*)
(* call fails.  A call may fail at other times too, and only failures that *)
(* look like a restart, all of them, keep the watch over the restart going.*)
(***************************************************************************)
EXTENDS Naturals

CONSTANTS
  LoadSlots,    \* slots for loads in flight
  MaxAttempts,  \* how often the page asks a server that restarts (20)
  MaxChecks,    \* bound: checks that ask for the release
  MaxInstalls   \* bound: installations

ASSUME SelfBounds ==
  MaxAttempts \in Nat /\ MaxChecks \in Nat /\ MaxInstalls \in Nat

VARIABLES
  msf,     \* the server: see Server
  page,    \* UpdateTab
  load,    \* loads in flight
  order    \* POST /update/install in flight: "none", "sent", "started", "refused"

uvars == <<msf, page, load, order>>

Statuses == {"idle", "checked", "downloaded", "installing", "failed"}
\* up: it answers; new: it runs the new version; file: the archive is there;
\* installer: an installer will restart it; row: update_info.status.
Server == [up : BOOLEAN, new : BOOLEAN, file : BOOLEAN, installer : BOOLEAN,
           row : Statuses, checks : 0..MaxChecks, installs : 0..MaxInstalls]

\* What GET /update/status says.
Shown == [status : Statuses \cup {"completed"}, has : BOOLEAN, can : BOOLEAN]
\* selfUpdateState.
SelfUpdateState ==
  IF msf.new /\ msf.row \in {"installing", "downloaded", "checked"}
  THEN [status |-> "completed", has |-> FALSE, can |-> FALSE]
  ELSE [status |-> msf.row, has |-> msf.row # "idle" /\ ~msf.new,
        can |-> msf.row # "idle" /\ msf.file]

\* pending, attempts, timer: restartPending and the two refs; auto:
\* updateConfig.auto_update; baffled (history): the last load of the restart
\* to end failed in a way that does not look like one.
Tab == [is : Shown, pending : BOOLEAN, attempts : 0..(MaxAttempts + 1), timer : BOOLEAN,
        checking : BOOLEAN, auto : BOOLEAN, baffled : BOOLEAN]

\* remote, auto, pending, quiet: what the closure saw (checkRemote, auto_update,
\* restartPending, suppressRestartErrors).
\* lost: every call that failed looks like a restart; error: one of them does not.
LoadAt == {"idle", "check", "download", "status", "read", "lost", "error"}
LoadCall == [at : LoadAt, remote : BOOLEAN, auto : BOOLEAN, pending : BOOLEAN,
             quiet : BOOLEAN, got : Shown]
Nothing == [status |-> "idle", has |-> FALSE, can |-> FALSE]
NoLoad == [at |-> "idle", remote |-> FALSE, auto |-> FALSE, pending |-> FALSE,
           quiet |-> FALSE, got |-> Nothing]

UpdateTypeOK ==
  /\ msf \in Server /\ page \in Tab
  /\ load \in [LoadSlots -> LoadCall]
  /\ order \in {"none", "sent", "started", "refused"}

UpdateInit ==
  /\ msf \in [up : {TRUE}, new : {FALSE}, file : {FALSE}, installer : {FALSE},
              row : {"idle"}, checks : {0}, installs : {0}]
  /\ page \in [is : {Nothing}, pending : {FALSE}, attempts : {0}, timer : {FALSE},
               checking : {FALSE}, auto : BOOLEAN, baffled : {FALSE}]
  /\ \E k \in LoadSlots :
       load = [l \in LoadSlots |-> IF l = k THEN [NoLoad EXCEPT !.at = "status"] ELSE NoLoad]
  /\ order = "none"

-----------------------------------------------------------------------------
(* The server.                                                             *)

Restart ==
  /\ \/ msf.installer /\ msf.up /\ msf' = [msf EXCEPT !.up = FALSE, !.installer = FALSE]
     \/ ~msf.up /\ msf' = [msf EXCEPT !.up = TRUE, !.new = TRUE]
  /\ UNCHANGED <<page, load, order>>

\* The installer gives up before it restarts anything.
InstallerFails ==
  /\ msf.installer /\ msf.up
  /\ msf' = [msf EXCEPT !.installer = FALSE, !.row = "failed"]
  /\ UNCHANGED <<page, load, order>>

-----------------------------------------------------------------------------
(* loadUpdateData.                                                         *)

FreeLoad(l) ==
  load[l].at = "idle" /\ l = CHOOSE k \in LoadSlots : load[k].at = "idle"

LoadBegins(l, remote, quiet, p) ==
  load' = [load EXCEPT ![l] =
    [NoLoad EXCEPT !.at = IF remote THEN "check" ELSE "status", !.remote = remote,
                   !.quiet = quiet, !.pending = p.pending, !.auto = p.auto]]

\* The button, and the timer of auto_check, which asks with an older closure.
Check(l) ==
  /\ FreeLoad(l) /\ msf.checks < MaxChecks
  /\ LoadBegins(l, TRUE, FALSE, page)
  /\ page' = [page EXCEPT !.checking = TRUE]
  /\ ~page.checking
  /\ msf' = [msf EXCEPT !.checks = @ + 1]
  /\ UNCHANGED order

CheckTimer(l) ==
  /\ FreeLoad(l) /\ msf.checks < MaxChecks
  /\ LoadBegins(l, TRUE, FALSE, [page EXCEPT !.pending = FALSE])
  /\ page' = [page EXCEPT !.checking = TRUE]
  /\ msf' = [msf EXCEPT !.checks = @ + 1]
  /\ UNCHANGED order

\* POST /update/check, and the download that auto_update adds.
LoadChecks(l) ==
  /\ load[l].at = "check"
  /\ \/ /\ msf.up
        /\ msf' = [msf EXCEPT !.row = "checked"]
        /\ page' = [page EXCEPT !.is = [status |-> "checked", has |-> ~msf.new, can |-> FALSE]]
        /\ load' = [load EXCEPT ![l].at = IF ~msf.new /\ load[l].auto THEN "download" ELSE "status"]
     \/ load' = [load EXCEPT ![l].at = "status"] /\ UNCHANGED <<msf, page>>
  /\ UNCHANGED order

LoadDownloads(l) ==
  /\ load[l].at = "download"
  /\ load' = [load EXCEPT ![l].at = "status"]
  /\ msf' \in {msf} \cup
       { [msf EXCEPT !.row = s, !.file = @ \/ s = "downloaded"]
           : s \in IF msf.up THEN {"downloaded", "failed"} ELSE {} }
  /\ UNCHANGED <<page, order>>

\* GET /update/status, with the others of Promise.allSettled: it answers, or the
\* load has failed, in one of the two ways the page tells apart.
LoadAsks(l) ==
  /\ load[l].at = "status"
  /\ \/ /\ msf.up
        /\ load' = [load EXCEPT ![l].at = "read", ![l].got = SelfUpdateState]
     \/ \E how \in {"lost", "error"} : load' = [load EXCEPT ![l].at = how]
  /\ UNCHANGED <<msf, page, order>>

\* Only a load that knew of the restart takes an answer for its end.
EndsWatch(c) == c.pending \/ c.quiet
LoadReads(l) ==
  /\ load[l].at = "read"
  /\ page' = [page EXCEPT !.is = load[l].got, !.checking = FALSE,
                !.pending = @ /\ ~EndsWatch(load[l]),
                !.attempts = IF EndsWatch(load[l]) THEN 0 ELSE @,
                !.baffled = @ /\ ~EndsWatch(load[l])]
  /\ load' = [load EXCEPT ![l] = NoLoad]
  /\ UNCHANGED <<msf, order>>

\* Mutant: a call that fails during the restart is not repeated.
AsksOnce(p) == [p EXCEPT !.pending = TRUE, !.attempts = IF @ > MaxAttempts THEN @ ELSE @ + 1,
                         !.baffled = FALSE, !.is.status = "installing"]
\* markSelfUpdateRestarting, and the next attempt.
AsksAgain(p) ==
  LET n == IF p.attempts > MaxAttempts THEN p.attempts ELSE p.attempts + 1
  IN [p EXCEPT !.pending = TRUE, !.attempts = n, !.timer = @ \/ n <= MaxAttempts,
                !.baffled = FALSE, !.is.status = "installing"]

\* restartFailures: a load of the restart (suppressRestartErrors), and every
\* failure one that isTransientRestartError knows.
LoadLost(l) ==
  /\ load[l].at = "lost"
  /\ page' = [IF load[l].quiet THEN AsksAgain(page) ELSE page EXCEPT !.checking = FALSE]
  /\ load' = [load EXCEPT ![l] = NoLoad]
  /\ UNCHANGED <<msf, order>>

\* Any other failure is shown as an error: restartPending stays, no timer is set.
LoadFails(l) ==
  /\ load[l].at = "error"
  /\ page' = [page EXCEPT !.checking = FALSE, !.baffled = @ \/ load[l].quiet]
  /\ load' = [load EXCEPT ![l] = NoLoad]
  /\ UNCHANGED <<msf, order>>

\* scheduleRestartRefresh: one timer at a time.  A load that does not check
\* resets checking.
TimerFires(l) ==
  /\ page.timer /\ FreeLoad(l)
  /\ page' = [page EXCEPT !.timer = FALSE, !.checking = FALSE]
  /\ LoadBegins(l, FALSE, TRUE, page)
  /\ UNCHANGED <<msf, order>>

-----------------------------------------------------------------------------
(* The buttons.                                                            *)

CanInstall ==
  /\ ~page.checking /\ ~page.pending /\ page.is.status # "installing"
  /\ page.is.can \/ page.is.status = "downloaded"

\* downloadUpdate: the server answers when the archive is there.
Download(l) ==
  /\ ~page.checking /\ page.is.has /\ FreeLoad(l) /\ msf.up
  /\ \E s \in {"downloaded", "failed"} :
       msf' = [msf EXCEPT !.row = s, !.file = @ \/ s = "downloaded"]
  /\ LoadBegins(l, FALSE, FALSE, page)
  /\ UNCHANGED <<page, order>>

\* installUpdate.  Bound: one request in flight.
Install ==
  /\ CanInstall /\ order = "none" /\ msf.installs < MaxInstalls
  /\ order' = "sent"
  /\ msf' = [msf EXCEPT !.installs = @ + 1]
  /\ UNCHANGED <<page, load>>

ServeInstall ==
  /\ order = "sent" /\ msf.up
  /\ \/ /\ msf.file /\ order' = "started"
        /\ msf' = [msf EXCEPT !.row = "installing", !.installer = TRUE]
     \/ order' = "refused" /\ msf' \in {msf, [msf EXCEPT !.row = "failed"]}
  /\ UNCHANGED <<page, load>>

\* The answer, or the broken connection, starts the watch.
InstallStarted ==
  /\ order = "started" \/ (order = "sent" /\ ~msf.up)
  /\ page' = [page EXCEPT !.pending = TRUE, !.attempts = 0, !.timer = TRUE, !.baffled = FALSE,
                          !.is.status = "installing"]
  /\ order' = "none"
  /\ UNCHANGED <<msf, load>>

InstallRefused(l) ==
  /\ order = "refused" /\ FreeLoad(l)
  /\ order' = "none"
  /\ LoadBegins(l, FALSE, FALSE, page)
  /\ page' = [page EXCEPT !.checking = FALSE]
  /\ UNCHANGED msf

-----------------------------------------------------------------------------

LoadStep(l) ==
  \/ LoadChecks(l) \/ LoadDownloads(l) \/ LoadAsks(l) \/ LoadReads(l)
  \/ LoadLost(l) \/ LoadFails(l) \/ TimerFires(l)

UpdateNext ==
  \/ Restart \/ InstallerFails \/ Install \/ ServeInstall \/ InstallStarted
  \/ \E l \in LoadSlots :
       \/ LoadStep(l) \/ Check(l) \/ CheckTimer(l) \/ Download(l) \/ InstallRefused(l)

UpdateSpec == UpdateInit /\ [][UpdateNext]_uvars

-----------------------------------------------------------------------------
(* Properties.                                                             *)

\* The watch goes on as long as the page waits for the restart: a timer is set,
\* a load that understands the restart is in flight, or the attempts are used
\* up, whatever other loads end meanwhile, in whatever way, and whatever their
\* closures saw.  Only a load of the restart itself that fails in a way that
\* does not look like one ends it early
\* (SettingsClient.tsx:1546-1565, 1648-1660).
WatchIsAlive ==
  page.pending =>
    \/ page.timer \/ page.attempts > MaxAttempts \/ page.baffled
    \/ \E l \in LoadSlots : load[l].at # "idle" /\ load[l].quiet
=============================================================================
