--------------------------- MODULE SettingsProofs ----------------------------
(***************************************************************************)
(* Proofs about the settings page, for any number of components, calls,    *)
(* saves and loads: the watch over the restart of msf (SelfUpdate), the    *)
(* cards of the components and their options (ComponentPanel), and the     *)
(* other tabs, which show what is stored (SettingsForms).                  *)
(***************************************************************************)
EXTENDS SelfUpdate, ComponentPanel, SettingsForms, FiniteSetTheorems, TLAPS

-----------------------------------------------------------------------------
(***************************************************************************)
(* SelfUpdate.  With the types the property is inductive as it stands: a   *)
(* load that understands the restart ends by setting the timer, by using   *)
(* up the attempts, by ending the wait or by a failure that is not the     *)
(* restart's, and the timer goes off into such a load.                     *)
(***************************************************************************)

\* A load that keeps the watch going.
Watches(c) == c.at # "idle" /\ c.quiet

WatchIInv == UpdateTypeOK /\ WatchIsAlive

\* The page's own type is kept by the next attempt, which leaves a timer or no
\* attempts to use (markSelfUpdateRestarting, SettingsClient.tsx:1546-1565).
LEMMA AsksAgainTyped ==
  ASSUME NEW p \in Tab
  PROVE  /\ AsksAgain(p) \in Tab
         /\ AsksAgain(p).timer \/ AsksAgain(p).attempts > MaxAttempts
<1>1. MaxAttempts \in Nat BY SelfBounds
<1>2. p.attempts \in 0..(MaxAttempts + 1) /\ p.timer \in BOOLEAN BY DEF Tab
<1> DEFINE n == IF p.attempts > MaxAttempts THEN p.attempts ELSE p.attempts + 1
            set == p.timer \/ n <= MaxAttempts
<1>3. n \in 0..(MaxAttempts + 1) /\ set \in BOOLEAN
  BY <1>1, <1>2
<1>4. set \/ n > MaxAttempts
  BY <1>1, <1>3
<1> DEFINE shows == [p.is EXCEPT !.status = "installing"]
           next == [p EXCEPT !.pending = TRUE, !.attempts = n, !.timer = set,
                             !.baffled = FALSE, !.is = shows]
<1>5. p.is \in Shown BY DEF Tab
<1>6. shows \in Shown BY <1>5 DEF Shown, Statuses
<1>7. AsksAgain(p) = next
  BY DEF AsksAgain, Tab
<1> HIDE DEF n, set, shows
<1>8. next \in Tab /\ next.timer = set /\ next.attempts = n
  BY <1>3, <1>6 DEF Tab
<1> QED BY <1>4, <1>7, <1>8

\* A load that begins in a free slot replaces no load that watches.
LEMMA BeginsTyped ==
  ASSUME UpdateTypeOK, NEW l \in LoadSlots, FreeLoad(l),
         NEW remote \in BOOLEAN, NEW quiet \in BOOLEAN, NEW p \in Tab,
         LoadBegins(l, remote, quiet, p)
  PROVE  /\ load' \in [LoadSlots -> LoadCall]
         /\ \A k \in LoadSlots : Watches(load[k]) => Watches(load'[k])
         /\ quiet => Watches(load'[l])
<1>1. NoLoad \in LoadCall BY DEF NoLoad, LoadCall, LoadAt, Nothing, Shown, Statuses
<1>2. p.pending \in BOOLEAN /\ p.auto \in BOOLEAN BY DEF Tab
<1> DEFINE new == [NoLoad EXCEPT !.at = IF remote THEN "check" ELSE "status", !.remote = remote,
                   !.quiet = quiet, !.pending = p.pending, !.auto = p.auto]
<1>3. new \in LoadCall /\ new.at # "idle" /\ new.quiet = quiet
  BY <1>1, <1>2 DEF LoadCall, LoadAt, NoLoad
<1>4. load' = [load EXCEPT ![l] = new] BY DEF LoadBegins
<1>5. load \in [LoadSlots -> LoadCall] BY DEF UpdateTypeOK
<1>6. load[l].at = "idle" BY DEF FreeLoad
<1> HIDE DEF new
<1> QED BY <1>3, <1>4, <1>5, <1>6 DEF Watches

\* A load that goes from phase to phase keeps what its closure saw.
LEMMA AdvancesTyped ==
  ASSUME UpdateTypeOK, NEW l \in LoadSlots, NEW c \in LoadCall,
         c.at # "idle", c.quiet = load[l].quiet,
         load' = [load EXCEPT ![l] = c]
  PROVE  /\ load' \in [LoadSlots -> LoadCall]
         /\ \A k \in LoadSlots : Watches(load[k]) => Watches(load'[k])
BY DEF UpdateTypeOK, Watches

\* A load that ends leaves the others to watch.
LEMMA EndsTyped ==
  ASSUME UpdateTypeOK, NEW l \in LoadSlots, load' = [load EXCEPT ![l] = NoLoad]
  PROVE  /\ load' \in [LoadSlots -> LoadCall]
         /\ \A k \in LoadSlots : Watches(load[k]) => Watches(load'[k]) \/ (k = l /\ load[l].quiet)
<1>1. NoLoad \in LoadCall BY DEF NoLoad, LoadCall, LoadAt, Nothing, Shown, Statuses
<1> QED BY <1>1 DEF UpdateTypeOK, Watches

\* The status a page is told is one it can show.
LEMMA StateTyped == ASSUME msf \in Server PROVE SelfUpdateState \in Shown
<1>1. msf.row \in Statuses /\ msf.new \in BOOLEAN /\ msf.file \in BOOLEAN
  BY DEF Server
<1>2. CASE msf.new /\ msf.row \in {"installing", "downloaded", "checked"}
  BY <1>2 DEF SelfUpdateState, Shown
<1>3. CASE ~(msf.new /\ msf.row \in {"installing", "downloaded", "checked"})
  <2>1. SelfUpdateState = [status |-> msf.row, has |-> msf.row # "idle" /\ ~msf.new,
                           can |-> msf.row # "idle" /\ msf.file]
    BY <1>3 DEF SelfUpdateState
  <2>2. (msf.row # "idle" /\ ~msf.new) \in BOOLEAN /\ (msf.row # "idle" /\ msf.file) \in BOOLEAN
    OBVIOUS
  <2> QED BY <1>1, <2>1, <2>2 DEF Shown
<1> QED BY <1>2, <1>3

\* A page that goes on waiting only if it waited, with its timer and its
\* attempts as they were, is still watched over when no load left the watch.
LEMMA StillWatched ==
  ASSUME WatchIsAlive,
         page'.pending => page.pending,
         page'.timer = page.timer, page'.attempts = page.attempts,
         page.baffled => page'.baffled,
         \A k \in LoadSlots : Watches(load[k]) => Watches(load'[k])
  PROVE  WatchIsAlive'
BY DEF WatchIsAlive, Watches

\* The server's own steps, and the request to install as it is sent and served.
LEMMA ServerSteps ==
  ASSUME WatchIInv, Restart \/ InstallerFails \/ Install \/ ServeInstall
  PROVE  WatchIInv'
<1>1. UNCHANGED <<page, load>>
  BY DEF Restart, InstallerFails, Install, ServeInstall
<1>2. WatchIsAlive'
  BY <1>1 DEF WatchIInv, WatchIsAlive
<1>3. msf' \in Server /\ order' \in {"none", "sent", "started", "refused"}
  <2> USE DEF WatchIInv, UpdateTypeOK
  <2>1. CASE Restart BY <2>1 DEF Restart, Server
  <2>2. CASE InstallerFails BY <2>2 DEF InstallerFails, Server, Statuses
  <2>3. CASE Install
    <3>1. msf.installs \in 0..MaxInstalls /\ msf.installs < MaxInstalls /\ MaxInstalls \in Nat
      BY <2>3, SelfBounds DEF Install, Server
    <3>2. msf.installs + 1 \in 0..MaxInstalls BY <3>1
    <3> QED BY <2>3, <3>2 DEF Install, Server
  <2>4. CASE ServeInstall BY <2>4 DEF ServeInstall, Server, Statuses
  <2> QED BY <2>1, <2>2, <2>3, <2>4
<1> QED BY <1>1, <1>2, <1>3 DEF WatchIInv, UpdateTypeOK

\* A load between its first call and the answers it waits for.
LEMMA LoadSteps ==
  ASSUME WatchIInv, NEW l \in LoadSlots, LoadChecks(l) \/ LoadDownloads(l) \/ LoadAsks(l)
  PROVE  WatchIInv'
<1> USE DEF WatchIInv
<1>1. load[l] \in LoadCall /\ load \in [LoadSlots -> LoadCall] /\ page \in Tab /\ msf \in Server
  BY DEF UpdateTypeOK
<1>2. CASE LoadChecks(l)
  <2>1. PICK a \in {"download", "status"} : load' = [load EXCEPT ![l].at = a]
    BY <1>2 DEF LoadChecks
  <2> DEFINE c == [load[l] EXCEPT !.at = a]
  <2>2. c \in LoadCall /\ c.at # "idle" /\ c.quiet = load[l].quiet
    BY <1>1 DEF LoadCall, LoadAt
  <2>3. load' = [load EXCEPT ![l] = c]
    BY <2>1, <1>1
  <2>4. /\ load' \in [LoadSlots -> LoadCall]
        /\ \A k \in LoadSlots : Watches(load[k]) => Watches(load'[k])
    <3> HIDE DEF c
    <3> QED BY <2>2, <2>3, AdvancesTyped
  <2>5. [status |-> "checked", has |-> ~msf.new, can |-> FALSE] \in Shown
    BY DEF Shown, Statuses
  <2>6. /\ page' \in Tab /\ page'.pending = page.pending
        /\ page'.timer = page.timer /\ page'.attempts = page.attempts
        /\ page'.baffled = page.baffled
    BY <1>1, <1>2, <2>5 DEF LoadChecks, Tab
  <2>7. msf' \in Server
    BY <1>1, <1>2 DEF LoadChecks, Server, Statuses
  <2>8. WatchIsAlive'
    BY <2>4, <2>6, StillWatched
  <2> QED BY <1>2, <2>4, <2>6, <2>7, <2>8 DEF UpdateTypeOK, LoadChecks
<1>3. CASE LoadDownloads(l)
  <2> DEFINE c == [load[l] EXCEPT !.at = "status"]
  <2>1. c \in LoadCall /\ c.at # "idle" /\ c.quiet = load[l].quiet
    BY <1>1 DEF LoadCall, LoadAt
  <2>2. load' = [load EXCEPT ![l] = c]
    BY <1>1, <1>3 DEF LoadDownloads
  <2>3. /\ load' \in [LoadSlots -> LoadCall]
        /\ \A k \in LoadSlots : Watches(load[k]) => Watches(load'[k])
    <3> HIDE DEF c
    <3> QED BY <2>1, <2>2, AdvancesTyped
  <2>4. msf' \in Server
    <3>1. CASE msf' = msf BY <3>1, <1>1
    <3>2. CASE \E st \in {"downloaded", "failed"} :
                 msf' = [msf EXCEPT !.row = st, !.file = @ \/ st = "downloaded"]
      <4>1. PICK st \in {"downloaded", "failed"} :
                 msf' = [msf EXCEPT !.row = st, !.file = @ \/ st = "downloaded"]
        BY <3>2
      <4>2. (msf.file \/ st = "downloaded") \in BOOLEAN OBVIOUS
      <4> QED BY <4>1, <4>2, <1>1 DEF Server, Statuses
    <3> QED BY <1>3, <3>1, <3>2 DEF LoadDownloads
  <2>5. WatchIsAlive'
    BY <1>3, <2>3, StillWatched DEF LoadDownloads
  <2> QED BY <1>3, <2>3, <2>4, <2>5 DEF UpdateTypeOK, LoadDownloads
<1>4. CASE LoadAsks(l)
  <2>1. PICK c \in {[load[l] EXCEPT !.at = "read", !.got = SelfUpdateState],
                    [load[l] EXCEPT !.at = "lost"], [load[l] EXCEPT !.at = "error"]} :
               load' = [load EXCEPT ![l] = c]
    BY <1>1, <1>4 DEF LoadAsks
  <2>2. c \in LoadCall /\ c.at # "idle" /\ c.quiet = load[l].quiet
    <3>1. SelfUpdateState \in Shown BY <1>1, StateTyped
    <3> QED BY <1>1, <2>1, <3>1 DEF LoadCall, LoadAt
  <2>3. /\ load' \in [LoadSlots -> LoadCall]
        /\ \A k \in LoadSlots : Watches(load[k]) => Watches(load'[k])
    <3> QED BY <2>1, <2>2, AdvancesTyped
  <2>4. WatchIsAlive'
    BY <1>4, <2>3, StillWatched DEF LoadAsks
  <2> QED BY <1>4, <2>3, <2>4 DEF UpdateTypeOK, LoadAsks
<1> QED BY <1>2, <1>3, <1>4

\* A load that ends with what it read ends the wait if it understands the
\* restart, and otherwise is not one of those that keep the watch going.
LEMMA ReadSteps == ASSUME WatchIInv, NEW l \in LoadSlots, LoadReads(l) PROVE WatchIInv'
<1> USE DEF WatchIInv
<1>1. load[l] \in LoadCall /\ page \in Tab BY DEF UpdateTypeOK
<1>2. /\ load' \in [LoadSlots -> LoadCall]
      /\ \A k \in LoadSlots : Watches(load[k]) => Watches(load'[k]) \/ (k = l /\ load[l].quiet)
  BY EndsTyped DEF LoadReads
<1> DEFINE knows == load[l].pending \/ load[l].quiet
           wait == page.pending /\ ~knows
           lost == page.baffled /\ ~knows
           n == IF knows THEN 0 ELSE page.attempts
<1>3. page' = [page EXCEPT !.is = load[l].got, !.checking = FALSE, !.pending = wait,
                           !.attempts = n, !.baffled = lost]
  BY DEF LoadReads, EndsWatch
<1>4. wait \in BOOLEAN /\ lost \in BOOLEAN /\ n \in 0..(MaxAttempts + 1) /\ load[l].got \in Shown
  BY <1>1, SelfBounds DEF Tab, LoadCall
<1>5. /\ page' \in Tab /\ page'.pending = wait /\ page'.attempts = n /\ page'.timer = page.timer
      /\ page'.baffled = lost
  <2> HIDE DEF wait, lost, n
  <2> QED BY <1>1, <1>3, <1>4 DEF Tab
<1>6. WatchIsAlive'
  <2>1. CASE knows BY <2>1, <1>5 DEF WatchIsAlive
  <2>2. CASE ~knows
    <3>1. \A k \in LoadSlots : Watches(load[k]) => Watches(load'[k]) BY <1>2, <2>2
    <3>2. /\ page'.pending => page.pending
          /\ page'.attempts = page.attempts /\ page'.baffled = page.baffled
      BY <1>1, <1>5, <2>2 DEF Tab
    <3> QED BY <3>1, <3>2, <1>5, StillWatched
  <2> QED BY <2>1, <2>2
<1> QED BY <1>2, <1>5, <1>6 DEF UpdateTypeOK, LoadReads

\* A load that lost its connection: one of those that understand the restart
\* goes on by the timer, another one leaves the watch to them.
LEMMA LostSteps == ASSUME WatchIInv, NEW l \in LoadSlots, LoadLost(l) PROVE WatchIInv'
<1> USE DEF WatchIInv
<1>1. load[l] \in LoadCall /\ page \in Tab BY DEF UpdateTypeOK
<1>2. /\ load' \in [LoadSlots -> LoadCall]
      /\ \A k \in LoadSlots : Watches(load[k]) => Watches(load'[k]) \/ (k = l /\ load[l].quiet)
  BY EndsTyped DEF LoadLost
<1>3. CASE load[l].quiet
  <2>1. /\ AsksAgain(page) \in Tab
        /\ AsksAgain(page).timer \/ AsksAgain(page).attempts > MaxAttempts
    BY <1>1, AsksAgainTyped
  <2>2. page' = [AsksAgain(page) EXCEPT !.checking = FALSE] BY <1>3 DEF LoadLost
  <2>3. /\ page' \in Tab /\ page'.timer = AsksAgain(page).timer
        /\ page'.attempts = AsksAgain(page).attempts
    BY <2>1, <2>2 DEF Tab
  <2>4. WatchIsAlive' BY <2>1, <2>3 DEF WatchIsAlive
  <2> QED BY <1>2, <2>3, <2>4 DEF UpdateTypeOK, LoadLost
<1>4. CASE ~load[l].quiet
  <2>1. page' = [page EXCEPT !.checking = FALSE] BY <1>4 DEF LoadLost
  <2>2. /\ page' \in Tab /\ page'.pending = page.pending
        /\ page'.timer = page.timer /\ page'.attempts = page.attempts
        /\ page'.baffled = page.baffled
    BY <1>1, <2>1 DEF Tab
  <2>3. WatchIsAlive' BY <1>2, <1>4, <2>2, StillWatched
  <2> QED BY <1>2, <2>2, <2>3 DEF UpdateTypeOK, LoadLost
<1> QED BY <1>3, <1>4

\* A load that failed otherwise: one of the restart leaves the page without a
\* watch and is remembered as such, another one leaves the watch as it was.
LEMMA FailsSteps == ASSUME WatchIInv, NEW l \in LoadSlots, LoadFails(l) PROVE WatchIInv'
<1> USE DEF WatchIInv
<1>1. load[l] \in LoadCall /\ page \in Tab BY DEF UpdateTypeOK
<1>2. /\ load' \in [LoadSlots -> LoadCall]
      /\ \A k \in LoadSlots : Watches(load[k]) => Watches(load'[k]) \/ (k = l /\ load[l].quiet)
  BY EndsTyped DEF LoadFails
<1> DEFINE lost == page.baffled \/ load[l].quiet
<1>3. lost \in BOOLEAN BY <1>1 DEF Tab, LoadCall
<1>4. page' = [page EXCEPT !.checking = FALSE, !.baffled = lost] BY DEF LoadFails
<1>5. /\ page' \in Tab /\ page'.pending = page.pending /\ page'.baffled = lost
      /\ page'.timer = page.timer /\ page'.attempts = page.attempts
  <2> HIDE DEF lost
  <2> QED BY <1>1, <1>3, <1>4 DEF Tab
<1>6. CASE load[l].quiet
  <2>1. WatchIsAlive' BY <1>5, <1>6 DEF WatchIsAlive
  <2> QED BY <1>2, <1>5, <2>1 DEF UpdateTypeOK, LoadFails
<1>7. CASE ~load[l].quiet
  <2>1. WatchIsAlive' BY <1>2, <1>5, <1>7, StillWatched
  <2> QED BY <1>2, <1>5, <2>1 DEF UpdateTypeOK, LoadFails
<1> QED BY <1>6, <1>7

\* What begins a load: the buttons, the timer of auto_check, a refused install;
\* and the timer of the watch, which hands the watch to the load.
LEMMA BeginSteps ==
  ASSUME WatchIInv, NEW l \in LoadSlots,
         Check(l) \/ CheckTimer(l) \/ Download(l) \/ InstallRefused(l) \/ TimerFires(l)
  PROVE  WatchIInv'
<1> USE DEF WatchIInv
<1>1. page \in Tab /\ msf \in Server BY DEF UpdateTypeOK
<1>2. /\ load' \in [LoadSlots -> LoadCall]
      /\ \A k \in LoadSlots : Watches(load[k]) => Watches(load'[k])
      /\ TimerFires(l) => Watches(load'[l])
  <2>1. CASE Check(l) \/ Download(l) \/ InstallRefused(l)
    <3>1. PICK remote \in BOOLEAN : FreeLoad(l) /\ LoadBegins(l, remote, FALSE, page)
      BY <2>1 DEF Check, Download, InstallRefused
    <3>2. ~TimerFires(l) \/ LoadBegins(l, FALSE, TRUE, page) BY DEF TimerFires
    <3>3. CASE TimerFires(l)
      BY <1>1, <3>1, <3>2, <3>3, BeginsTyped
    <3>4. CASE ~TimerFires(l)
      BY <1>1, <3>1, <3>4, BeginsTyped
    <3> QED BY <3>3, <3>4
  <2>2. CASE CheckTimer(l) /\ ~TimerFires(l)
    <3>1. [page EXCEPT !.pending = FALSE] \in Tab BY <1>1 DEF Tab
    <3> QED BY <2>2, <3>1, BeginsTyped DEF CheckTimer
  <2>3. CASE TimerFires(l)
    BY <1>1, <2>3, BeginsTyped DEF TimerFires
  <2> QED BY <2>1, <2>2, <2>3
<1>3. CASE Check(l) \/ CheckTimer(l)
  <2>1. page' = [page EXCEPT !.checking = TRUE] BY <1>3 DEF Check, CheckTimer
  <2>2. /\ page' \in Tab /\ page'.pending = page.pending
        /\ page'.timer = page.timer /\ page'.attempts = page.attempts
        /\ page'.baffled = page.baffled
    BY <1>1, <2>1 DEF Tab
  <2>3. msf' \in Server
    <3>1. msf.checks \in 0..MaxChecks BY <1>1 DEF Server
    <3>2. msf.checks < MaxChecks /\ msf' = [msf EXCEPT !.checks = @ + 1]
      BY <1>3 DEF Check, CheckTimer
    <3>3. msf.checks + 1 \in 0..MaxChecks BY <3>1, <3>2, SelfBounds
    <3> QED BY <1>1, <3>2, <3>3 DEF Server
  <2>4. WatchIsAlive' BY <1>2, <2>2, StillWatched
  <2> QED BY <1>2, <1>3, <2>2, <2>3, <2>4 DEF UpdateTypeOK, Check, CheckTimer
<1>4. CASE Download(l)
  <2>1. msf' \in Server
    <3>1. PICK st \in {"downloaded", "failed"} :
                 msf' = [msf EXCEPT !.row = st, !.file = @ \/ st = "downloaded"]
      BY <1>4 DEF Download
    <3>2. (msf.file \/ st = "downloaded") \in BOOLEAN OBVIOUS
    <3> QED BY <1>1, <3>1, <3>2 DEF Server, Statuses
  <2>2. WatchIsAlive' BY <1>2, <1>4, StillWatched DEF Download
  <2> QED BY <1>2, <1>4, <2>1, <2>2 DEF UpdateTypeOK, Download
<1>5. CASE InstallRefused(l)
  <2>1. page' = [page EXCEPT !.checking = FALSE] BY <1>5 DEF InstallRefused
  <2>2. /\ page' \in Tab /\ page'.pending = page.pending
        /\ page'.timer = page.timer /\ page'.attempts = page.attempts
        /\ page'.baffled = page.baffled
    BY <1>1, <2>1 DEF Tab
  <2>3. WatchIsAlive' BY <1>2, <2>2, StillWatched
  <2> QED BY <1>2, <1>5, <2>2, <2>3 DEF UpdateTypeOK, InstallRefused
<1>6. CASE TimerFires(l)
  <2>1. page' \in Tab BY <1>1, <1>6 DEF TimerFires, Tab
  <2>2. WatchIsAlive' BY <1>2, <1>6 DEF WatchIsAlive, Watches
  <2> QED BY <1>2, <1>6, <2>1, <2>2 DEF UpdateTypeOK, TimerFires
<1> QED BY <1>3, <1>4, <1>5, <1>6

\* The wait starts with the timer set.
LEMMA StartedStep == ASSUME WatchIInv, InstallStarted PROVE WatchIInv'
<1>1. page \in Tab /\ page.is \in Shown BY DEF WatchIInv, UpdateTypeOK, Tab
<1>2. 0 \in 0..(MaxAttempts + 1) BY SelfBounds
<1>3. page' = [page EXCEPT !.pending = TRUE, !.attempts = 0, !.timer = TRUE, !.baffled = FALSE,
                           !.is = [page.is EXCEPT !.status = "installing"]]
  BY <1>1 DEF InstallStarted, Tab
<1>4. [page.is EXCEPT !.status = "installing"] \in Shown BY <1>1 DEF Shown, Statuses
<1>5. page' \in Tab /\ page'.timer BY <1>1, <1>2, <1>3, <1>4 DEF Tab
<1> QED BY <1>5 DEF WatchIInv, UpdateTypeOK, WatchIsAlive, InstallStarted

LEMMA WatchBegins == UpdateInit => WatchIInv
<1> SUFFICES ASSUME UpdateInit PROVE WatchIInv OBVIOUS
<1>1. NoLoad \in LoadCall /\ [NoLoad EXCEPT !.at = "status"] \in LoadCall
  BY DEF NoLoad, LoadCall, LoadAt, Nothing, Shown, Statuses
<1>2. load \in [LoadSlots -> LoadCall] BY <1>1 DEF UpdateInit
<1>3. Nothing \in Shown BY DEF Nothing, Shown, Statuses
<1>4. 0 \in 0..(MaxAttempts + 1) /\ 0 \in 0..MaxChecks /\ 0 \in 0..MaxInstalls BY SelfBounds
<1>5. page \in Tab /\ page.pending = FALSE
  <2>1. page \in [is : {Nothing}, pending : {FALSE}, attempts : {0}, timer : {FALSE},
                  checking : {FALSE}, auto : BOOLEAN, baffled : {FALSE}]
    BY DEF UpdateInit
  <2> QED BY <1>3, <1>4, <2>1 DEF Tab
<1>6. msf \in Server
  <2>1. msf \in [up : {TRUE}, new : {FALSE}, file : {FALSE}, installer : {FALSE},
                 row : {"idle"}, checks : {0}, installs : {0}]
    BY DEF UpdateInit
  <2> QED BY <1>4, <2>1 DEF Server, Statuses
<1> QED BY <1>2, <1>5, <1>6 DEF WatchIInv, UpdateTypeOK, WatchIsAlive, UpdateInit

\* Inductive, for any number of loads and checks on their way.
THEOREM WatchInductive == UpdateSpec => []WatchIInv
<1>1. WatchIInv /\ [UpdateNext]_uvars => WatchIInv'
  <2> SUFFICES ASSUME WatchIInv, [UpdateNext]_uvars PROVE WatchIInv' OBVIOUS
  <2>1. CASE UNCHANGED uvars
    BY <2>1 DEF uvars, WatchIInv, UpdateTypeOK, WatchIsAlive
  <2>2. CASE UpdateNext
    <3>1. CASE Restart \/ InstallerFails \/ Install \/ ServeInstall BY <3>1, ServerSteps
    <3>2. CASE InstallStarted BY <3>2, StartedStep
    <3>3. CASE \E l \in LoadSlots :
                 LoadStep(l) \/ Check(l) \/ CheckTimer(l) \/ Download(l) \/ InstallRefused(l)
      BY <3>3, LoadSteps, ReadSteps, LostSteps, FailsSteps, BeginSteps
      DEF LoadStep
    <3> QED BY <2>2, <3>1, <3>2, <3>3 DEF UpdateNext
  <2> QED BY <2>1, <2>2
<1> QED BY <1>1, WatchBegins, PTL DEF UpdateSpec

\* The watch over the restart is never lost while the page waits, in whatever way
\* other loads end meanwhile; what ends it early is a load of the restart whose
\* failure does not look like one (SettingsClient.tsx:1546-1565, 1648-1660).
THEOREM WatchNeverLost == UpdateSpec => []WatchIsAlive
<1>1. WatchIInv => WatchIsAlive BY DEF WatchIInv
<1> QED BY <1>1, WatchInductive, PTL

-----------------------------------------------------------------------------
(***************************************************************************)
(* ComponentPanel.  While the cards are worked one at a time there is one  *)
(* chain, and the string names its card: that is what lets the end of the  *)
(* chain clear the string for everybody.  An option that differs from what *)
(* is stored has a save on the way, which knows both values; the next save *)
(* of the same option before that one ends is an overlap.                  *)
(***************************************************************************)
OneChain ==
  \A o, x \in Running : o = x /\ op[o].part = busy

SaveFits(s) ==
  /\ save[s].at = "sent" =>
       stored[save[s].part] = save[s].was /\ option[save[s].part] = save[s].next
  /\ save[s].at = "stored" =>
       stored[save[s].part] = save[s].next /\ option[save[s].part] = save[s].next

PanelIInv ==
  /\ PanelTypeOK
  /\ ~mixed => OneChain
  /\ busy # NoPart => \E o \in Running : op[o].part = busy
  /\ OptionsAgree
  /\ ~overlap => \A s, x \in Saving : SaveFits(s) /\ (save[s].part = save[x].part => s = x)

\* The values of an empty slot are of its type.
LEMMA EmptyOps == NoOp \in Op /\ NoOp.at = "idle" /\ NoSave \in Save /\ NoSave.at = "idle"
BY PartsAssumption DEF NoOp, Op, OpAt, NoSave, Save

LEMMA PanelBegins == PanelInit => PanelIInv
<1> SUFFICES ASSUME PanelInit PROVE PanelIInv
  OBVIOUS
<1>1. PanelTypeOK
  BY EmptyOps DEF PanelInit, PanelTypeOK
<1>2. Running = {} /\ Saving = {}
  BY EmptyOps DEF PanelInit, Running, Saving
<1> QED BY <1>1, <1>2 DEF PanelInit, PanelIInv, OneChain, OptionsAgree

\* What the chains know when one of them moves on.
LEMMA ChainMoves ==
  ASSUME PanelIInv, NEW o \in OpSlots, op[o].at # "idle", NEW c \in Op,
         c.at # "idle", c.part = op[o].part, op' = [op EXCEPT ![o] = c], busy' = busy, mixed' = mixed
  PROVE  /\ op' \in [OpSlots -> Op]
         /\ ~mixed' => OneChain'
         /\ busy' # NoPart => \E x \in Running' : op'[x].part = busy'
<1>1. op \in [OpSlots -> Op] BY DEF PanelIInv, PanelTypeOK
<1>2. \A x \in OpSlots : op'[x].part = op[x].part /\ (op'[x].at = "idle" <=> op[x].at = "idle")
  BY <1>1
<1>3. Running' = Running
  BY <1>2 DEF Running
<1> QED BY <1>1, <1>2, <1>3 DEF PanelIInv, OneChain, Running

LEMMA ChainEnds ==
  ASSUME PanelIInv, NEW o \in OpSlots, op[o].at # "idle", End(o), mixed' = mixed
  PROVE  /\ op' \in [OpSlots -> Op]
         /\ ~mixed' => OneChain'
         /\ busy' = NoPart
<1>1. op \in [OpSlots -> Op] BY DEF PanelIInv, PanelTypeOK
<1>2. op' = [op EXCEPT ![o] = NoOp] /\ busy' = NoPart
  BY DEF End
<1>3. Running' = Running \ {o}
  BY <1>1, <1>2, EmptyOps DEF Running
<1>4. ~mixed => Running' = {}
  <2>1. o \in Running BY DEF Running
  <2> QED BY <1>3, <2>1 DEF PanelIInv, OneChain
<1> QED BY <1>1, <1>2, <1>4, EmptyOps DEF OneChain

\* The options do not see the chains.
LEMMA SavesKept ==
  ASSUME PanelIInv, UNCHANGED <<option, stored, save, overlap>>
  PROVE  /\ OptionsAgree'
         /\ ~overlap' => \A s, x \in Saving' : SaveFits(s)' /\ (save'[s].part = save'[x].part => s = x)
<1>1. Saving' = Saving
  BY DEF Saving
<1> QED BY <1>1 DEF PanelIInv, OptionsAgree, SaveFits

LEMMA OpStepKeeps == ASSUME PanelIInv, NEW o \in OpSlots, OpStep(o) PROVE PanelIInv'
<1>1. /\ op[o] \in Op /\ op[o].at # "idle"
      /\ UNCHANGED <<option, stored, save, mixed, overlap>>
  BY DEF OpStep, PanelIInv, PanelTypeOK
<1>2. CASE End(o)
  <2>1. op' \in [OpSlots -> Op] /\ (~mixed' => OneChain') /\ busy' = NoPart
    BY <1>1, <1>2, ChainEnds
  <2> QED BY <1>1, <2>1, SavesKept DEF PanelIInv, PanelTypeOK
<1>3. CASE \E at \in {"reload", "auto", "refresh"} : busy' = busy /\ OpMoves(o, at)
  <2>1. PICK at \in {"reload", "auto", "refresh"} : busy' = busy /\ op' = [op EXCEPT ![o].at = at]
    BY <1>3 DEF OpMoves
  <2> DEFINE c == [op[o] EXCEPT !.at = at]
  <2>2. c \in Op /\ c.at # "idle" /\ c.part = op[o].part
    BY <1>1 DEF Op, OpAt
  <2>3. op' = [op EXCEPT ![o] = c]
    BY <2>1 DEF PanelIInv, PanelTypeOK
  <2> HIDE DEF c
  <2>4. /\ op' \in [OpSlots -> Op]
        /\ ~mixed' => OneChain'
        /\ busy' # NoPart => \E x \in Running' : op'[x].part = busy'
    BY <1>1, <2>1, <2>2, <2>3, ChainMoves
  <2> QED BY <1>1, <2>1, <2>4, SavesKept DEF PanelIInv, PanelTypeOK
<1> QED BY <1>2, <1>3 DEF OpStep, Refreshes

LEMMA BeginKeeps ==
  ASSUME PanelIInv, NEW o \in OpSlots, NEW p \in Parts, NEW at \in {"check", "update", "upload"},
         Begin(o, p, at)
  PROVE  PanelIInv'
<1>1. /\ busy # p /\ busy' = p /\ op[o].at = "idle" /\ op \in [OpSlots -> Op] /\ option[p] \in BOOLEAN
      /\ op' = [op EXCEPT ![o] = [at |-> at, part |-> p, auto |-> option[p]]]
      /\ mixed' = (mixed \/ \E x \in Running : op[x].part # p)
      /\ UNCHANGED <<option, stored, save, overlap>>
  BY DEF Begin, PanelIInv, PanelTypeOK
<1>2. op' \in [OpSlots -> Op] /\ op'[o].at # "idle" /\ op'[o].part = p
  BY <1>1 DEF Op, OpAt
<1>3. Running' = Running \cup {o}
  BY <1>1, <1>2 DEF Running
<1>4. mixed' \in BOOLEAN
  BY <1>1 DEF PanelIInv, PanelTypeOK
<1>5. ~mixed' => Running = {}
  BY <1>1 DEF PanelIInv, OneChain
<1>6. ~mixed' => OneChain'
  BY <1>1, <1>2, <1>3, <1>5 DEF OneChain
<1> QED BY <1>1, <1>2, <1>3, <1>4, <1>6, SavesKept DEF PanelIInv, PanelTypeOK

\* The chains do not see the options.
LEMMA ChainsKept ==
  ASSUME PanelIInv, UNCHANGED <<busy, op, mixed>>
  PROVE  (~mixed' => OneChain') /\ (busy' # NoPart => \E o \in Running' : op'[o].part = busy')
<1>1. Running' = Running
  BY DEF Running
<1> QED BY <1>1 DEF PanelIInv, OneChain

LEMMA SaveOptionKeeps == ASSUME PanelIInv, NEW s \in SaveSlots, NEW p \in Parts, SaveOption(s, p) PROVE PanelIInv'
<1> DEFINE c == [at |-> "sent", part |-> p, next |-> ~option[p], was |-> option[p]]
<1>1. /\ option \in [Parts -> BOOLEAN] /\ stored \in [Parts -> BOOLEAN] /\ save \in [SaveSlots -> Save]
      /\ save[s].at = "idle" /\ save' = [save EXCEPT ![s] = c]
      /\ option' = [option EXCEPT ![p] = ~option[p]]
      /\ overlap' = (overlap \/ \E x \in Saving : save[x].part = p)
      /\ UNCHANGED <<busy, op, stored, mixed>>
  BY DEF SaveOption, PanelIInv, PanelTypeOK
<1>2. c \in Save /\ c.at = "sent" /\ c.part = p /\ c.next = ~option[p] /\ c.was = option[p]
  BY <1>1 DEF Save
<1> HIDE DEF c
<1>3. PanelTypeOK'
  <2>1. overlap' \in BOOLEAN /\ option' \in [Parts -> BOOLEAN] /\ save' \in [SaveSlots -> Save]
    BY <1>1, <1>2 DEF PanelIInv, PanelTypeOK
  <2> QED BY <1>1, <2>1 DEF PanelIInv, PanelTypeOK
<1>4. Saving' = Saving \cup {s} /\ s \notin Saving
  BY <1>1, <1>2 DEF Saving
<1>5. /\ save'[s] = c /\ \A x \in SaveSlots \ {s} : save'[x] = save[x]
      /\ option'[p] = ~option[p] /\ \A q \in Parts \ {p} : option'[q] = option[q]
  BY <1>1
<1>6. ASSUME ~overlap' PROVE OptionsAgree' /\ \A x, y \in Saving' : SaveFits(x)' /\ (save'[x].part = save'[y].part => x = y)
  <2>1. ~overlap /\ (\A x \in Saving : save[x].part # p) /\ option[p] = stored[p]
    BY <1>1, <1>6 DEF PanelIInv, OptionsAgree
  <2>2. OptionsAgree'
    BY <1>1, <1>2, <1>4, <1>5, <2>1 DEF PanelIInv, OptionsAgree
  <2>3. SaveFits(s)'
    BY <1>1, <1>2, <1>5, <2>1 DEF SaveFits
  <2>4. ASSUME NEW x \in Saving PROVE SaveFits(x)' /\ save'[x] = save[x]
    <3>1. x \in SaveSlots \ {s} /\ save[x].part \in Parts \ {p} /\ SaveFits(x)
      BY <1>1, <1>4, <2>1 DEF Saving, Save, PanelIInv
    <3> QED BY <1>1, <1>5, <3>1 DEF SaveFits
  <2> QED BY <1>2, <1>4, <1>5, <2>1, <2>2, <2>3, <2>4 DEF PanelIInv
<1>7. overlap' => OptionsAgree'
  BY DEF OptionsAgree
<1> QED BY <1>1, <1>3, <1>6, <1>7, ChainsKept DEF PanelIInv

\* A save that moves on or ends leaves the other options and their saves alone.
LEMMA SaveMoves ==
  ASSUME PanelIInv, NEW s \in SaveSlots, save[s].at # "idle",
         NEW c \in Save, c.at = "idle" \/ c.part = save[s].part,
         save' = [save EXCEPT ![s] = c], overlap' = overlap,
         \A q \in Parts \ {save[s].part} : option'[q] = option[q] /\ stored'[q] = stored[q],
         ~overlap => /\ SaveFits(s)'
                     /\ c.at = "idle" => option'[save[s].part] = stored'[save[s].part]
  PROVE  /\ OptionsAgree'
         /\ ~overlap' => \A x, y \in Saving' : SaveFits(x)' /\ (save'[x].part = save'[y].part => x = y)
<1>1. /\ save \in [SaveSlots -> Save] /\ save'[s] = c /\ \A x \in SaveSlots \ {s} : save'[x] = save[x]
      /\ save[s].part \in Parts /\ s \in Saving /\ Saving \subseteq SaveSlots
  BY DEF PanelIInv, PanelTypeOK, Save, Saving
<1>2. Saving' = IF c.at = "idle" THEN Saving \ {s} ELSE Saving
  BY <1>1 DEF Saving
<1> SUFFICES ASSUME ~overlap
             PROVE  /\ OptionsAgree'
                    /\ \A x, y \in Saving' : SaveFits(x)' /\ (save'[x].part = save'[y].part => x = y)
  BY DEF OptionsAgree
<1>3. \A x \in Saving' \ {s} : x \in Saving /\ save'[x] = save[x]
  BY <1>1, <1>2
<1>4. ASSUME NEW x \in Saving' \ {s} PROVE SaveFits(x)' /\ save[x].part # save[s].part
  <2>1. x \in Saving /\ save'[x] = save[x] /\ SaveFits(x) /\ save[x].part # save[s].part
    BY <1>1, <1>3, <1>4 DEF PanelIInv
  <2>2. save[x].part \in Parts
    BY <1>1, <2>1 DEF Save
  <2> QED BY <2>1, <2>2 DEF SaveFits
<1>5. ASSUME NEW x \in Saving', NEW y \in Saving' PROVE save'[x].part = save'[y].part => x = y
  <2>1. ASSUME NEW z \in Saving' PROVE z \in Saving /\ save'[z].part = save[z].part
    BY <1>1, <1>2, <1>3, <2>1
  <2> QED BY <1>5, <2>1 DEF PanelIInv
<1>6. ASSUME NEW q \in Parts, \A x \in Saving' : save'[x].part # q PROVE option'[q] = stored'[q]
  <2>1. CASE q = save[s].part
    BY <1>1, <1>2, <1>6, <2>1
  <2>2. CASE q # save[s].part
    <3>1. \A x \in Saving : save[x].part # q
      BY <1>1, <1>2, <1>3, <1>6, <2>2
    <3>2. option[q] = stored[q]
      BY <3>1 DEF PanelIInv, OptionsAgree
    <3> QED BY <1>6, <2>2, <3>2
  <2> QED BY <2>1, <2>2
<1>7. OptionsAgree'
  BY <1>6 DEF OptionsAgree
<1> QED BY <1>4, <1>5, <1>7

LEMMA StoredKeeps == ASSUME PanelIInv, NEW s \in SaveSlots, OptionStored(s) PROVE PanelIInv'
<1> DEFINE c == [save[s] EXCEPT !.at = "stored"]
<1>1. /\ option \in [Parts -> BOOLEAN] /\ stored \in [Parts -> BOOLEAN] /\ save \in [SaveSlots -> Save]
      /\ save[s] \in Save /\ save[s].at = "sent" /\ save' = [save EXCEPT ![s] = c]
      /\ stored' = [stored EXCEPT ![save[s].part] = save[s].next]
      /\ UNCHANGED <<busy, op, option, mixed, overlap>>
  BY DEF OptionStored, PanelIInv, PanelTypeOK
<1>2. /\ c \in Save /\ c.at = "stored" /\ c.part = save[s].part /\ c.next = save[s].next
      /\ save[s].part \in Parts /\ save[s].next \in BOOLEAN
  BY <1>1 DEF Save
<1> HIDE DEF c
<1>3. PanelTypeOK'
  BY <1>1, <1>2 DEF PanelIInv, PanelTypeOK
<1>4. /\ stored'[save[s].part] = save[s].next /\ save'[s] = c
      /\ \A q \in Parts \ {save[s].part} : stored'[q] = stored[q]
  BY <1>1, <1>2
<1>5. ~overlap => option[save[s].part] = save[s].next
  BY <1>1 DEF PanelIInv, SaveFits, Saving
<1>6. ~overlap => SaveFits(s)'
  BY <1>1, <1>2, <1>4, <1>5 DEF SaveFits
<1> QED BY <1>1, <1>2, <1>3, <1>4, <1>6, ChainsKept, SaveMoves DEF PanelIInv

\* The answer shows what was sent; a refusal brings back what was shown before.
LEMMA SaveEndKeeps ==
  ASSUME PanelIInv, NEW s \in SaveSlots, OptionShown(s) \/ OptionRefused(s)
  PROVE  PanelIInv'
<1>1. /\ option \in [Parts -> BOOLEAN] /\ stored \in [Parts -> BOOLEAN] /\ save \in [SaveSlots -> Save]
      /\ save[s] \in Save /\ save[s].at \in {"sent", "stored"} /\ save' = [save EXCEPT ![s] = NoSave]
      /\ UNCHANGED <<busy, op, stored, mixed, overlap>>
  BY DEF OptionShown, OptionRefused, PanelIInv, PanelTypeOK
<1>2. save[s].part \in Parts /\ save[s].next \in BOOLEAN /\ save[s].was \in BOOLEAN
  BY <1>1 DEF Save
<1>3. /\ option' \in [Parts -> BOOLEAN]
      /\ \A q \in Parts \ {save[s].part} : option'[q] = option[q]
      /\ ~overlap => option'[save[s].part] = stored[save[s].part]
  <2>1. CASE OptionShown(s)
    <3>1. ~overlap => stored[save[s].part] = save[s].next
      BY <1>1, <2>1 DEF OptionShown, PanelIInv, SaveFits, Saving
    <3>2. option' = [option EXCEPT ![save[s].part] = save[s].next]
      BY <2>1 DEF OptionShown
    <3> QED BY <1>1, <1>2, <3>1, <3>2
  <2>2. CASE OptionRefused(s)
    <3>1. ~overlap => stored[save[s].part] = save[s].was
      BY <1>1, <2>2 DEF OptionRefused, PanelIInv, SaveFits, Saving
    <3>2. option' = [option EXCEPT ![save[s].part] = save[s].was]
      BY <2>2 DEF OptionRefused, Reverted
    <3> QED BY <1>1, <1>2, <3>1, <3>2
  <2> QED BY <1>1, <2>1, <2>2
<1>4. PanelTypeOK'
  BY <1>1, <1>3, EmptyOps DEF PanelIInv, PanelTypeOK
<1>5. save'[s] = NoSave
  BY <1>1
<1>6. SaveFits(s)'
  BY <1>5, EmptyOps DEF SaveFits
<1>7. OptionsAgree' /\ (~overlap' => \A x, y \in Saving' : SaveFits(x)' /\ (save'[x].part = save'[y].part => x = y))
  BY <1>1, <1>3, <1>6, EmptyOps, SaveMoves
<1> QED BY <1>1, <1>4, <1>7, ChainsKept DEF PanelIInv

\* The inductive invariant of the cards, the chains and the options.
THEOREM PanelInductive == PanelSpec => []PanelIInv
<1>1. PanelIInv /\ [PanelNext]_cvars => PanelIInv'
  <2> SUFFICES ASSUME PanelIInv, [PanelNext]_cvars PROVE PanelIInv'
    OBVIOUS
  <2>1. CASE UNCHANGED cvars
    BY <2>1, ChainsKept, SavesKept DEF cvars, PanelIInv, PanelTypeOK
  <2>2. CASE PanelNext
    BY <2>2, OpStepKeeps, BeginKeeps, SaveOptionKeeps, StoredKeeps, SaveEndKeeps DEF PanelNext
  <2> QED BY <2>1, <2>2
<1> QED BY <1>1, PanelBegins, PTL DEF PanelSpec

\* As long as the cards are worked one at a time no component has two chains in
\* flight, and no card stays disabled without one (SettingsClient.tsx:1769-1856).
THEOREM CardsKeepTurns == PanelSpec => []CardsTakeTurns
<1>1. PanelIInv => CardsTakeTurns
  <2> SUFFICES ASSUME PanelIInv PROVE CardsTakeTurns
    OBVIOUS
  <2>1. ASSUME ~mixed PROVE Cardinality(Running) <= 1
    <3>1. \A o, x \in Running : o = x
      BY <2>1 DEF PanelIInv, OneChain
    <3>2. Running = {} \/ \E o : Running = {o}
      BY <3>1
    <3>3. Running = {} => Cardinality(Running) = 0
      BY FS_EmptySet, Zenon
    <3>4. (\E o : Running = {o}) => Cardinality(Running) = 1
      BY FS_Singleton, Zenon
    <3>5. Cardinality(Running) \in {0, 1}
      BY <3>2, <3>3, <3>4, Zenon
    <3> HIDE DEF Running
    <3> QED BY <3>5
  <2> QED BY <2>1 DEF PanelIInv, CardsTakeTurns
<1> QED BY <1>1, PanelInductive, PTL

-----------------------------------------------------------------------------
(***************************************************************************)
(* SettingsForms.  Unless it is untidy a tab has one save out at most, and *)
(* only after its read; what the tab shows, what that save carries and what*)
(* the server holds are related by how far the save is.                    *)
(***************************************************************************)
Out(p) == formputs[p].at # "idle"

\* The profile: what it compares with is stored, but for a save that was.
ProfilePut(p) ==
  IF formputs[p].at = "ok" /\ ~formputs[p].password THEN settings.profile = formputs[p].val
  ELSE tabform.base = settings.profile

\* The appearance: the look is on before it is stored.
LookPut(p) ==
  /\ formputs[p].at \in {"sent", "ok"} => tabform.field = formputs[p].val
  /\ formputs[p].at = "ok" => settings.appearance = formputs[p].val

FormsRelate ==
  /\ \A p, q \in FormPuts : Out(p) /\ Out(q) => p = q
  /\ \A p \in FormPuts : Out(p) => tabform.load = "done"
  /\ \A p \in FormPuts : Out(p) /\ tabform.name = "profile" => ProfilePut(p)
  /\ \A p \in FormPuts : Out(p) /\ tabform.name = "appearance" => LookPut(p)

FormsIInv ==
  /\ SettingsTypeOK
  /\ tabform.load = "out" => tabform.name \in Forms
  /\ \A p \in FormPuts : Out(p) => tabform.name \in Forms
  /\ \A p \in FormPuts : formputs[p].password => tabform.name = "profile"
  /\ ~untidy => FormsRelate
  /\ ShownIsStored

\* What the server holds for a form is replaced.
LEMMA Holds ==
  ASSUME SettingsTypeOK, NEW n \in Forms, NEW v \in Contents,
         settings' = [settings EXCEPT ![n] = v]
  PROVE  /\ settings' \in [profile : Contents, hours : Contents, appearance : Contents, setup : BOOLEAN]
         /\ settings'.profile = IF n = "profile" THEN v ELSE settings.profile
         /\ settings'.appearance = IF n = "appearance" THEN v ELSE settings.appearance
<1>1. CASE n = "profile" BY <1>1 DEF SettingsTypeOK
<1>2. CASE n = "hours" BY <1>2 DEF SettingsTypeOK
<1>3. CASE n = "appearance" BY <1>3 DEF SettingsTypeOK
<1> QED BY <1>1, <1>2, <1>3 DEF Forms

LEMMA MountedTyped ==
  ASSUME NEW n \in Forms \cup {"reset"}
  PROVE  Mounted(n) \in TabForm /\ Mounted(n).name = n /\ Mounted(n).load = (IF n = "reset" THEN "done" ELSE "out")
BY FallbackAssumption DEF Mounted, TabForm

LEMMA EmptyPuts ==
  /\ NoFormPut \in FormPut /\ NoFormPut.at = "idle" /\ NoFormPut.password = FALSE
BY FallbackAssumption DEF NoFormPut, FormPut

\* A tab that was just mounted has nothing out and, where there is something to
\* read, has not read it.
FreshTab ==
  /\ tabform.name \in Forms \cup {"reset"} /\ tabform = Mounted(tabform.name)
  /\ formputs = [p \in FormPuts |-> NoFormPut]
  /\ settings \in [profile : Contents, hours : Contents, appearance : Contents, setup : BOOLEAN]
  /\ untidy = FALSE

LEMMA MountKeeps == FreshTab => FormsIInv
<1> SUFFICES ASSUME FreshTab PROVE FormsIInv
  OBVIOUS
<1>1. SettingsTypeOK
  BY MountedTyped, EmptyPuts DEF SettingsTypeOK, FreshTab
<1>2. \A p \in FormPuts : formputs[p] = NoFormPut
  BY DEF FreshTab
<1>3. tabform.load = IF tabform.name = "reset" THEN "done" ELSE "out"
  BY MountedTyped DEF FreshTab
<1> QED BY <1>1, <1>2, <1>3, EmptyPuts DEF FormsIInv, FormsRelate, Out, ShownIsStored, FreshTab, Forms

LEMMA MountKeepsNext == FreshTab' => FormsIInv'
BY MountKeeps, PTL

LEMMA SettingsBegin == SettingsInit => FormsIInv
<1> SUFFICES ASSUME SettingsInit PROVE FormsIInv
  OBVIOUS
<1>1. PICK n \in Forms \cup {"reset"} : tabform = Mounted(n)
  BY DEF SettingsInit
<1>2. settings \in [profile : Contents, hours : Contents, appearance : Contents, setup : BOOLEAN]
  BY DEF SettingsInit
<1> QED BY <1>1, <1>2, MountedTyped, MountKeeps DEF SettingsInit, FreshTab

LEMMA ChangeTabKeeps == ASSUME FormsIInv, NEW n \in Forms \cup {"reset"}, ChangeTab(n) PROVE FormsIInv'
<1>1. settings' \in [profile : Contents, hours : Contents, appearance : Contents, setup : BOOLEAN]
  <2>1. CASE settings' = settings
    BY <2>1 DEF FormsIInv, SettingsTypeOK
  <2>2. CASE \E p \in FormPuts : /\ tabform.name \in Forms
                               /\ settings' = [settings EXCEPT ![tabform.name] = formputs[p].val]
    <3>1. PICK p \in FormPuts : tabform.name \in Forms /\ settings' = [settings EXCEPT ![tabform.name] = formputs[p].val]
      BY <2>2
    <3>2. formputs[p].val \in Contents
      BY DEF FormsIInv, SettingsTypeOK, FormPut
    <3> QED BY <3>1, <3>2, Holds DEF FormsIInv
  <2> QED BY <2>1, <2>2 DEF ChangeTab
<1>2. tabform' = Mounted(n) /\ tabform'.name = n
  BY MountedTyped DEF ChangeTab
<1> QED BY <1>1, <1>2, MountKeepsNext DEF ChangeTab, FreshTab

LEMMA ArrivesKeeps == ASSUME FormsIInv, FormArrives PROVE FormsIInv'
<1>1. /\ tabform \in TabForm /\ tabform.load = "out" /\ tabform.name \in Forms
      /\ settings \in [profile : Contents, hours : Contents, appearance : Contents, setup : BOOLEAN]
      /\ UNCHANGED <<settings, formputs, untidy>>
  BY DEF FormArrives, FormsIInv, SettingsTypeOK
<1>2. settings[tabform.name] \in Contents
  BY <1>1 DEF Forms
<1>3. tabform' = [tabform EXCEPT !.load = "done", !.base = settings[tabform.name], !.field = settings[tabform.name]]
  BY DEF FormArrives
<1>4. /\ tabform' \in TabForm /\ tabform'.name = tabform.name /\ tabform'.load = "done"
      /\ tabform'.base = settings[tabform.name] /\ tabform'.field = settings[tabform.name]
  BY <1>1, <1>2, <1>3 DEF TabForm
<1>5. ~untidy => \A p \in FormPuts : ~Out(p)
  BY <1>1 DEF FormsIInv, FormsRelate
<1>6. SettingsTypeOK'
  BY <1>1, <1>4 DEF FormsIInv, SettingsTypeOK
<1>7. \A p \in FormPuts : Out(p)' <=> Out(p)
  BY <1>1 DEF Out
<1>8. ShownIsStored'
  BY <1>1, <1>4 DEF ShownIsStored
<1>9. ~untidy' => FormsRelate'
  BY <1>1, <1>5, <1>7 DEF FormsRelate
<1> QED BY <1>1, <1>4, <1>6, <1>7, <1>8, <1>9 DEF FormsIInv

LEMMA MissingKeeps == ASSUME FormsIInv, FormMissing PROVE FormsIInv'
<1>1. /\ tabform' = [tabform EXCEPT !.load = "done"] /\ untidy' = TRUE
      /\ UNCHANGED <<settings, formputs>> /\ tabform \in TabForm
  BY DEF FormMissing, FormsIInv, SettingsTypeOK
<1>2. tabform' \in TabForm /\ tabform'.name = tabform.name /\ tabform'.load = "done"
  BY <1>1 DEF TabForm
<1> QED BY <1>1, <1>2 DEF FormsIInv, SettingsTypeOK, ShownIsStored, Out

\* A tab of which only the typed text, the buttons or the confirmation changed.
LEMMA TabKeeps ==
  ASSUME FormsIInv, tabform' \in TabForm, tabform'.name = tabform.name, tabform'.load = tabform.load,
         tabform'.base = tabform.base, tabform.name = "appearance" => tabform'.field = tabform.field,
         settings' = settings \/ tabform.name = "reset",
         settings' \in [profile : Contents, hours : Contents, appearance : Contents, setup : BOOLEAN],
         UNCHANGED <<formputs, untidy>>
  PROVE  FormsIInv'
<1>1. \A p \in FormPuts : Out(p)' <=> Out(p)
  BY DEF Out
<1>2. ~untidy' => FormsRelate'
  BY <1>1 DEF FormsIInv, FormsRelate, ProfilePut, LookPut
<1>3. ShownIsStored'
  BY DEF FormsIInv, ShownIsStored, PutsQuiet
<1> QED BY <1>1, <1>2, <1>3 DEF FormsIInv, SettingsTypeOK

LEMMA TypeFieldKeeps == ASSUME FormsIInv, NEW v \in Contents, TypeField(v) PROVE FormsIInv'
<1>1. tabform \in TabForm /\ tabform' = [tabform EXCEPT !.field = v] /\ tabform.name \in {"profile", "hours"}
  BY DEF TypeField, FormsIInv, SettingsTypeOK
<1>2. /\ tabform' \in TabForm /\ tabform'.name = tabform.name /\ tabform'.load = tabform.load
      /\ tabform'.base = tabform.base
  BY <1>1 DEF TabForm
<1> QED BY <1>1, <1>2, TabKeeps DEF TypeField, FormsIInv, SettingsTypeOK

LEMMA ResetKeeps == ASSUME FormsIInv, AskReset \/ ResetSystem \/ ResetAnswered PROVE FormsIInv'
<1>1. PICK c \in {"closed", "open", "sent"} : tabform' = [tabform EXCEPT !.reset = c]
  <2>1. CASE AskReset
    <3>1. tabform' = [tabform EXCEPT !.reset = IF tabform.reset = "open" THEN "closed" ELSE "open"]
      BY <2>1 DEF AskReset
    <3> QED BY <3>1
  <2> QED BY <2>1 DEF ResetSystem, ResetAnswered
<1>2. tabform.name = "reset" /\ tabform \in TabForm
  BY DEF AskReset, ResetSystem, ResetAnswered, FormsIInv, SettingsTypeOK
<1>3. /\ tabform' \in TabForm /\ tabform'.name = tabform.name /\ tabform'.load = tabform.load
      /\ tabform'.base = tabform.base
  BY <1>1, <1>2 DEF TabForm
<1>4. /\ settings' \in [profile : Contents, hours : Contents, appearance : Contents, setup : BOOLEAN]
      /\ UNCHANGED <<formputs, untidy>>
  BY DEF AskReset, ResetSystem, ResetAnswered, FormsIInv, SettingsTypeOK
<1> QED BY <1>2, <1>3, <1>4, TabKeeps

\* A save begins when nothing is out, or the tab is untidy from then on.
LEMMA SendKeeps ==
  ASSUME FormsIInv, NEW p \in FormPuts, NEW v \in Contents, NEW password \in BOOLEAN, NEW form \in TabForm,
         FormSends(p, v, password, form), tabform.name \in Forms,
         password => tabform.name = "profile",
         form.name = tabform.name, form.load = tabform.load, form.base = tabform.base,
         tabform.name = "appearance" => form.field = v
  PROVE  FormsIInv'
<1> DEFINE c == [at |-> "sent", val |-> v, password |-> password]
<1>1. c \in FormPut /\ c.at = "sent" /\ c.val = v /\ c.password = password
  BY DEF FormPut
<1> HIDE DEF c
<1>2. /\ formputs' = [formputs EXCEPT ![p] = c] /\ tabform' = form /\ settings' = settings
      /\ untidy' = (untidy \/ tabform.load = "out" \/ ~PutsQuiet) /\ formputs \in [FormPuts -> FormPut]
      /\ tabform \in TabForm
  BY DEF FormSends, c, FormsIInv, SettingsTypeOK
<1>3. formputs' \in [FormPuts -> FormPut] /\ formputs'[p] = c /\ \A q \in FormPuts \ {p} : formputs'[q] = formputs[q]
  BY <1>1, <1>2
<1>4. untidy' \in BOOLEAN
  BY <1>2 DEF FormsIInv, SettingsTypeOK
<1>5. SettingsTypeOK'
  BY <1>2, <1>3, <1>4 DEF FormsIInv, SettingsTypeOK
<1>6. ShownIsStored'
  BY <1>1, <1>3 DEF ShownIsStored, PutsQuiet
<1>7. ASSUME ~untidy' PROVE FormsRelate'
  <2>1. ~untidy /\ tabform.load = "done" /\ PutsQuiet
    BY <1>2, <1>7 DEF TabForm
  <2>2. \A q \in FormPuts \ {p} : ~Out(q)'
    BY <1>3, <2>1 DEF PutsQuiet, Out
  <2>3. tabform.name = "profile" => ProfilePut(p)'
    BY <1>1, <1>2, <1>3, <2>1 DEF ProfilePut, FormsIInv, ShownIsStored
  <2>4. tabform.name = "appearance" => LookPut(p)'
    BY <1>1, <1>2, <1>3 DEF LookPut
  <2> QED BY <1>2, <2>1, <2>2, <2>3, <2>4 DEF FormsRelate
<1>8. \A q \in FormPuts : Out(q)' => tabform'.name \in Forms
  BY <1>2
<1>9. \A q \in FormPuts : formputs'[q].password => tabform'.name = "profile"
  BY <1>1, <1>2, <1>3 DEF FormsIInv
<1> QED BY <1>2, <1>5, <1>6, <1>7, <1>8, <1>9 DEF FormsIInv

LEMMA SendsKeep ==
  ASSUME FormsIInv, NEW p \in FormPuts,
         SaveForm(p) \/ ChangePassword(p) \/ \E v \in Contents : ChooseLook(p, v)
  PROVE  FormsIInv'
<1>1. tabform \in TabForm /\ tabform.field \in Contents
  BY DEF FormsIInv, SettingsTypeOK, TabForm
<1>2. CASE SaveForm(p) \/ ChangePassword(p)
  <2>1. /\ [tabform EXCEPT !.saving = TRUE] \in TabForm
        /\ [tabform EXCEPT !.saving = TRUE].name = tabform.name
        /\ [tabform EXCEPT !.saving = TRUE].load = tabform.load
        /\ [tabform EXCEPT !.saving = TRUE].base = tabform.base
    BY <1>1 DEF TabForm
  <2>2. tabform.name \in {"profile", "hours"}
    BY <1>2 DEF SaveForm, ChangePassword
  <2>3. CASE SaveForm(p)
    <3>1. FormSends(p, tabform.field, FALSE, [tabform EXCEPT !.saving = TRUE])
      BY <2>3 DEF SaveForm
    <3> QED BY <1>1, <2>1, <2>2, <3>1, SendKeeps DEF Forms
  <2>4. CASE ChangePassword(p)
    <3>1. FormSends(p, Fallback, TRUE, [tabform EXCEPT !.saving = TRUE]) /\ tabform.name = "profile"
      BY <2>4 DEF ChangePassword
    <3> QED BY <2>1, <3>1, SendKeeps, FallbackAssumption DEF Forms
  <2> QED BY <1>2, <2>3, <2>4
<1>3. CASE \E v \in Contents : ChooseLook(p, v)
  <2>1. PICK v \in Contents : ChooseLook(p, v)
    BY <1>3
  <2>2. /\ [tabform EXCEPT !.field = v] \in TabForm
        /\ [tabform EXCEPT !.field = v].name = tabform.name
        /\ [tabform EXCEPT !.field = v].load = tabform.load
        /\ [tabform EXCEPT !.field = v].base = tabform.base
        /\ [tabform EXCEPT !.field = v].field = v
    BY <1>1 DEF TabForm
  <2>3. FormSends(p, v, FALSE, [tabform EXCEPT !.field = v]) /\ tabform.name = "appearance"
    BY <2>1 DEF ChooseLook
  <2> QED BY <2>2, <2>3, SendKeeps DEF Forms
<1> QED BY <1>2, <1>3

\* A save that the server answered is still out, and the only one.
LEMMA AnsweredKeeps ==
  ASSUME FormsIInv, NEW p \in FormPuts, formputs[p].at = "sent", NEW c \in FormPut,
         c.at \in {"ok", "refused"}, c.val = formputs[p].val, c.password = formputs[p].password,
         formputs' = [formputs EXCEPT ![p] = c], UNCHANGED <<tabform, untidy>>,
         settings' \in [profile : Contents, hours : Contents, appearance : Contents, setup : BOOLEAN],
         ~untidy /\ tabform.name = "profile" => ProfilePut(p)',
         ~untidy /\ tabform.name = "appearance" => LookPut(p)'
  PROVE  FormsIInv'
<1>1. /\ formputs' \in [FormPuts -> FormPut] /\ formputs'[p] = c
      /\ \A q \in FormPuts \ {p} : formputs'[q] = formputs[q]
  BY DEF FormsIInv, SettingsTypeOK
<1>2. (\A q \in FormPuts : Out(q)' <=> Out(q)) /\ Out(p)
  BY <1>1 DEF Out
<1>3. SettingsTypeOK' /\ ShownIsStored'
  BY <1>1 DEF FormsIInv, SettingsTypeOK, ShownIsStored, PutsQuiet
<1>4. ASSUME ~untidy PROVE FormsRelate'
  <2>1. \A q \in FormPuts : Out(q) => q = p
    BY <1>2, <1>4 DEF FormsIInv, FormsRelate
  <2> QED BY <1>2, <1>4, <2>1 DEF FormsIInv, FormsRelate
<1>5. \A q \in FormPuts : formputs'[q].password => tabform'.name = "profile"
  BY <1>1 DEF FormsIInv
<1> QED BY <1>2, <1>3, <1>4, <1>5 DEF FormsIInv

LEMMA ServeFormKeeps == ASSUME FormsIInv, NEW p \in FormPuts, ServeForm(p) PROVE FormsIInv'
<1>1. /\ formputs \in [FormPuts -> FormPut] /\ formputs[p] \in FormPut /\ formputs[p].at = "sent"
      /\ formputs[p].val \in Contents /\ tabform.name \in Forms /\ UNCHANGED <<tabform, untidy>>
      /\ settings \in [profile : Contents, hours : Contents, appearance : Contents, setup : BOOLEAN]
  BY DEF ServeForm, FormsIInv, SettingsTypeOK, Out, FormPut
<1>2. ASSUME NEW at \in {"ok", "refused"}
      PROVE  /\ [formputs[p] EXCEPT !.at = at] \in FormPut
             /\ [formputs[p] EXCEPT !.at = at].at = at
             /\ [formputs[p] EXCEPT !.at = at].val = formputs[p].val
             /\ [formputs[p] EXCEPT !.at = at].password = formputs[p].password
  BY <1>1 DEF FormPut
<1>3. ~untidy => /\ tabform.name = "profile" => tabform.base = settings.profile
                 /\ tabform.name = "appearance" => tabform.field = formputs[p].val
  BY <1>1 DEF FormsIInv, FormsRelate, ProfilePut, LookPut, Out
<1>4. CASE formputs' = [formputs EXCEPT ![p].at = "refused"] /\ UNCHANGED settings
  <2> DEFINE c == [formputs[p] EXCEPT !.at = "refused"]
  <2>1. formputs' = [formputs EXCEPT ![p] = c]
    BY <1>1, <1>4
  <2>2. c \in FormPut /\ c.at = "refused" /\ c.val = formputs[p].val /\ c.password = formputs[p].password
    BY <1>2
  <2> HIDE DEF c
  <2>3. formputs'[p] = c
    BY <1>1, <2>1
  <2>4. /\ ~untidy /\ tabform.name = "profile" => ProfilePut(p)'
        /\ ~untidy /\ tabform.name = "appearance" => LookPut(p)'
    BY <1>1, <1>3, <1>4, <2>2, <2>3 DEF ProfilePut, LookPut
  <2> QED BY <1>1, <1>4, <2>1, <2>2, <2>4, AnsweredKeeps
<1>5. CASE /\ settings' = IF formputs[p].password THEN settings
                          ELSE [settings EXCEPT ![tabform.name] = formputs[p].val]
           /\ formputs' = [formputs EXCEPT ![p].at = "ok"]
  <2> DEFINE c == [formputs[p] EXCEPT !.at = "ok"]
  <2>1. formputs' = [formputs EXCEPT ![p] = c]
    BY <1>1, <1>5
  <2>2. c \in FormPut /\ c.at = "ok" /\ c.val = formputs[p].val /\ c.password = formputs[p].password
    BY <1>2
  <2> HIDE DEF c
  <2>3. formputs'[p] = c
    BY <1>1, <2>1
  <2>4. ~formputs[p].password =>
          /\ settings' \in [profile : Contents, hours : Contents, appearance : Contents, setup : BOOLEAN]
          /\ settings'.profile = IF tabform.name = "profile" THEN formputs[p].val ELSE settings.profile
          /\ settings'.appearance = IF tabform.name = "appearance" THEN formputs[p].val ELSE settings.appearance
    BY <1>1, <1>5, Holds DEF FormsIInv
  <2>5. settings' \in [profile : Contents, hours : Contents, appearance : Contents, setup : BOOLEAN]
    BY <1>1, <1>5, <2>4
  <2>6. formputs[p].password => tabform.name = "profile" /\ settings' = settings
    BY <1>5 DEF FormsIInv
  <2>7. ~untidy /\ tabform.name = "profile" => ProfilePut(p)'
    BY <1>1, <1>3, <2>2, <2>3, <2>4, <2>6 DEF ProfilePut
  <2>8. ~untidy /\ tabform.name = "appearance" => LookPut(p)'
    BY <1>1, <1>3, <2>2, <2>3, <2>4, <2>6 DEF LookPut
  <2> QED BY <1>1, <2>1, <2>2, <2>5, <2>7, <2>8, AnsweredKeeps
<1> QED BY <1>4, <1>5 DEF ServeForm

\* The only save ends; the tab shows what it should, or is untidy.
LEMMA SaveOverKeeps ==
  ASSUME FormsIInv, NEW p \in FormPuts, Out(p), formputs' = [formputs EXCEPT ![p] = NoFormPut],
         tabform' \in TabForm, tabform'.name = tabform.name, tabform'.load = tabform.load,
         settings' = settings, untidy' \in BOOLEAN, untidy => untidy',
         ~untidy' => ShownIsStored'
  PROVE  FormsIInv'
<1>1. /\ formputs' \in [FormPuts -> FormPut] /\ formputs'[p] = NoFormPut
      /\ \A q \in FormPuts \ {p} : formputs'[q] = formputs[q]
  BY EmptyPuts DEF FormsIInv, SettingsTypeOK
<1>2. \A q \in FormPuts : Out(q)' => Out(q) /\ q # p
  BY <1>1, EmptyPuts DEF Out
<1>3. ~untidy' => FormsRelate'
  BY <1>2 DEF FormsIInv, FormsRelate
<1>4. \A q \in FormPuts : formputs'[q].password => tabform'.name = "profile"
  BY <1>1, EmptyPuts DEF FormsIInv
<1>5. untidy' => ShownIsStored'
  BY DEF ShownIsStored
<1> QED BY <1>1, <1>2, <1>3, <1>4, <1>5 DEF FormsIInv, SettingsTypeOK

LEMMA FormSavedKeeps == ASSUME FormsIInv, NEW p \in FormPuts, FormSaved(p) PROVE FormsIInv'
<1>1. /\ formputs[p] \in FormPut /\ formputs[p].at = "ok" /\ Out(p) /\ tabform \in TabForm
      /\ formputs[p].val \in Contents /\ tabform.name \in Forms /\ UNCHANGED <<settings, untidy>>
      /\ formputs' = [formputs EXCEPT ![p] = NoFormPut] /\ untidy \in BOOLEAN
  BY DEF FormSaved, FormsIInv, SettingsTypeOK, Out, FormPut
<1>2. /\ tabform' \in TabForm /\ tabform'.name = tabform.name /\ tabform'.load = tabform.load
      /\ tabform'.base = (IF tabform.name = "profile" /\ ~formputs[p].password THEN formputs[p].val ELSE tabform.base)
      /\ tabform.name = "appearance" => tabform'.field = tabform.field
  <2>1. CASE tabform.name = "profile" /\ ~formputs[p].password
    <3>1. tabform' = [tabform EXCEPT !.base = formputs[p].val, !.field = formputs[p].val, !.saving = FALSE]
      BY <2>1 DEF FormSaved, AnswerTaken
    <3> QED BY <1>1, <2>1, <3>1 DEF TabForm
  <2>2. CASE ~(tabform.name = "profile" /\ ~formputs[p].password)
    <3>1. tabform' = [tabform EXCEPT !.saving = FALSE]
      BY <2>2 DEF FormSaved
    <3> QED BY <1>1, <2>2, <3>1 DEF TabForm
  <2> QED BY <2>1, <2>2
<1>3. ASSUME ~untidy
      PROVE  /\ tabform.name = "profile" => tabform'.base = settings.profile
             /\ tabform.name = "appearance" => tabform'.field = settings.appearance
  BY <1>1, <1>2, <1>3 DEF FormsIInv, FormsRelate, ProfilePut, LookPut
<1>4. ~untidy' => ShownIsStored'
  BY <1>1, <1>2, <1>3 DEF ShownIsStored
<1> QED BY <1>1, <1>2, <1>4, SaveOverKeeps

LEMMA FormRefusedKeeps == ASSUME FormsIInv, NEW p \in FormPuts, FormRefused(p) PROVE FormsIInv'
<1>1. /\ formputs[p].at = "refused" /\ Out(p) /\ tabform \in TabForm /\ settings' = settings
      /\ formputs' = [formputs EXCEPT ![p] = NoFormPut]
      /\ tabform' = [tabform EXCEPT !.saving = FALSE] /\ untidy' = (untidy \/ tabform.name = "appearance")
  BY DEF FormRefused, FormsIInv, SettingsTypeOK, Out
<1>2. /\ tabform' \in TabForm /\ tabform'.name = tabform.name /\ tabform'.load = tabform.load
      /\ tabform'.base = tabform.base
  BY <1>1 DEF TabForm
<1>3. untidy' \in BOOLEAN /\ (untidy => untidy')
  BY <1>1 DEF FormsIInv, SettingsTypeOK
<1>4. ~untidy /\ tabform.name = "profile" => tabform.base = settings.profile
  BY <1>1 DEF FormsIInv, FormsRelate, ProfilePut
<1>5. ~untidy' => ShownIsStored'
  BY <1>1, <1>2, <1>4 DEF ShownIsStored
<1> QED BY <1>1, <1>2, <1>3, <1>5, SaveOverKeeps

\* The inductive invariant of the tabs that edit one thing each.
THEOREM FormsInductive == SettingsSpec => []FormsIInv
<1>1. FormsIInv /\ [SettingsNext]_sfvars => FormsIInv'
  <2> SUFFICES ASSUME FormsIInv, [SettingsNext]_sfvars PROVE FormsIInv'
    OBVIOUS
  <2>1. CASE UNCHANGED sfvars
    BY <2>1, TabKeeps DEF sfvars, FormsIInv, SettingsTypeOK
  <2>2. CASE SettingsNext
    BY <2>2, ChangeTabKeeps, ArrivesKeeps, MissingKeeps, TypeFieldKeeps, ResetKeeps, SendsKeep,
       ServeFormKeeps, FormSavedKeeps, FormRefusedKeeps DEF SettingsNext
  <2> QED BY <2>1, <2>2
<1> QED BY <1>1, SettingsBegin, PTL DEF SettingsSpec

===============================================================================
