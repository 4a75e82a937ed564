# Verification of msf

msf is a management panel for the DNS server MosDNS and the proxy core Mihomo:
one Go process that serves a web interface, runs the two programs as child
processes, edits their configuration, installs their binaries and sets up the
network rules that send traffic to them. This directory holds TLA+ models of
the backend and of the web interface, the TLC configurations that check them and
TLAPS proofs about them. Go files such as process.go are in `internal/server/`
unless they start with `cmd/`; pages such as app/users/page.tsx are in `web/src/`.

## Parts of the system

### The server

One process, one SQLite database opened with a single connection (app.go:75),
one data directory. Each SQL statement is therefore atomic, but nothing joins
two statements: the code uses no transaction outside migrations. The only mutex
that guards business state is `sm.mu` of the service manager; the others guard
a log file and two caches. Everything else is a goroutine per HTTP request that
reads, decides and writes in separate steps. Most of what is hard in the server
comes from that.

| part | state | operations | hard behaviour | what makes it correct |
|---|---|---|---|---|
| service manager (process.go, handlers_services.go) | `sm.procs`, `data/<service>.pid`, settings `service.<name>.enabled`, the children | Start, Stop, Restart, batches, StopAll, StartEnabled, a waiter goroutine per child | children outlive the manager; the waiter works outside the mutex; stop polls 5 s, then kills | a live child can be reached, at most one instance, stop stops, a stopped service stays off |
| user accounts (handlers_users.go, db.go) | table `users` | create, update, delete, toggle, set-up administrator, reset-password | guards count and write in separate statements; the actor was read at admission | an active administrator remains, a disabled user stays disabled |
| configuration files (handlers_config.go, management_helpers.go, paths.go) | files below `configs/`, table `config_histories` | save, upload, rollback, delete, copy, rename, remove, backup, restore | truncating writes, ignored insert errors, requests that overlap, crashes | no version is lost |
| component installs (downloader.go, handlers_update.go, component_upload.go) | `component_update_info`, `data/<component>.download`, the binary | run, stream install, upload, check | one download file per component, minutes between a read and the write that depends on it | what is installed was verified, what is recorded is true |
| daemon and command line (cmd/msf/main.go, handlers_daemon.go) | `msf.pid`, the listening port, the service unit | serve, stop, restart, status, uninstall, daemon handlers | two managers on one directory, stop timeouts, exit without clean-up | one manager, and the PID file names it |
| runtime and network (runtime.go, runtime_env.go, handlers_system.go) | the nft table, policy rules and routes, setting `network.nft.enabled` | restore, shutdown, apply, clear | sequences of commands of which each may fail, no lock | rules are all there or all gone, as the setting says |
| set-up and settings (handlers_setup.go, configgen.go, handlers_settings_structured.go) | rows of `system_setups`, generated files, desired settings | initialise, change, activate, reset, structured changes | long sequences with failures between, newest row wins | the next restore finds settings and files of one configuration |
| Mihomo modes (mihomo_custom.go, handlers_mihomo.go, mihomo_panels.go) | active file, mode, applied name, generated backup | save, apply, delete user configurations, restore default | three writes per operation | the mode describes the active file |
| MosDNS clients, rules, sources (handlers_mosdns.go, mosdns_panels.go, mosdns_rule_sources.go, mosdns_scan.go) | two client tables, switches, list files, source lists | edit, scan, change mode, download sources | read-modify-write of files, tables mirrored into files | the files MosDNS reads equal the tables |
| update of msf (handlers_update.go) | row `msf` of `update_info`, an archive | check, download, install, cancel | cancel does not stop the download, install restarts the process | the archive that is installed is the one that was downloaded |
| sessions and tokens (auth.go, handlers_tokens.go, app.go) | refresh tokens, API tokens, roles and scopes | login, refresh, create, revoke, authorise | rights read at admission | no request runs with rights its user or token lacks |
| events and logs (events.go, logging.go) | the last window of each stream | tail, stream | windows that overlap | every line is sent once |
| templates, sing-box, observability, packaging | none, or text | rendering, parsing | | not modelled |

### The web interface

A React application in one or several browser tabs. Each page keeps what it read
in component state, starts calls from clicks, effects and timers, and goes on
after every await with what its closure saw at the start. Calls of one page are
answered in any order, answers come after the page was changed, refused calls
roll something back, and there is no lock but the flags that disable buttons.

| part | state | hard behaviour | what makes it correct |
|---|---|---|---|
| session and routes (lib/api.ts, lib/auth.tsx, App.tsx, login) | the token in localStorage, shared by the tabs; a context per tab | answers of an old token, several tabs, expiry | a tab shows the user whose token its calls carry; a log-out spreads |
| setup wizard (pages/SetupPage.tsx) | the form, the download view, flows that outlive clicks | a form that stays editable during a flow, reloads, recovery, streams that break | one flow at a time, what was validated is sent, what is ticked is installed, it comes back |
| proxies (app/mihomo/proxies/page.tsx) | groups, mode, dialogs, delays | optimistic changes with roll-back, a timer that reads meanwhile, batches of writes | the page catches up; nothing is removed unasked; the delay shown is the best |
| settings (app/settings/SettingsClient.tsx) | update of msf, component cards, set-up form, forms | a server that restarts, one busy flag for three cards, ids made from counts | the watch goes on, cards take turns, rows stay apart, what is shown is stored |
| editors (app/config, app/mosdns/service-config, app/mihomo/config, YamlEditor) | the selected file, its text, a badge | a text that comes after its name, undo, saves that overlap | a text goes into its own file; the badge tells of unsaved words |
| users (app/users, UserDialogs) | the list, a dialog, writes | records built from old rows | the last word stands |
| MosDNS pages (rules, clients, system) | lists, selections, tables, switches | lists answered after another was chosen, batches that fail in part, negating roll-backs | rules stay home, unmoved clients stay picked, the page agrees with the server |
| processes, Mihomo rules (app/process, app/mihomo/rules) | the list; a text of rules | actions that overlap; saves before a load | the list is true; no entry is lost |
| dashboards, logs, connections | what they poll | | show only |

How they interact: HTTP handlers of every part call the service manager
(Restart after an install, a changed configuration or an applied user
configuration; StopAll on reset and exit). The start-up goroutine and the
wizard's "activate" call the restore, which reads the desired settings that the
services, the wizard and the network handlers write. Saves of the editors, of
the Mihomo modes and of the MosDNS panels meet in the same files and history
table. `createOrUpdateAdmin` is shared by the wizard and the user table. Every
page reaches the server through lib/api.ts, whose 401 ends the session of every
tab; the routes decide from the context which page is mounted, and unmounting a
page forgets its state but not its calls.

## Modules

| module | models | proofs | instances |
|---|---|---|---|
| ServiceManager | service manager, with the part of serve, exit and restore that moves it | ServiceManagerProofs | MCServiceManager |
| UserAccounts | user table, its guards, and the admission by the middleware | UserAccountsProofs | MCUserAccounts |
| VersionStore | abstract: files that never lose a version | | |
| ConfigFiles | the editor's handlers on files and history; implements VersionStore | ConfigFilesProofs | MCConfigFiles |
| ComponentInstall | installs, uploads and checks of one component, its row, file and process | ComponentInstallProofs | MCComponentInstall |
| AuthContext | operators: the context of a tab and where the routes lead | | |
| WebSession | tabs, one localStorage, tokens | WebFlowsProofs | MCWebFlows |
| SetupWizard | the wizard and the set-up handlers | SetupWizardProofs | MCWebFlows |
| ProxyConsole | node and mode of a proxy group, the refresh | WebFlowsProofs | MCWebFlows |
| ProxySources | the dialogs of providers and groups | PagesProofs | MCWebPages |
| ProxyDelay | the delay test of a group | PagesProofs | MCWebPages |
| SelfUpdate | update of msf, the watch over its restart | SettingsProofs | MCWebPages |
| ComponentPanel | component cards and options | SettingsProofs | MCWebPages |
| SettingsForms | the other tabs of the settings | SettingsProofs | MCWebPages |
| FileEditors | the two plain editors | PagesProofs | MCWebPages |
| MihomoEditor | the editor of Mihomo configurations | PagesProofs | MCWebPages |
| UsersConsole | the users page | PagesProofs | MCWebPages |
| MosdnsRules, RuleSources | rules by category; online rule sources and their updates | PagesProofs | MCWebPages |
| ClientsConsole | clients of MosDNS and moves of a selection | PagesProofs | MCWebPages |
| InitConfigForm | the set-up form | PagesProofs | MCWebPages |
| MosdnsSystem | upstreams, switches, saves of the system page | PagesProofs | MCWebPages |
| ProcessPage, MihomoRules | the process list; the rules of config.yaml | PagesProofs | MCWebPages |

A proof module speaks of the modules it names and of the instance that composes them:
WebFlowsProofs also of MCWebFlows, PagesProofs also of MCWebPages.

### Server modules

They keep one record per goroutine in `req`: a program counter and the
local variables the handler uses later. One action is what the code does between
two points where another goroutine, a child or a crash can be seen; a handler
that runs three SQL statements is three actions.

**ServiceManager.** A request is a plan, a sequence of sections; Restart is stop
then start because the code releases `sm.mu` between them. `lock` is `sm.mu`:
StartEnter takes it, StartRefused, StartSettle, StopNoPid, StopSeesExit and
StopKills release it. Start checks the PID file (StartEnter or
StartAlreadyRunning), forks (StartSpawn), writes the PID file without looking at
the error (StartWritePid), waits and reports (StartSettle). Stop reads the PID
file, sends SIGTERM (StopSignal), polls (StopSeesExit) and after five seconds
kills (StopKills). The waiter goroutine of a child is WaiterReaps,
WaiterRemovesPid (outside the mutex) and WaiterForgets (inside). Boot starts the
manager and its restore, Exit ends it by signal or by the daemon handlers, Crash
kills it while children survive. `untracked` is a history variable: services whose PID
file missed an instance because an older waiter removed it, the ignored write failed or the
manager died between fork and write. Two more say which races happened: `overtaken` holds the restores
whose service was stopped between their look at the setting and their start, `late` the instances
forked after a shutdown had passed their service.

**UserAccounts.** Admit is the middleware that reads the actor's row; UpdateReads,
DeleteReads and ToggleReads read the target and evaluate what needs no count;
Counts is the `select count` guard; the Writes actions are the single
statement that follows, on the row as it is then. `stale` marks requests that ran
beside a request that took an administrator away, `dirty` that one of them did so
itself, `moved` that the target changed after it was read.

**ConfigFiles.** ReadOld, Backup (with its two error paths: BackupRefused where
the handler gives up, BackupIgnored where the error is dropped), Truncate and
Fill (os.WriteFile empties the file before it writes), CopyOver, Remove,
and the single-step Rename and RemoveInDirectory. Contents are model values; `Torn` is a file
cut short. `exposed` collects the paths for which the code makes no promise: the target
of a rename, a file of a removed directory, a write after an ignored history
error, a write over what another request wrote since the backup.

**ComponentInstall.** A download is a file name and an inode with `Chunks` pieces,
so that another request can unlink, truncate or replace it: CreateFile,
FillFile, CloseFile, VerifyFile, ExtractFile, PlaceDownload follow downloader.go
line by line; BeginRun, Announce, RestartService and FinishRun follow
handleComponentUpdateRun, BeginStream the streamed installs, BeginUpload to
FinishUpload the upload, BeginCheck and EndCheck the check, whose remote request
lies between its read and its write. A digest is the name of the asset it was
computed from; `hashed` is a history variable of the digests some request computed.
`Publish` is the release moving to another asset. SkipAsset is the way of downloader.go:126 on a system other than
Linux, where a run goes on to its end without a download. Nothing keeps installs apart in the code or in the model;
`crossed` records the installs whose download another one touched between hash and extraction, or whose binary
another one replaced, and `muddled` that the row cannot know the binary.

### Web modules

A page is a record of what its hooks hold; a call in flight is a record in a
slot, with what its closure keeps and where it is: sent, served (carried out by
the server, or read from it, at that moment), answered. The answer is a step of its own,
so calls overtake one another, get lost before or after they were carried out,
and meet a page that has moved on. The handlers of the server behind a page are
in the same module, as one step where the handler is one read-modify-write, as
several where the code leaves time between (an update of rule sources, a proxy
provider written into config.yaml).

Most pages are right only as long as something does not happen that the code does not
prevent. A history variable (`baffled`, `unread`, `untrue`, `shuffled`, `blind`, `slipped`, `hasty`, `crossed`,
`mixedup`, `fickle`, `rushed`, `untidy`, `muddled`, `drifted`, `reckless`, `overlap`, `mixed`) records that it
did, and the property says what is true otherwise; these are the known weak places, listed under "Known weak
places".

**AuthContext, WebSession.** The value of the React context and its changes are
operators: refresh() in its steps, login, logout, the expiry event. RequireReady, PublicOnly and
LeaveSetup are the routes. WebSession has the actions of a tab (Load, Visit, Submit of the
log-in form, Logout, Ask of a polling query, and the answers CheckReturns, MeReturns,
LoginReturns, AskRefused) and of the server (ServeCheck, ServeMe, ServeLogin, ServeAsked,
Expire, SetUp). `writer` is the tab that wrote the storage last: nothing in the code listens
to the storage of another tab.

**SetupWizard.** The form (Go, EditAccount, EditSystem, Accept, Recheck) and the flow
of a click: CompleteStarts, CompletePreflight, ServeInitialize, InitializeReturns,
the introduction, one event stream per component that completes, fails or breaks,
Activates, Leaves. A page that is left or loaded again does not stop its flow on the server:
`work` are installations nobody listens to. BootReturns is the late /setup/check whose answer may
replace a running form by the recovery view, or leave the page.

**ProxyConsole, ProxySources, ProxyDelay.** Select and mode are shown before they are
stored and rolled back to what the closure saw; load() is started by a timer, by hand and by
every handler, and reads node and mode at different moments. A save of providers is a batch of
puts and deletes, each of which reads and rewrites config.yaml. The delay test collects
names recursively, as deep as `DepthLimit`, cuts the list at `TargetLimit`, measures it with workers on one
shared index, and aggregates with a memo. Which names the cut leaves out depends on the order of the groups, which
the model does not keep: any may be left out but the group itself.
The two recursions are recursive functions of one record, their arguments (`Call`, `Query`); the
result is compared with what the groups reach (`Reached`), defined without recursion.

**SelfUpdate, ComponentPanel.** A load keeps restartPending and checkRemote of its
closure; the timer is re-armed by an effect, by a load whose failures all look like a restart
(LoadLost), and not by one that fails otherwise (LoadFails, `baffled`). A card's chain is check, run and reload with
every way out of it.

**FileEditors, MihomoEditor.** A text is known by the file it was read from; undo
brings back the text before a read. MihomoEditor keeps of the text which file has its words (`home`,
or none), and whether the badge is shown; a delete takes the file and leaves the text.

**UsersConsole, MosdnsRules, RuleSources, ClientsConsole, InitConfigForm,
SettingsForms, MosdnsSystem, ProcessPage, MihomoRules.** One record, category, client or
switch stands for those that behave alike. InitConfigForm models the text the subscriptions
travel as (words, name|url) by what joining and splitting do to it. A request of RuleSources reads the list of sources
(SourceListRead) and writes it back (SourceListWritten) in two steps, and an update its records before them. In
MosdnsSystem a call is stored, refused, answered as stored though the handler dropped an error (SwallowSystem), or
stored and its answer lost (LoseAnswer); `untrue` is what the page was told wrongly and has not been shown since. In
MihomoRules entries have names: a save leaves out the nameless and all but one of those with one name
(SerializedRules). ClientsConsole sends any of the selected clients, since a scan may have deleted the others.

## Runs

| run | instance | shows |
|---|---|---|
| SvcRace | 1 service, 2 pids, 2 requests, 2 lives of the manager, failing PID writes, crashes | StopCanReach, OneInstance, StopMeansStopped, RestoreActsOnItsLook, OnlyLateOutlive and the inductive invariant |
| SvcLive | 1 service, 2 requests, fair | RequestsReturn, StoppedChildDies |
| SvcLost | 1 service, 2 requests | violation: the waiter of an old instance removes the new PID file, the child can no longer be stopped |
| SvcRestoreRace | 2 services, 2 requests | violation: a restore starts a service that was stopped after it had looked, and stores it as enabled |
| SvcShutdownRace | 2 services, 2 requests | violation: a service started after StopAll has passed it outlives msf |
| UsrRace | 2 users, 2 requests | AdminRemains, DisableHolds and the inductive invariant |
| UsrLast | 2 users, 2 requests | violation: two administrators who disable each other leave none |
| CfgStore | 3 contents; two requests on one file, or one at a time on two files; crashes, failing inserts | VersionsKept, StoreSpec (refinement) and the inductive invariant |
| InsRace | 2 requests, 2 assets, 1 upload, everything overlaps: all kinds of requests on one release, where msf may crash, on Linux and elsewhere; or runs of two releases, one published while the other is installed | ProvenanceHonest, UncrossedIsVerified, CompletedNames, UncrossedRunsNew and the inductive invariant |
| InsTmp | 2 requests, 2 assets in 2 chunks | violation: an update installs content nobody verified |
| WebFlows | 2 tabs with 3 calls, 2 users, 2 tokens; the wizard with 2 components and 2 flows; the proxies page with 2 slots, 1 lost call and 1 foreign change; fair | SessionAgrees, FlowsAlone, SendsValidated, TicksAreTrue, LogoutSpreads, WizardReturns, PageCatchesUp |
| WebPages | each of the other 15 page modules, two calls in flight | the properties below |

InsRace, CfgStore, WebFlows and WebPages hold several instances in one: a variable
(`scene`, `spare`, `shown`, `mounted`) chosen at the start says which behaviour it is, and the
others stand still. The pages of the interface really exclude one another: App.tsx mounts one.

The properties of WebPages:

- EachMeasuredOnce: a delay test measures each name on its list once and no other, also on groups that
  contain one another; the list is what the group reaches, unless the limits on depth and length cut it.
- BestDelayFound: a delay the page shows for a group is one the group reaches; the group that
  was tested has a delay exactly if it reaches one; and as long as no group contains itself, also
  not through others, every delay shown is the least one reached. With loops it need not be: see
  the weak places.
- WatchIsAlive: while the page waits for msf to come back there is a timer or a
  load that will set one, or the attempts are used up, or a load of the restart failed otherwise than a restart does.
- CardsTakeTurns: one chain at a time, and no card stays disabled without one.
- FilesKeepTheirText: no save puts the text of one file into another.
- BadgeIsTrue: without the badge, the editor has no words the server lacks, but those of a deleted file
  until the read that follows.
- LastWordStands: a user has the role and state last asked for.
- UnmovedStayPicked: a client whose move was refused stays selected.
- RowsEditAlone: an edit of a subscription changes its own row.
- RemovalsAreAsked: a save takes away nothing the user did not remove.
- SettingsAgree: OptionsAgree, SummaryIsStored and ShownIsStored of the settings page.
- PagesAgree: RulesStayHome, SourcesAsAsked, SystemAgrees, ServicesAsListed and EntriesKept of
  the MosDNS, process and rules pages.

Why these bounds. The races of this code are between two goroutines, two calls of
a page, or one of them and a child, a timer or the process itself: two
give every interleaving of a pair. Two pids give a service an old and a new instance, and a
third could only be a repetition. Two services let a restore or a shutdown be between them. Two lives of the
manager are what adoption after a crash needs. Three contents let a file hold a version, get a second and lose
it to a third. Two assets are what is verified and what it is exchanged for; two chunks make a partial file
(InsRace has one, written after the file was created empty). Two tokens are an old and a new session, two names
those of one user or of two; `FirstName` gives the first session to one of them, which loses no behaviour but
its mirror image. For the pages: two files, categories, sources, hosts and rows are one and the other; one read
beside one write where the module says so (MosdnsRules, MosdnsSystem), two elsewhere. Three groups make chains
and loops of three; `DepthLimit` 1 and `TargetLimit` 3 where the code has 6 and 260, so that both limits cut.
Two names for two rules give each its own, both the same, or none. `MaxAttempts` is 1 where the code has 20, so
that the attempts are used up; `Mistakes` and `HostStates` of the wizard are one wrong step and the two answers
that block it; `MaxTokens`, `MaxChecks`, `MaxInstalls`, `ProxyFaults` and `ProxyOthers` bound counters.
`Tracked` in MCWebPages stops a behaviour once a history variable says the property promises nothing any more,
and on the system page after one wrong answer follows it only with one call at a time and no save of everything;
what comes before is complete. The run has 2.4 million states. `OneRelease` and `RunsOnly` in MCComponentInstall
are the two scenes of its run. Symmetry is used for sets whose members are only compared, and nowhere with
liveness, where TLC does not support it.

CHECK_DEADLOCK is off in ServiceManager, where nothing is left to do after the last life of the
manager allowed by `MaxBoots`, and in the web runs, where bounds are used up and a page may rest.

**Fairness.** SvcLive: goroutines and waiters are scheduled; a goroutine
that waits for `sm.mu` gets it in the end because Go's mutex switches to
first-in-first-out hand-over after a millisecond of starvation, which is strong
fairness of the actions that take it. The kernel carries out SIGKILL. Nothing makes
a child obey SIGTERM, and nothing forces a request, a crash or a boot to happen.
WebFlows: weak fairness, for each tab, of its polling and the answers to it (Polls), of the steps of a flow
(FlowStep) and of the calls and loads of the proxies page (LoadStep, CallStep): a browser that
stays open delivers answers or errors, and fires timers. Nobody is made to click, to log in or
to stay on a page, and no call is assumed to succeed.

## What the violations show

- SvcLost: `os.Remove(pidFile)` at process.go:130 runs outside `sm.mu` and does not
  look which pid the file holds. Start, death of the child, Start, then the
  first waiter: the second child has no PID file. Status says stopped, Stop does nothing, Start
  launches another instance.
- SvcRestoreRace: process.go:211-224 reads the setting before it takes the mutex, so a stop that comes in
  between is undone, and stored as enabled for every later start.
- SvcShutdownRace: main.go:217-223 shuts the services down before the HTTP
  server, and the restore goroutine is never waited for.
- UsrLast: the guard and the write are separate statements and the actor is as
  old as the request.
- InsTmp: two installs of one component share `data/<component>.download` and
  reopen it by name.

## What is proved

Every invariant and every action property of the passing runs is a theorem; liveness is
not. All theorems hold for every value of the constants that satisfies the named ASSUMEs of the
modules: any sets of services, pids, users, files, assets, requests, tabs, components, groups, slots.

**Server.**

- **ServiceManager**: `Inductive`, `ChildrenStayReachable`, `NoSecondInstance`,
  `StopLeavesNothing`. StopCanReach is not inductive: a waiter that still holds an
  old pid could remove the file in the next step. IInv adds who holds the mutex at
  which step (LockInv, SectionInv), that nobody else makes the service run between
  Start's check and its write (SpawnInv), what stop may find in the PID file while it
  polls (PollInv), and that no old waiter is pending for a tracked service
  (NoStaleWaiter). OneInstance follows from StopCanReach, because one file names one pid,
  together with SpawnInv for the instance being started. StopMeansStopped is an action property from the same
  invariant. `RestoreUndoesOnlyRaces` and `ShutdownLeavesOnlyLate` say, with any requests beside them, what a
  restore and a shutdown keep in spite of the races SvcRestoreRace and SvcShutdownRace show: a restore turns a
  stopped service on only when the stop fell between its look and its start, and what outlives a shutdown was
  forked behind it. The plan of a request carries them: a restore is about to start nothing but what it read as
  enabled (RestoreRule), a shutdown still has a stop for each service that is not clean (ShutdownRule).
- **UserAccounts**: `UsersInductive`, `AdminAlwaysRemains`. The argument is that a
  request that is not stale has an actor who is an active administrator
  (ActorsRule) and never takes the right from itself (SelfIsHarmless), so its write
  leaves at least its actor; the counts are not even needed for that.
  `DisabledStaysDisabled`: an update whose target did not change since it was read carries
  a true is_active only if the row has it (ReadsHold).
- **ConfigFiles**: `FilesInductive`, `FilesImplementStore`, `NoVersionLost`. The
  refinement maps the history table to the versions kept per path. The invariant
  BackedUp says that a request about to write has saved what it read; each action is
  shown to be a step of the store or a stutter, with one lemma for quiet steps
  and one for those that write.
- **ComponentInstall**: `InstallInductive`, `ProvenanceStaysHonest`: the row stays
  honest because every claim a request will write back is honest (CarriesHonest).
  `UncrossedInstallsVerify`, `RowsNameBinary` and `UncrossedServiceFollows` are about installs that overlap in any
  number. Their invariant InstallInv says of each request what its kind can hold (Sound), of each that is not
  crossed that the file it is about to extract is the one it verified, then what it placed, then what it left
  running (Clean), and of a row that says completed that it names the binary unless it is muddled or an install has
  yet to write it (RowNames). The step of one request leaves the others alone or crosses them (Moves).

**Session, wizard, proxies (WebFlowsProofs, SetupWizardProofs).**

- **WebSession**: `WriterIsRight` ([]SessionAgrees, from NoUserAssumption, TokenAssumption and
  SlotsAssumption). The dangerous answer is that of /auth/me, which names the
  owner of the token it was asked with. SessionIInv says that while it is out its tab
  loads, hence neither logs in nor out; so either another tab is the last writer, or
  the token of the question is still the stored one.
- **SetupWizard**: `OneFlowOnly`, `SentIsValid`, `DoneIsInstalled` ([] of FlowsAlone,
  SendsValidated, TicksAreTrue). The buttons look at downloadStatus and busy alone, so
  WizardIInv says what a running flow keeps there at each point, that what a flow has
  still to download contains all that is missing, and so does what the failed view would download again. Once
  the page was left under a running flow, the context stays initialised and no load is out,
  so the login page does not bring a second wizard. `SetupInductive` joins it with the types and
  with the lists of components (ListOK): a flow that downloads has something left to download, so that
  the stream it reads is that of a component.
- **MCWebFlows**: `EachFlowRuns` (a behaviour of the composition is one of the session and one of
  the wizard, and the proxies page keeps its types in it), `FlowsAreTyped`, `FlowsKeepTheirWord`.

**Settings (SettingsProofs).**

- **SelfUpdate**: `WatchInductive`, `WatchNeverLost` ([]WatchIsAlive, from SelfBounds), inductive
  with the types: each load that understands the restart ends by setting the timer, by using up
  the attempts, by ending the wait, or, when a failure does not look like a restart, baffled.
- **ComponentPanel**: `PanelInductive`, `CardsKeepTurns`. As long as the cards are worked one at
  a time there is one chain, which the busy string names (OneChain); an option that differs from what
  is stored has a save on its way that knows both values (SaveFits).
- **SettingsForms**: `FormsInductive`, of which ShownIsStored is a part.

**Pages (PagesProofs).** For each page an inductive invariant that says of the calls in flight
what the property says of the page and the server, then the property; the sections of the module
begin with the argument.

| page | inductive invariant | property | what carries it |
|---|---|---|---|
| FileEditors | `EditorInductive` | `NoTextStrays` | name and text belong together in answered reads, in saves, and in the editor; on the MosDNS page there only while no read is out |
| MihomoEditor | `BadgeInductive` | `BadgeTellsTheTruth` | no save that takes the mark away belongs to a text that has moved on; after a delete a read is on its way (TextRests) |
| UsersConsole | `PeopleInductive` | `LastWordIsKept` | until hasty, a record on its way is as good as the row it was built from |
| ClientsConsole | `MovesInductive` | `NoPickIsLost` | who still waits of a selection that is moved is in its request |
| MosdnsRules | `HomeInductive` | `RulesAreHome` | a list of another category is about to be replaced |
| RuleSources | `RecordsInductive` | `SourcesAreAsAsked` | what a request read of the list, and an update of its records, is still so when it writes |
| ProcessPage | `ListInductive` | `ListTellsTheTruth` | a list that no action overlapped is about to tell what runs |
| MihomoRules | `EntriesInductive` | `NoEntryIsLost` | text, saves and loads lack only what was taken out, left nameless or given another's name |
| MosdnsSystem | `SystemInductive` | `SystemIsShown` | what page and server do not agree on has a call on its way or was answered wrongly |
| ProxySources | `DialogInductive` | `NoRemovalUnasked` | what a dialog read and no longer shows, the user took |
| ProxyDelay | `DelayInductive` | `EachTargetOnce`, `BestDelay` | below |
| InitConfigForm | `DraftInductive`, `StoredInductive` | `EachRowAlone`, `SummaryIsShown` | the rows are known by their ids; one save at a time brings back what it stored |

`EachPageRuns`: a behaviour of MCWebPages is one of each of its fifteen pages. So `PagesAreTyped`,
`PagesTellTheTruth` ([]PagesAgree), `SettingsTellTheTruth` ([]SettingsAgree) and
`EachPageKeepsItsWord` (the rest) follow from the theorems of the pages.

*Recursive functions.* CollectDelayTargets and AggregateGroupDelays are functions that call
themselves, and the summary of the set-up form is read back from words that were joined. The proof
system cannot apply the induction theorems of its library to an operator, so the induction is done on
numbers through the least counterexample (LeastOf, from WFMin): the groups left to visit become
fewer with each call. What the list of targets has is proved the same way; a rank of the groups
(InDepth) shows that the depth limit is not met where groups are nested no deeper. The same measure shows that a solution of the
recursive equation exists (AllExists, SolutionQExists), without which nothing could be said of the function. For
the delays, what a call answers is a reached delay; a call that answers nothing lies in a set of names without a
delay that is left only through groups still waiting, which for the group tested are none; and without loops no
waiting group is reached again, so that what is remembered is the best.

*Assumptions.* Each is an ASSUME of the module that declares the constant, and TLC evaluates it in the
runs. They say that names differ (NoneAssumption, ValuesAssumption, NoUserAssumption,
DefaultAssumption, OthersAssumption, PartsAssumption, ConfigsAssumption, EditFilesAssumption,
RuleNamesAssumption), that
something is there to choose (CompsAssumption, CatsAssumption, PeopleAssumption, ProxyChoices,
SysReadsAssumption, ReadsAssumption, FallbackAssumption, ModesAssumption), that switches and sets of
operations are such (KindsAssumption, OpsAssumption, HistoryAssumption, WriteAssumption, MistakesAssumption,
HostAssumption), and that bounds are numbers (ChunksAssumption, BootsAssumption, RowsAssumption, ProxyBounds,
SelfBounds, TokenAssumption, ChecksAssumption, LimitsAssumption). UsersAssumption says that the users are
finitely many, LatencyAssumption says that there is a group, that groups and nodes are finitely many and that a
name that answers measures more than 0; OrderAssumption and CoverAssumption that StopAll goes through services,
and through all of them.

**Only model-checked**: liveness, since the proof system has no rules for fairness and ENABLED
(RequestsReturn, StoppedChildDies, LogoutSpreads, WizardReturns, PageCatchesUp), and the five
violations.

## Known weak places

Seen while modelling. Where a history variable excludes one, it is named.

- Two saves that overlap back up the same old version and one new version is lost
  (`exposed`). A check that overlaps an upload writes the old installed digest back
  (handlers_update.go:464). A verified download that failed to extract is later taken
  for installed (handlers_update.go:645), which server_test.go:853 asks for. On a system other than Linux a run
  installs nothing, is recorded as completed and erases the installed digest (downloader.go:126; `muddled`).
- While msf restarts, one failed call of a load that does not look like a restart leaves the page saying that it
  restarts, with no timer (SettingsClient.tsx:1648-1660; `baffled`).
- The text of a deleted Mihomo configuration stays in the editor without a badge when the read after the delete
  fails, or when it was opened while its delete was under way (app/mihomo/config/page.tsx:403-420; `unread`,
  `slipped`).
- A rule or provider of Mihomo that is left without a name, or is given the name of another, leaves config.yaml
  with the next save without a word (app/mihomo/rules/page.tsx:173, 181).
- The handlers of the MosDNS switches and upstreams drop errors of the database and of files and answer 200
  (handlers_mosdns.go:1296-1313), so that the page goes on showing what is not stored (`untrue`).
- The button that turns all servers of an upstream group on or off sends one table per
  server, each made from the same old table; the last to arrive wins
  (components/mosdns/UpstreamDNSSection.tsx:104; `muddled`).
- A service action that fails is answered with status 200 and success false
  (handlers_services.go:33), and the process page reports a success (app/process/page.tsx:92).
- The reset dialog says that all user data is cleared; handlers_setup.go:460-486 keeps the users.
- The MosDNS system page and the Mihomo rules store an empty table or text when they are saved before the
  first load has arrived (`muddled`, `reckless`).
- A category, or a file of the MosDNS editor, is selected before its content is there, so a
  reorder or save in between puts the old content under the new name (`crossed`, `blind`).
- A subscription's row id is made from a count and can repeat after a removal (`shuffled`).
- Requests that change the rule sources read the list and write it back without a lock, and an update writes the
  records it read before its downloads: of two that overlap one loses its change, or brings a deleted source back
  (mosdns_rule_sources.go:103-189, 396-413; `mixedup`).
- An edit of a user sends the whole record of the row as it was opened (`hasty`).
- The delay shown of a group on a loop of groups may be too large (app/mihomo/proxies/page.tsx:1059-1082):
  a group that is being visited counts as 0, and what its callers worked out without it is remembered.
  Take R with g and d, where g measured 100 and holds e, e holds d and a node of 1 ms, d holds e and a
  node of 50 ms. The visit of d below e leaves out e and remembers 50; R then reads 50 for d and shows 50,
  while d reaches the node of 1 ms through e. TLC finds this with four groups and it is why BestDelayFound
  claims the least delay only for groups without loops. Whether groups can contain one another
  is for Mihomo to decide, which is not in this repository; the code reckons with it (`visiting`).

## Abstractions

- Text, formats, log lines and HTTP envelopes are left out; a file's content is a
  value. Listing and other reading handlers change nothing and are not actions.
- Authorisation in UserAccounts is the admin requirement of the user routes.
- A pid is not given to a foreign process while a PID file names it. The code
  cannot tell the difference (process.go:62), so this excludes a known weakness.
- Time is a choice: a poll may see the exit or time out, a download may fail.
- SQLite statements succeed or fail as a whole; the journal is trusted.
- The two binaries have the same life; ComponentInstall models one of them. The
  zashboard directory is not modelled.
- Behind the pages a handler that reads and writes in one go is one step; its overlaps with
  other clients are the subject of the server modules, not of the pages.
- An edit of a rule source does not give it the name of another one. The name REJECT, which
  collectDelayTargets skips (app/mihomo/proxies/page.tsx:1008-1039), is no name of ProxyDelay.
- Layout, filters, sorting, toasts and validation texts of the pages are left out; a field, a
  row or a switch stands for those that are treated alike.

## Not modelled

- *Daemon and command line*: msf.pid, two managers on one directory and their port (main.go:193,
  196), stop and restart with timeouts, the service unit. The restore, the exit and the crash as they act
  on children are in ServiceManager.
- *Network rules*: nft and policy routing as command sequences (handlers_system.go:443, 458). What
  the kernel is left with after each failing command is not in the code.
- *Rows and files of the set-up*: initialise, change, reset and activate are single steps in the page
  modules; a crash or an error between two of their statements (handlers_setup.go:147, 238,
  473) and the structured settings (handlers_settings_structured.go:37) are not modelled.
- *Mihomo apply* as three writes (mihomo_custom.go:324), the files of the client list
  beside its tables (handlers_mosdns.go:1530), zip backup and restore and history identifiers
  (handlers_config.go:81, 83, 624).
- *Update of msf* on disk: archive, installer, cancel during a download (handlers_update.go:373);
  the status left by a crash during an install (handlers_update.go:506).
- *API tokens*, roles and scopes; passwords and refresh tokens on the server.
- *Events and logs* (events.go:136), monitoring, observability, the MosDNS compatibility layer,
  templates, sing-box conversion, dashboards: they read, format and show.
- *Migrations, static files, packaging*: scripts and generated code; the kill and restart they
  cause are Crash and Boot of ServiceManager.
