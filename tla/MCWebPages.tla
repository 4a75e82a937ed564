------------------------------ MODULE MCWebPages ------------------------------
(***************************************************************************)
(* The pages of the web interface, of which App.tsx mounts the one whose   *)
(* route is shown: a behaviour is one page with the server behind it, the  *)
(* other pages stand still in one of their initial states.                 *)
(***************************************************************************)
EXTENDS ProxySources, ProxyDelay, SelfUpdate, ComponentPanel, FileEditors, MihomoEditor,
        UsersConsole, MosdnsRules, RuleSources, ClientsConsole, InitConfigForm, SettingsForms,
        MosdnsSystem, ProcessPage, MihomoRules

CONSTANTS g1, n1

VARIABLE mounted

MCLatency == [n \in ProxyNames |-> IF n = g1 THEN 3 ELSE IF n = n1 THEN 1 ELSE 2]
MCOlder == [n \in ProxyLeaves |-> 2]

pages == <<yvars, dvars, uvars, cvars, evars, medvars, peoplevars, rvars, srcvars, hvars, fvars, sfvars,
           sysvars, procvars, mrvars>>

On(k) == mounted = k

\* The state of each page while another one is mounted.
Init ==
  /\ mounted \in 1..15
  /\ On(1) \/ (section = "providers" /\ yaml = {})
  /\ On(2) \/ members = [g \in ProxyGroups |-> {n1}]
  /\ On(3) \/ (page = [is |-> Nothing, pending |-> FALSE, attempts |-> 0, timer |-> FALSE,
                       checking |-> FALSE, auto |-> FALSE, baffled |-> FALSE]
               /\ load = [l \in LoadSlots |-> IF l = CHOOSE x \in LoadSlots : TRUE
                                              THEN [NoLoad EXCEPT !.at = "status"] ELSE NoLoad])
  /\ On(4) \/ stored = [p \in Parts |-> FALSE]
  /\ On(5) \/ kind = "config"
  /\ On(6) \/ exists = {}
  /\ On(7) \/ people = [p \in People |-> CHOOSE r \in Rows : TRUE]
  /\ On(8) \/ filed = [c \in Cats |-> {}]
  /\ On(9) \/ sources = [has |-> {}, on |-> {}]
  /\ On(10) \/ clist = [mode |-> "off", listed |-> {}]
  /\ On(11) \/ setupcfg = [words |-> <<>>, rest |-> 0]
  /\ On(12) \/ (settings = [profile |-> Fallback, hours |-> Fallback, appearance |-> Fallback, setup |-> TRUE]
                /\ tabform = Mounted("profile"))
  /\ On(13) \/ sys = Blank
  /\ On(14) \/ up = [d \in Daemons |-> "missing"]
  /\ On(15) \/ ruleset = NoRules
  /\ DialogInit /\ DelayInit /\ UpdateInit /\ PanelInit /\ EditorInit /\ MihomoEditorInit
  /\ UsersInit /\ RulesInit /\ SourcesInit /\ ClientsInit /\ FormInit /\ SettingsInit
  /\ SystemInit /\ ProcessInit /\ MihomoRulesInit

Next ==
  /\ UNCHANGED mounted
  /\ \/ On(1) /\ DialogNext
     \/ On(2) /\ DelayNext
     \/ On(3) /\ UpdateNext
     \/ On(4) /\ PanelNext
     \/ On(5) /\ EditorNext
     \/ On(6) /\ MihomoEditorNext
     \/ On(7) /\ UsersNext
     \/ On(8) /\ RulesNext
     \/ On(9) /\ SourcesNext
     \/ On(10) /\ ClientsNext
     \/ On(11) /\ FormNext
     \/ On(12) /\ SettingsNext
     \/ On(13) /\ SystemNext
     \/ On(14) /\ ProcessNext
     \/ On(15) /\ MihomoRulesNext
  /\ IF On(1) THEN TRUE ELSE UNCHANGED yvars
  /\ IF On(2) THEN TRUE ELSE UNCHANGED dvars
  /\ IF On(3) THEN TRUE ELSE UNCHANGED uvars
  /\ IF On(4) THEN TRUE ELSE UNCHANGED cvars
  /\ IF On(5) THEN TRUE ELSE UNCHANGED evars
  /\ IF On(6) THEN TRUE ELSE UNCHANGED medvars
  /\ IF On(7) THEN TRUE ELSE UNCHANGED peoplevars
  /\ IF On(8) THEN TRUE ELSE UNCHANGED rvars
  /\ IF On(9) THEN TRUE ELSE UNCHANGED srcvars
  /\ IF On(10) THEN TRUE ELSE UNCHANGED hvars
  /\ IF On(11) THEN TRUE ELSE UNCHANGED fvars
  /\ IF On(12) THEN TRUE ELSE UNCHANGED sfvars
  /\ IF On(13) THEN TRUE ELSE UNCHANGED sysvars
  /\ IF On(14) THEN TRUE ELSE UNCHANGED procvars
  /\ IF On(15) THEN TRUE ELSE UNCHANGED mrvars

Spec == Init /\ [][Next]_<<mounted, pages>>

\* One type invariant for the pages; a page that stands still is in a state in
\* which another behaviour begins.
PagesTypeOK ==
  /\ On(1) => DialogTypeOK
  /\ On(2) => DelayTypeOK
  /\ On(3) => UpdateTypeOK
  /\ On(4) => PanelTypeOK
  /\ On(5) => EditorTypeOK
  /\ On(6) => MihomoEditorTypeOK
  /\ On(7) => UsersTypeOK
  /\ On(8) => RulesTypeOK
  /\ On(9) => SourcesTypeOK
  /\ On(10) => ClientsTypeOK
  /\ On(11) => FormTypeOK
  /\ On(12) => SettingsTypeOK
  /\ On(13) => SystemTypeOK
  /\ On(14) => ProcessTypeOK
  /\ On(15) => MihomoRulesTypeOK

\* What the settings page shows once its calls are over is what the server keeps:
\* the options of the components, the subscriptions and nodes of the set-up, and
\* the forms of the other tabs (SettingsClient.tsx:588-626, 1142-1172, 1714-1729).
SettingsAgree == OptionsAgree /\ SummaryIsStored /\ ShownIsStored

\* What the other pages ask for is what the server ends up with, and what they show
\* is what it has: the rules and the sources of MosDNS (app/mosdns/rules/page.tsx:206-441),
\* its upstreams and switches (app/mosdns/system/page.tsx:337-557), the processes
\* (app/process/page.tsx:58-99) and the rules of Mihomo (app/mihomo/rules/page.tsx:222-258).
PagesAgree == RulesStayHome /\ SourcesAsAsked /\ SystemAgrees /\ ServicesAsListed /\ EntriesKept

\* The bound of the run: a history on which the property of the page no longer
\* depends (see each property) is not followed any further, nor is a second thing
\* the system page was told wrongly, or one while it saves everything or two calls
\* are under way.
Tracked ==
  /\ ~overlap
  /\ ~undone /\ (kind = "mosdns" => ~blind)
  /\ ~slipped /\ ~hasty /\ ~crossed /\ ~mixedup /\ ~fickle /\ ~rushed /\ ~untidy
  /\ ~muddled /\ ~reckless
  /\ \/ untrue = {}
     \/ /\ Cardinality(untrue) = 1 /\ saveall = NoBatch
        /\ Cardinality({ c \in SysCalls : scall[c].at # "idle" }) <= 1
===============================================================================
