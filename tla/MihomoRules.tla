----------------------------- MODULE MihomoRules ------------------------------
(***************************************************************************)
(* The configuration tab of the Mihomo rules                               *)
(* (web/src/app/mihomo/rules/page.tsx) over the handlers of                *)
(* internal/server/handlers_mihomo.go. The rules and the rule providers of *)
(* config.yaml are read when the tab is chosen, over whatever was typed in *)
(* it before, and are stored as a whole, under their names. An entry is a  *)
(* provider, or a rule, whose name is its line and which is nameless while *)
(* the line is empty. Nothing else writes these sections meanwhile. The    *)
(* list of the running rules, which the other tabs show and a timer reads, *)
(* is left out.                                                            *)
(***************************************************************************)

CONSTANTS
  RuleEntries,  \* rules and rule providers, whatever they are called
  RuleNames,    \* their names
  ConfigLoads   \* loadConfig in flight

ASSUME RuleNamesAssumption == "absent" \notin RuleNames /\ "nameless" \notin RuleNames

\* Where an entry is, and its name there: in the text, and in config.yaml.
RuleDrafts == [RuleEntries -> RuleNames \cup {"absent", "nameless"}]
RuleSections == { s \in [RuleEntries -> RuleNames \cup {"absent"}] :
                    \A e, x \in RuleEntries : s[e] = s[x] /\ s[e] # "absent" => e = x }
NoRules == [e \in RuleEntries |-> "absent"]

VARIABLES
  ruleset,   \* the server: the entries of config.yaml
  rtab,      \* tab
  ruletext,  \* providerDrafts and rulesConfigText
  arrived,   \* some loadConfig has arrived
  typed,     \* the text was edited since
  broken,    \* entries whose advanced field is no JSON
  cload,     \* loadConfig, in flight
  csave,     \* saveConfig
  removed,   \* history: entries that were not there or were taken out of the text,
             \* and those saved without a name or with that of another
  reckless   \* history: see EntriesKept

mrvars == <<ruleset, rtab, ruletext, arrived, typed, broken, cload, csave, removed, reckless>>

RuleTabs == {"rules", "providers", "config"}
\* after: saveConfig waits for it.
ConfigLoad == [at : {"idle", "sent", "back"}, got : RuleSections, after : BOOLEAN]
NoConfigLoad == [at |-> "idle", got |-> NoRules, after |-> FALSE]
ConfigSave == [at : {"idle", "sent", "stored", "reading"}, text : RuleSections]
NoConfigSave == [at |-> "idle", text |-> NoRules]

MihomoRulesTypeOK ==
  /\ ruleset \in RuleSections /\ rtab \in RuleTabs /\ ruletext \in RuleDrafts
  /\ {arrived, typed, reckless} \subseteq BOOLEAN
  /\ removed \in SUBSET RuleEntries /\ broken \in SUBSET RuleEntries
  /\ cload \in [ConfigLoads -> ConfigLoad] /\ csave \in ConfigSave

MihomoRulesInit ==
  /\ ruleset \in RuleSections /\ rtab = "rules" /\ ruletext = NoRules
  /\ arrived = FALSE /\ typed = FALSE /\ broken = {}
  /\ cload = [l \in ConfigLoads |-> NoConfigLoad] /\ csave = NoConfigSave
  /\ removed = { e \in RuleEntries : ruleset[e] = "absent" } /\ reckless = FALSE

LoadingConfig == \E l \in ConfigLoads : cload[l].at # "idle"

LoadRulesConfig(l, after) ==
  /\ cload[l].at = "idle" /\ l = CHOOSE x \in ConfigLoads : cload[x].at = "idle"
  /\ cload' = [cload EXCEPT ![l] = [NoConfigLoad EXCEPT !.at = "sent", !.after = after]]
  /\ reckless' = (reckless \/ LoadingConfig)

-----------------------------------------------------------------------------

\* The effect on tab reads the configuration.
ChooseTab(t) ==
  /\ t # rtab /\ rtab' = t
  /\ IF t = "config" THEN \E l \in ConfigLoads : LoadRulesConfig(l, FALSE) ELSE UNCHANGED <<cload, reckless>>
  /\ UNCHANGED <<ruleset, ruletext, arrived, typed, broken, csave, removed>>

RulesConfigRead(l) ==
  /\ cload[l].at = "sent"
  /\ cload' = [cload EXCEPT ![l].at = "back", ![l].got = ruleset]
  /\ UNCHANGED <<ruleset, rtab, ruletext, arrived, typed, broken, csave, removed, reckless>>

ConfigLoadEnds(l) ==
  /\ cload' = [cload EXCEPT ![l] = NoConfigLoad]
  /\ csave' = IF cload[l].after THEN NoConfigSave ELSE csave

\* setProviderDrafts, setRulesConfigText: also over what was typed meanwhile.
RulesConfigShown(l) ==
  /\ cload[l].at = "back" /\ ConfigLoadEnds(l)
  /\ ruletext' = cload[l].got
  /\ arrived' = TRUE /\ typed' = FALSE /\ broken' = {}
  /\ UNCHANGED <<ruleset, rtab, removed, reckless>>

RulesConfigNotRead(l) ==
  /\ cload[l].at = "sent" /\ ConfigLoadEnds(l)
  /\ reckless' = TRUE
  /\ UNCHANGED <<ruleset, rtab, ruletext, arrived, typed, broken, removed>>

\* An entry is added to the text, is given a name or loses it, or is taken out.
AddEntry(e) ==
  /\ rtab = "config" /\ ruletext[e] = "absent"
  /\ ruletext' = [ruletext EXCEPT ![e] = "nameless"] /\ typed' = TRUE
  /\ UNCHANGED <<ruleset, rtab, arrived, broken, cload, csave, removed, reckless>>
NameEntry(e, n) ==
  /\ rtab = "config" /\ ruletext[e] \notin {"absent", n}
  /\ ruletext' = [ruletext EXCEPT ![e] = n] /\ typed' = TRUE
  /\ UNCHANGED <<ruleset, rtab, arrived, broken, cload, csave, removed, reckless>>
RemoveEntry(e) ==
  /\ rtab = "config" /\ ruletext[e] # "absent"
  /\ ruletext' = [ruletext EXCEPT ![e] = "absent"] /\ typed' = TRUE
  /\ removed' = removed \cup {e} /\ broken' = broken \ {e}
  /\ UNCHANGED <<ruleset, rtab, arrived, cload, csave, reckless>>
TypeAdvanced(e) ==
  /\ rtab = "config" /\ ruletext[e] # "absent" /\ typed' = TRUE
  /\ broken' = IF e \in broken THEN broken \ {e} ELSE broken \cup {e}
  /\ UNCHANGED <<ruleset, rtab, ruletext, arrived, cload, csave, removed, reckless>>

\* serializeRuleProviderDrafts: a draft without a name is dropped, and of the drafts
\* of one name the last is stored.
SerializedRules(t) ==
  { s \in RuleSections :
      /\ \A e \in RuleEntries : s[e] \in {"absent", t[e]}
      /\ \A e \in RuleEntries : t[e] \in RuleNames => \E x \in RuleEntries : s[x] = t[e] }
Overlooked(t) ==
  { e \in RuleEntries : t[e] = "nameless" \/ \E x \in RuleEntries \ {e} : t[x] = t[e] /\ t[e] \in RuleNames }

\* saveConfig; drafts with a name that are no JSON throw before anything is sent.
SaveRulesConfig ==
  /\ rtab = "config" /\ csave.at = "idle"
  /\ \A e \in broken : ruletext[e] = "nameless"
  /\ \E s \in SerializedRules(ruletext) : csave' = [at |-> "sent", text |-> s]
  /\ removed' = removed \cup Overlooked(ruletext)
  /\ reckless' = (reckless \/ ~arrived \/ LoadingConfig)
  /\ UNCHANGED <<ruleset, rtab, ruletext, arrived, typed, broken, cload>>

\* updateMihomoConfigSections: both sections are replaced.
RulesConfigPut ==
  /\ csave.at = "sent"
  /\ \/ ruleset' = csave.text /\ csave' = [NoConfigSave EXCEPT !.at = "stored"]
     \/ csave' = NoConfigSave /\ UNCHANGED ruleset
  /\ UNCHANGED <<rtab, ruletext, arrived, typed, broken, cload, removed, reckless>>

\* The answer is lost on its way back: what was stored is not read back.
RulesAnswerLost ==
  /\ csave.at = "sent" /\ ruleset' = csave.text /\ csave' = NoConfigSave
  /\ reckless' = (reckless \/ ~typed \/ LoadingConfig)
  /\ UNCHANGED <<rtab, ruletext, arrived, typed, broken, cload, removed>>

\* What was stored is read back; the button waits for that.
RulesConfigSaved ==
  /\ csave.at = "stored"
  /\ csave' = [csave EXCEPT !.at = "reading"]
  /\ \E l \in ConfigLoads : LoadRulesConfig(l, TRUE)
  /\ UNCHANGED <<ruleset, rtab, ruletext, arrived, typed, broken, removed>>

MihomoRulesNext ==
  \/ \E t \in RuleTabs : ChooseTab(t)
  \/ \E l \in ConfigLoads : RulesConfigRead(l) \/ RulesConfigShown(l) \/ RulesConfigNotRead(l)
  \/ \E e \in RuleEntries :
       \/ AddEntry(e) \/ RemoveEntry(e) \/ TypeAdvanced(e)
       \/ \E n \in RuleNames \cup {"nameless"} : NameEntry(e, n)
  \/ SaveRulesConfig \/ RulesConfigPut \/ RulesAnswerLost \/ RulesConfigSaved

MihomoRulesSpec == MihomoRulesInit /\ [][MihomoRulesNext]_mrvars

-----------------------------------------------------------------------------
(* Properties.                                                             *)

\* No entry leaves config.yaml, whatever is saved and read, that was not taken out
\* of the text, left without a name, or given the name of another; and a text at rest
\* that nobody edited is what the server has. Save where something was saved before a
\* load arrived or while one was out, which stores an empty or an old text; where two
\* loads were out, or one failed; or where the answer of a save was lost after the
\* text had been read anew (mihomo/rules/page.tsx:169-184, 222-258).
EntriesKept ==
  ~reckless =>
    /\ \A e \in RuleEntries : ruleset[e] = "absent" => e \in removed
    /\ (arrived /\ ~typed /\ ~LoadingConfig /\ csave.at = "idle") => ruletext = ruleset
===============================================================================
