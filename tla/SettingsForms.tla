---------------------------- MODULE SettingsForms -----------------------------
(***************************************************************************)
(* The tabs of the settings page that edit one thing each                  *)
(* (web/src/app/settings/SettingsClient.tsx): the profile and the password,*)
(* the lifetime of a token, the appearance, and the reset of the setup;    *)
(* with their handlers (internal/server/auth.go, handlers_system.go,       *)
(* handlers_setup.go). A tab is mounted when it is chosen, reads what the  *)
(* server has, and forgets everything when another one is chosen. One value*)
(* stands for the fields of a tab.                                         *)
(***************************************************************************)
EXTENDS Naturals

CONSTANTS
  Contents,   \* what a form can hold
  Fallback,  \* what it holds before the server was asked
  FormPuts   \* saves in flight

ASSUME FallbackAssumption == Fallback \in Contents

Forms == {"profile", "hours", "appearance"}

VARIABLES
  settings,  \* the server: what it holds for each form, and whether it is set up
  tabform,   \* the mounted tab
  formputs,  \* saves in flight, of the mounted tab
  untidy     \* history: see ShownIsStored

sfvars == <<settings, tabform, formputs, untidy>>

\* base: the profile as last read; field: what the form shows; load: the read
\* on mount; saving: disables the buttons; reset: the confirmation.
TabForm == [name : Forms \cup {"reset"}, base : Contents, field : Contents,
            load : {"out", "done"}, saving : BOOLEAN, reset : {"closed", "open", "sent"}]
Mounted(name) == [name |-> name, base |-> Fallback, field |-> Fallback,
                  load |-> IF name = "reset" THEN "done" ELSE "out", saving |-> FALSE, reset |-> "closed"]
\* password: the other button of the profile, whose answer empties its fields.
FormPut == [at : {"idle", "sent", "ok", "refused"}, val : Contents, password : BOOLEAN]
NoFormPut == [at |-> "idle", val |-> Fallback, password |-> FALSE]

SettingsTypeOK ==
  /\ settings \in [profile : Contents, hours : Contents, appearance : Contents, setup : BOOLEAN]
  /\ tabform \in TabForm /\ formputs \in [FormPuts -> FormPut] /\ untidy \in BOOLEAN

SettingsInit ==
  /\ settings \in [profile : Contents, hours : Contents, appearance : Contents, setup : {TRUE}]
  /\ tabform \in { Mounted(n) : n \in Forms \cup {"reset"} }
  /\ formputs = [p \in FormPuts |-> NoFormPut] /\ untidy = FALSE

PutsQuiet == \A p \in FormPuts : formputs[p].at = "idle"

-----------------------------------------------------------------------------

\* changeTab. What is in flight is answered to nobody; the server carries it
\* out by then, or not at all.
ChangeTab(name) ==
  /\ name # tabform.name /\ tabform' = Mounted(name)
  /\ formputs' = [p \in FormPuts |-> NoFormPut]
  /\ \/ UNCHANGED settings
     \/ \E p \in FormPuts : formputs[p].at = "sent" /\ ~formputs[p].password /\ tabform.name \in Forms
                            /\ settings' = [settings EXCEPT ![tabform.name] = formputs[p].val]
  /\ untidy' = FALSE

\* The read on mount; its answer replaces what the form shows.
FormArrives ==
  /\ tabform.load = "out"
  /\ tabform' = [tabform EXCEPT !.load = "done", !.base = settings[tabform.name], !.field = settings[tabform.name]]
  /\ UNCHANGED <<settings, formputs, untidy>>
FormMissing ==
  /\ tabform.load = "out"
  /\ tabform' = [tabform EXCEPT !.load = "done"]
  /\ untidy' = TRUE
  /\ UNCHANGED <<settings, formputs>>

TypeField(v) ==
  /\ tabform.name \in {"profile", "hours"} /\ tabform' = [tabform EXCEPT !.field = v]
  /\ UNCHANGED <<settings, formputs, untidy>>

FormSends(p, v, password, form) ==
  /\ formputs[p].at = "idle" /\ p = CHOOSE q \in FormPuts : formputs[q].at = "idle"
  /\ formputs' = [formputs EXCEPT ![p] = [at |-> "sent", val |-> v, password |-> password]]
  /\ tabform' = form
  /\ untidy' = (untidy \/ tabform.load = "out" \/ ~PutsQuiet)
  /\ UNCHANGED settings

\* saveProfile, for a profile that was changed, and saveSystemSettings.
SaveForm(p) ==
  /\ ~tabform.saving
  /\ tabform.name = "hours" \/ (tabform.name = "profile" /\ tabform.field # tabform.base)
  /\ FormSends(p, tabform.field, FALSE, [tabform EXCEPT !.saving = TRUE])

ChangePassword(p) ==
  /\ tabform.name = "profile" /\ ~tabform.saving
  /\ FormSends(p, Fallback, TRUE, [tabform EXCEPT !.saving = TRUE])

\* A theme or a language is shown and sent at once; resetting the menu order
\* is sent alone.
ChooseLook(p, v) ==
  /\ tabform.name = "appearance"
  /\ FormSends(p, v, FALSE, [tabform EXCEPT !.field = v])

ServeForm(p) ==
  /\ formputs[p].at = "sent"
  /\ \/ /\ settings' = IF formputs[p].password THEN settings
                       ELSE [settings EXCEPT ![tabform.name] = formputs[p].val]
        /\ formputs' = [formputs EXCEPT ![p].at = "ok"]
     \/ formputs' = [formputs EXCEPT ![p].at = "refused"] /\ UNCHANGED settings
  /\ UNCHANGED <<tabform, untidy>>

\* Mutant: the answer to a save leaves what the page took for stored.
FieldTaken(v) == [tabform EXCEPT !.field = v, !.saving = FALSE]
\* The answer of a saved profile is shown, also over what was typed meanwhile.
AnswerTaken(v) == [tabform EXCEPT !.base = v, !.field = v, !.saving = FALSE]

FormSaved(p) ==
  /\ formputs[p].at = "ok"
  /\ tabform' = IF tabform.name = "profile" /\ ~formputs[p].password
                THEN AnswerTaken(formputs[p].val) ELSE [tabform EXCEPT !.saving = FALSE]
  /\ formputs' = [formputs EXCEPT ![p] = NoFormPut]
  /\ UNCHANGED <<settings, untidy>>

\* A look that was refused stays on.
FormRefused(p) ==
  /\ formputs[p].at = "refused"
  /\ tabform' = [tabform EXCEPT !.saving = FALSE]
  /\ formputs' = [formputs EXCEPT ![p] = NoFormPut]
  /\ untidy' = (untidy \/ tabform.name = "appearance")
  /\ UNCHANGED settings

-----------------------------------------------------------------------------
(* The reset: confirmed with a password that is not empty.                 *)

AskReset ==
  /\ tabform.name = "reset" /\ tabform.reset # "sent"
  /\ tabform' = [tabform EXCEPT !.reset = IF @ = "open" THEN "closed" ELSE "open"]
  /\ UNCHANGED <<settings, formputs, untidy>>
ResetSystem ==
  /\ tabform.name = "reset" /\ tabform.reset = "open"
  /\ tabform' = [tabform EXCEPT !.reset = "sent"]
  /\ UNCHANGED <<settings, formputs, untidy>>
ResetAnswered ==
  /\ tabform.name = "reset" /\ tabform.reset = "sent"
  /\ \/ tabform' = [tabform EXCEPT !.reset = "closed"] /\ settings' = [settings EXCEPT !.setup = FALSE]
     \/ tabform' = [tabform EXCEPT !.reset = "open"] /\ UNCHANGED settings
  /\ UNCHANGED <<formputs, untidy>>

SettingsNext ==
  \/ \E n \in Forms \cup {"reset"} : ChangeTab(n)
  \/ FormArrives \/ FormMissing \/ \E v \in Contents : TypeField(v)
  \/ \E p \in FormPuts :
       \/ SaveForm(p) \/ ChangePassword(p) \/ \E v \in Contents : ChooseLook(p, v)
       \/ ServeForm(p) \/ FormSaved(p) \/ FormRefused(p)
  \/ AskReset \/ ResetSystem \/ ResetAnswered

SettingsSpec == SettingsInit /\ [][SettingsNext]_sfvars

-----------------------------------------------------------------------------
(* Properties.                                                             *)

\* A tab at rest shows what the server holds: the profile it compares with to
\* tell whether there is anything to save, and the look that is on; save where
\* its read failed or came after a save, where saves overlapped, or where a
\* look was refused and not taken back (SettingsClient.tsx:1249-1264).
ShownIsStored ==
  (~untidy /\ PutsQuiet /\ tabform.load = "done") =>
    /\ tabform.name = "profile" => tabform.base = settings.profile
    /\ tabform.name = "appearance" => tabform.field = settings.appearance
===============================================================================
