---------------------------- MODULE MihomoEditor -----------------------------
(***************************************************************************)
(* The editor of the Mihomo configurations (web/src/app/mihomo/config/     *)
(* page.tsx): opening, typing, uploading, the template, saving under a     *)
(* name, applying, deleting and restoring. Of a text only one thing is     *)
(* kept: the file of the server that has the same words, if one has.       *)
(*                                                                         *)
(* reloadAll depends on path and an effect runs it whenever it changes     *)
(* (page.tsx:201-207): every step below that sets another path also reads  *)
(* that path again.                                                        *)
(***************************************************************************)
EXTENDS Naturals

CONSTANTS
  UserConfigs,    \* paths under user_configs
  DefaultConfig,  \* DEFAULT_PATH, config.yaml
  Unsaved,        \* no file
  TextSlots,      \* reads of loadConfig in flight
  SaveTasks       \* saves in flight: the shortcut does not look at saving

ASSUME ConfigsAssumption ==
  DefaultConfig \notin UserConfigs /\ Unsaved \notin UserConfigs \cup {DefaultConfig}

VARIABLES
  path,     \* path
  dirty,    \* dirty: the badge, and the question before another file
  home,     \* the file the text was read from or saved to, or Unsaved: its words are in none
  loading,  \* loading
  saving,   \* saving
  loads,    \* loadConfig, in flight
  saves,    \* save, in flight
  fill,     \* importCustomConfig or newTemplate, in flight
  acting,   \* the one task that holds acting
  exists,   \* the user configurations of the server
  unread,   \* history: the last read of a text failed
  slipped   \* history: something was typed while a save was in flight, or the open
            \* file was deleted by a question asked before it was opened

medvars == <<path, dirty, home, loading, saving, loads, saves, fill, acting,
             exists, unread, slipped>>

Paths == UserConfigs \cup {DefaultConfig}
Load == [at : {"idle", "sent", "back"}, path : Paths]
NoTextLoad == [at |-> "idle", path |-> DefaultConfig]
\* since: the editor got another text since this one was taken.
SaveTask == [at : {"idle", "sent", "kept", "listed"}, path : Paths, since : BOOLEAN]
NoSaveTask == [at |-> "idle", path |-> DefaultConfig, since |-> FALSE]
FillTask == [at : {"idle", "upload", "template"}, path : Paths]
NoFill == [at |-> "idle", path |-> DefaultConfig]
\* run: an apply or an action of the service. open: what it deletes was open.
ActTask == [at : {"idle", "run", "delete", "deleted", "restore", "restored", "lists"},
            path : Paths, open : BOOLEAN]
NoAct == [at |-> "idle", path |-> DefaultConfig, open |-> FALSE]

MihomoEditorTypeOK ==
  /\ path \in Paths /\ dirty \in BOOLEAN /\ home \in Paths \cup {Unsaved}
  /\ loading \in BOOLEAN /\ saving \in BOOLEAN
  /\ loads \in [TextSlots -> Load] /\ saves \in [SaveTasks -> SaveTask]
  /\ fill \in FillTask /\ acting \in ActTask
  /\ exists \subseteq UserConfigs
  /\ unread \in BOOLEAN /\ slipped \in BOOLEAN

FreeText(l) == loads[l].at = "idle" /\ l = CHOOSE x \in TextSlots : loads[x].at = "idle"
Loading(l, at) == [loads EXCEPT ![l] = [at |-> "sent", path |-> at]]

\* loadConfig.
LoadConfig(l, at) ==
  /\ FreeText(l) /\ loads' = Loading(l, at) /\ loading' = TRUE

\* setPath and, when it is another path, what the effect then reads.
SetPath(at) ==
  /\ path' = at
  /\ \/ at = path /\ UNCHANGED <<loads, loading>>
     \/ at # path /\ \E l \in TextSlots : LoadConfig(l, at)

MihomoEditorInit ==
  /\ path = DefaultConfig /\ dirty = FALSE /\ home = DefaultConfig
  /\ loading = TRUE /\ saving = FALSE
  /\ loads = [l \in TextSlots |->
       IF l = CHOOSE x \in TextSlots : TRUE THEN [NoTextLoad EXCEPT !.at = "sent"] ELSE NoTextLoad]
  /\ saves = [s \in SaveTasks |-> NoSaveTask]
  /\ fill = NoFill /\ acting = NoAct
  /\ exists \in SUBSET UserConfigs
  /\ unread = FALSE /\ slipped = FALSE

-----------------------------------------------------------------------------
(* loadConfig, switchFile and the buttons of the editor.                   *)

\* The file is read, or it does not exist, or the call fails.
ConfigRead(l) ==
  /\ loads[l].at = "sent"
  /\ \/ /\ loads[l].path \in exists \cup {DefaultConfig}
        /\ loads' = [loads EXCEPT ![l].at = "back"] /\ unread' = FALSE /\ UNCHANGED loading
     \/ loads' = [loads EXCEPT ![l] = NoTextLoad] /\ unread' = TRUE /\ loading' = FALSE
  /\ UNCHANGED <<path, dirty, home, saving, saves, fill, acting, exists, slipped>>

\* The editor gets a text that the saves in flight did not take.
OtherText == [s \in SaveTasks |-> [saves[s] EXCEPT !.since = saves[s].at \in {"sent", "kept"}]]

ConfigShown(l) ==
  /\ loads[l].at = "back"
  /\ path' = loads[l].path /\ home' = loads[l].path
  /\ dirty' = FALSE /\ saves' = OtherText
  /\ loading' = (loads[l].path # path)
  /\ loads' = IF loads[l].path = path THEN [loads EXCEPT ![l] = NoTextLoad]
              ELSE Loading(l, loads[l].path)
  /\ UNCHANGED <<saving, fill, acting, exists, unread, slipped>>

\* The list lets the user open a file, after a question when dirty; the
\* refresh button asks nothing, and waits for the last read.
SwitchFile(l, file) ==
  /\ file \in UserConfigs
  /\ LoadConfig(l, file)
  /\ UNCHANGED <<path, dirty, home, saving, saves, fill, acting, exists, unread, slipped>>

RefreshConfig(l) ==
  /\ ~loading /\ LoadConfig(l, path)
  /\ UNCHANGED <<path, dirty, home, saving, saves, fill, acting, exists, unread, slipped>>

\* The text changes after a save took it, and before its answer clears dirty.
TextMoves ==
  /\ saves' = OtherText
  /\ slipped' = (slipped \/ \E s \in SaveTasks : saves[s].at \in {"sent", "kept"})

\* Typing, in the page or full screen, where the editor stays while loading.
TypesConfig ==
  /\ dirty' = TRUE /\ home' = Unsaved /\ TextMoves
  /\ UNCHANGED <<path, loading, saving, loads, fill, acting, exists, unread>>

-----------------------------------------------------------------------------
(* importCustomConfig and newTemplate.                                     *)

FillStarts(what, file) ==
  /\ fill.at = "idle" /\ file \in UserConfigs
  /\ fill' = [at |-> what, path |-> file]
  /\ saving' = (saving \/ what = "upload")
  /\ UNCHANGED <<path, dirty, home, loading, loads, saves, acting, exists, unread, slipped>>

\* Mutant: the new text is not marked as unsaved.
FilledClean == UNCHANGED dirty
Filled == dirty' = TRUE

\* The suggested name of a template is one the server has not, when it answers.
FillEnds ==
  /\ fill.at # "idle"
  /\ \/ /\ fill.at = "template" => fill.path \notin exists
        /\ home' = Unsaved /\ Filled /\ SetPath(fill.path) /\ TextMoves
     \/ UNCHANGED <<home, dirty, path, loads, loading, saves, slipped>>
  /\ fill' = NoFill
  /\ saving' = (saving /\ fill.at # "upload")
  /\ UNCHANGED <<acting, exists, unread>>

-----------------------------------------------------------------------------
(* save: the name is asked for, the text is put under it, then the list is *)
(* read and the configuration perhaps applied. The buttons wait for saving,*)
(* the shortcut does not.                                                  *)

SaveConfig(s, file) ==
  /\ saves[s].at = "idle" /\ s = CHOOSE x \in SaveTasks : saves[x].at = "idle"
  /\ file \in UserConfigs
  /\ saving' = TRUE
  /\ saves' = [saves EXCEPT ![s] = [at |-> "sent", path |-> file, since |-> FALSE]]
  /\ UNCHANGED <<path, dirty, home, loading, loads, fill, acting, exists, unread, slipped>>

SaveOver(s) == saves' = [saves EXCEPT ![s] = NoSaveTask] /\ saving' = FALSE

\* The server stores the text, or refuses it.
ConfigStored(s) ==
  /\ saves[s].at = "sent"
  /\ \/ /\ exists' = exists \cup {saves[s].path}
        /\ saves' = [saves EXCEPT ![s].at = "kept"] /\ UNCHANGED saving
     \/ UNCHANGED exists /\ SaveOver(s)
  /\ UNCHANGED <<path, dirty, home, loading, loads, fill, acting, unread, slipped>>

ConfigSaved(s) ==
  /\ saves[s].at = "kept"
  /\ dirty' = FALSE /\ home' = IF saves[s].since THEN home ELSE saves[s].path
  /\ SetPath(saves[s].path)
  /\ saves' = [saves EXCEPT ![s].at = "listed"]
  /\ UNCHANGED <<saving, fill, acting, exists, unread, slipped>>

\* The list, and the apply, have answered or failed.
SaveEnded(s) ==
  /\ saves[s].at = "listed" /\ SaveOver(s)
  /\ UNCHANGED <<path, dirty, home, loading, loads, fill, acting, exists, unread, slipped>>

-----------------------------------------------------------------------------
(* The tasks that hold acting, each after its question.                    *)

ActStarts(what, file) ==
  /\ acting.at = "idle"
  /\ file \in CASE what = "run" -> {DefaultConfig} [] what = "delete" -> UserConfigs
               [] OTHER -> {path}
  /\ acting' = [at |-> what, path |-> file, open |-> what = "delete" /\ file = path]
  /\ UNCHANGED <<path, dirty, home, loading, saving, loads, saves, fill, exists, unread, slipped>>

ActGoes(at) == acting' = [acting EXCEPT !.at = at]

\* Every call may fail, which ends the task.
ActAnswered ==
  /\ \/ acting.at = "run" /\ ActGoes("lists") /\ UNCHANGED <<exists, slipped>>
     \/ /\ acting.at = "delete" /\ exists' = exists \ {acting.path}
        /\ slipped' = (slipped \/ (path = acting.path /\ ~acting.open))
        /\ ActGoes(IF acting.open THEN "deleted" ELSE "lists")
     \/ acting.at = "restore" /\ ActGoes("restored") /\ UNCHANGED <<exists, slipped>>
     \/ /\ acting.at \in {"run", "delete", "restore", "lists"} /\ acting' = NoAct
        /\ UNCHANGED <<exists, slipped>>
  /\ UNCHANGED <<path, dirty, home, loading, saving, loads, saves, fill, unread>>

\* After a delete of the open file the default is read, after a restore what
\* was open then.
ActReads(l) ==
  /\ \/ acting.at = "deleted" /\ LoadConfig(l, DefaultConfig)
     \/ acting.at = "restored" /\ LoadConfig(l, acting.path)
  /\ ActGoes("lists")
  /\ UNCHANGED <<path, dirty, home, saving, saves, fill, exists, unread, slipped>>

-----------------------------------------------------------------------------

MihomoEditorNext ==
  \/ \E l \in TextSlots :
       \/ ConfigRead(l) \/ ConfigShown(l) \/ RefreshConfig(l) \/ ActReads(l)
       \/ \E p \in Paths : SwitchFile(l, p)
  \/ TypesConfig \/ FillEnds \/ ActAnswered
  \/ \E p \in Paths :
       \/ \E what \in {"upload", "template"} : FillStarts(what, p)
       \/ \E what \in {"run", "delete", "restore"} : ActStarts(what, p)
  \/ \E s \in SaveTasks :
       \/ ConfigStored(s) \/ ConfigSaved(s) \/ SaveEnded(s)
       \/ \E p \in Paths : SaveConfig(s, p)

MihomoEditorSpec == MihomoEditorInit /\ [][MihomoEditorNext]_medvars

-----------------------------------------------------------------------------
(* Properties.                                                             *)

\* A read that will put a text of the server into the editor, or fail.
TextReading == \E l \in TextSlots : loads[l].at # "idle"

\* Without the badge the editor has nothing the server has not: what was typed or
\* filled in is marked, unless that happened while a save was in flight, and the
\* text of a file that was deleted stays only until another one is read, unless
\* that read fails; whatever reads, saves, deletes, uploads and templates end in
\* whatever order, and however many of them fail (page.tsx:185-199, 237-266,
\* 317-351, 403-420).
BadgeIsTrue ==
  ~slipped =>
    /\ home = Unsaved => dirty
    /\ home \in UserConfigs \ exists => TextReading \/ unread \/ acting.at = "deleted"
=============================================================================
