----------------------------- MODULE FileEditors -----------------------------
(***************************************************************************)
(* The two plain editors of configuration files: the page of all files     *)
(* (web/src/app/config/page.tsx) and the one of the MosDNS files           *)
(* (web/src/app/mosdns/service-config/page.tsx), both over the component   *)
(* YamlEditor. A text is known by the file it was read from. The two pages *)
(* differ in one order: the first names the file once its text is here, the*)
(* second when it is clicked.                                              *)
(***************************************************************************)
EXTENDS Naturals

CONSTANTS
  EditFiles,  \* the files of the list
  MainFile,   \* config.yaml, opened first
  NoFile,     \* the empty editor
  ReadSlots   \* reads in flight at once

ASSUME EditFilesAssumption == MainFile \in EditFiles /\ NoFile \notin EditFiles

VARIABLES
  kind,    \* which of the two pages
  sel,     \* selected, selectedPath
  text,    \* content, and the document of the editor
  prior,   \* what the editor's undo brings back
  read,    \* reads in flight
  put,     \* the save in flight (saving)
  store,   \* the files of the server
  undone,  \* history: an undo brought back the text before a read
  blind    \* history: a save began while a read was out, or after one failed

evars == <<kind, sel, text, prior, read, put, store, undone, blind>>

Texts == EditFiles \cup {NoFile}
Kinds == {"config", "mosdns"}
\* upload: the read follows an upload of a new config.yaml.
Read == [at : {"idle", "upload", "sent", "back"}, path : EditFiles, got : Texts]
NoRead == [at |-> "idle", path |-> MainFile, got |-> NoFile]
Put == [at : {"idle", "sent", "back"}, path : EditFiles, got : Texts]
NoPut == [at |-> "idle", path |-> MainFile, got |-> NoFile]

EditorTypeOK ==
  /\ kind \in Kinds
  /\ sel \in Texts /\ text \in Texts /\ prior \in Texts
  /\ read \in [ReadSlots -> Read] /\ put \in Put
  /\ store \in [EditFiles -> Texts]
  /\ undone \in BOOLEAN /\ blind \in BOOLEAN

Reads(r, at, path) == read' = [read EXCEPT ![r] = [NoRead EXCEPT !.at = at, !.path = path]]
FreeRead(r) == read[r].at = "idle" /\ r = CHOOSE x \in ReadSlots : read[x].at = "idle"
Reading == \E r \in ReadSlots : read[r].at \in {"upload", "sent", "back"}

\* The first effect: the page of all files has its default selected, the other none.
EditorInit ==
  /\ kind \in Kinds
  /\ sel = (IF kind = "config" THEN MainFile ELSE NoFile)
  /\ text = NoFile /\ prior = NoFile
  /\ read = [r \in ReadSlots |-> IF r = CHOOSE x \in ReadSlots : TRUE
                                 THEN [NoRead EXCEPT !.at = "sent"] ELSE NoRead]
  /\ put = NoPut
  /\ store = [f \in EditFiles |-> f]
  /\ undone = FALSE /\ blind = FALSE

-----------------------------------------------------------------------------
(* Reading.                                                                *)

\* Mutant: the page of all files names the file when it is clicked.
NamesAll(file) == file
Names(file) == IF kind = "mosdns" THEN file ELSE sel

\* A click in the list.
Open(r, file) ==
  /\ FreeRead(r)
  /\ Reads(r, "sent", file)
  /\ sel' = Names(file)
  /\ UNCHANGED <<kind, text, prior, put, store, undone, blind>>

\* loadAll after a mount or an upload, and the button that reads again.
Reopen(r) ==
  /\ FreeRead(r)
  /\ \/ kind = "config" /\ Reads(r, "sent", sel)
     \/ kind = "mosdns" /\ Reads(r, "upload", MainFile)
  /\ UNCHANGED <<kind, sel, text, prior, put, store, undone, blind>>

\* A new config.yaml is taken; a refused one is not followed by a read.
Uploads(r) ==
  /\ read[r].at = "upload"
  /\ \/ /\ store' = [store EXCEPT ![MainFile] = MainFile]
        /\ Reads(r, "sent", MainFile)
     \/ UNCHANGED store /\ read' = [read EXCEPT ![r] = NoRead]
  /\ UNCHANGED <<kind, sel, text, prior, put, undone, blind>>

Answers(r) ==
  /\ read[r].at = "sent"
  /\ read' = [read EXCEPT ![r].at = "back", ![r].got = store[read[r].path]]
  /\ UNCHANGED <<kind, sel, text, prior, put, store, undone, blind>>

\* Name and text are set together.
ShowsText(r) ==
  /\ read[r].at = "back"
  /\ sel' = read[r].path /\ text' = read[r].got /\ prior' = text
  /\ read' = [read EXCEPT ![r] = NoRead]
  /\ UNCHANGED <<kind, put, store, undone, blind>>

\* A read that failed shows a message and leaves the editor as it was.
ReadFails(r) ==
  /\ read[r].at = "sent"
  /\ read' = [read EXCEPT ![r] = NoRead]
  /\ blind' = TRUE
  /\ UNCHANGED <<kind, sel, text, prior, put, store, undone>>

-----------------------------------------------------------------------------
(* The editor: typing keeps the file a text is of. A text put in from      *)
(* outside is not reported by onChange, but is in the history undo walks.  *)

Undo ==
  /\ text # prior
  /\ text' = prior /\ prior' = text /\ undone' = TRUE
  /\ UNCHANGED <<kind, sel, read, put, store, blind>>

\* The save button: disabled while saving, on the MosDNS page also without a
\* name; a save takes what the page has, whatever is being read.
Saves ==
  /\ put.at = "idle" /\ sel # NoFile
  /\ put' = [at |-> "sent", path |-> sel, got |-> text]
  /\ blind' = (blind \/ Reading)
  /\ UNCHANGED <<kind, sel, text, prior, read, store, undone>>

Puts ==
  /\ put.at = "sent"
  /\ \/ store' = [store EXCEPT ![put.path] = put.got] /\ put' = [put EXCEPT !.at = "back"]
     \/ UNCHANGED store /\ put' = NoPut
  /\ UNCHANGED <<kind, sel, text, prior, read, undone, blind>>

\* The list, or the service, has been loaded again.
SaveEnds ==
  /\ put.at = "back" /\ put' = NoPut
  /\ UNCHANGED <<kind, sel, text, prior, read, store, undone, blind>>

-----------------------------------------------------------------------------

EditorNext ==
  \/ \E r \in ReadSlots :
       \/ Reopen(r) \/ Uploads(r) \/ Answers(r) \/ ShowsText(r) \/ ReadFails(r)
       \/ \E f \in EditFiles : Open(r, f)
  \/ Undo \/ Saves \/ Puts \/ SaveEnds

EditorSpec == EditorInit /\ [][EditorNext]_evars

-----------------------------------------------------------------------------
(* Properties.                                                             *)

\* A save never puts the text of one file into another, unless the user undid
\* the editor past a read. On the page of all files that holds whatever is
\* being read and whatever failed (config/page.tsx:48-60); the one foreign
\* text is the empty editor saved before the first read. On the MosDNS page it
\* holds as long as no save began during a read or after a failed one.
FilesKeepTheirText ==
  ~undone /\ (kind = "mosdns" => ~blind) =>
    \A f \in EditFiles : store[f] = f \/ (f = MainFile /\ store[f] = NoFile)
=============================================================================
