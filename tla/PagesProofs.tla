----------------------------- MODULE PagesProofs ------------------------------
(***************************************************************************)
(* Proofs about the pages that edit what the server holds: for each of them*)
(* the inductive invariant that relates the page, the calls in flight and  *)
(* the server, for any number of files, users, clients, rules, rule        *)
(* sources, upstreams, processes, providers and calls; what the recursion  *)
(* of the delay test and the summary of the set-up form compute; and what  *)
(* follows for the instance WebPages checks, all the pages side by side.   *)
(***************************************************************************)
EXTENDS MCWebPages, SettingsProofs, SequenceTheorems

-----------------------------------------------------------------------------
(***************************************************************************)
(* FileEditors.  FilesKeepTheirText speaks of the server alone; what keeps *)
(* it is that name and text belong together wherever they travel: in a read*)
(* that is answered, in a save, and in the editor - there, on the MosDNS   *)
(* page, only when no read is out, which is when a save that is not blind  *)
(* may begin.                                                              *)
(***************************************************************************)

\* A text that a file may have.
Fits(f, t) == t = f \/ (f = MainFile /\ t = NoFile)
OwnText == ~undone /\ (kind = "mosdns" => ~blind)
AnswerOut == \E r \in ReadSlots : read[r].at \in {"sent", "back"}

EditorIInv ==
  /\ EditorTypeOK
  /\ kind = "config" => sel \in EditFiles
  /\ OwnText =>
       /\ \A f \in EditFiles : Fits(f, store[f])
       /\ Fits(put.path, put.got)
       /\ \A r \in ReadSlots : read[r].at = "back" => Fits(read[r].path, read[r].got)
       /\ kind = "config" => Fits(sel, text)
       /\ kind = "mosdns" => Fits(sel, text) \/ sel = NoFile \/ AnswerOut

\* The values of an empty slot are of its type.
LEMMA EmptySlots == NoRead \in Read /\ NoPut \in Put /\ MainFile \in Texts /\ NoFile \in Texts
BY EditFilesAssumption DEF NoRead, Read, NoPut, Put, Texts

LEMMA EditorBegins == EditorInit => EditorIInv
<1> SUFFICES ASSUME EditorInit PROVE EditorIInv OBVIOUS
<1>1. [NoRead EXCEPT !.at = "sent"] \in Read BY EmptySlots DEF Read
<1>2. EditorTypeOK
  BY <1>1, EmptySlots, EditFilesAssumption DEF EditorInit, EditorTypeOK, Texts
<1>3. \A r \in ReadSlots : read[r].at # "back"
  BY DEF EditorInit, NoRead
<1> QED BY <1>2, <1>3, EditFilesAssumption DEF EditorInit, EditorIInv, Fits, NoPut, Kinds

\* A read that is put into a free slot: nothing that was out is lost.
LEMMA ReadOut ==
  ASSUME EditorIInv, NEW r \in ReadSlots, FreeRead(r), NEW at \in {"sent", "upload"},
         NEW f \in EditFiles, Reads(r, at, f)
  PROVE  /\ read' \in [ReadSlots -> Read]
         /\ \A x \in ReadSlots : read'[x].at = "back" => read'[x] = read[x]
         /\ AnswerOut => AnswerOut'
         /\ at = "sent" => AnswerOut'
<1> DEFINE new == [NoRead EXCEPT !.at = at, !.path = f]
<1>1. new \in Read /\ new.at = at
  BY EmptySlots DEF Read, NoRead
<1>2. read' = [read EXCEPT ![r] = new] /\ read \in [ReadSlots -> Read] /\ read[r].at = "idle"
  BY DEF Reads, FreeRead, EditorIInv, EditorTypeOK
<1> HIDE DEF new
<1> QED BY <1>1, <1>2 DEF AnswerOut

LEMMA OpenStep ==
  ASSUME EditorIInv, NEW r \in ReadSlots, NEW f \in EditFiles, Open(r, f) PROVE EditorIInv'
<1>1. /\ read' \in [ReadSlots -> Read]
      /\ \A x \in ReadSlots : read'[x].at = "back" => read'[x] = read[x]
      /\ AnswerOut'
  BY ReadOut DEF Open
<1>2. sel' = (IF kind = "mosdns" THEN f ELSE sel) /\ UNCHANGED <<kind, text, prior, put, store, undone, blind>>
  BY DEF Open, Names
<1>3. EditorTypeOK' BY <1>1, <1>2 DEF EditorIInv, EditorTypeOK, Texts
<1> QED BY <1>1, <1>2, <1>3 DEF EditorIInv, OwnText, EditorTypeOK, Kinds

LEMMA ReopenStep ==
  ASSUME EditorIInv, NEW r \in ReadSlots, Reopen(r) PROVE EditorIInv'
<1>1. PICK at \in {"sent", "upload"}, f \in EditFiles : FreeRead(r) /\ Reads(r, at, f)
  BY EditFilesAssumption DEF Reopen, EditorIInv
<1>2. /\ read' \in [ReadSlots -> Read]
      /\ \A x \in ReadSlots : read'[x].at = "back" => read'[x] = read[x]
      /\ AnswerOut => AnswerOut'
  BY <1>1, ReadOut
<1>3. UNCHANGED <<kind, sel, text, prior, put, store, undone, blind>> BY DEF Reopen
<1> QED BY <1>2, <1>3 DEF EditorIInv, EditorTypeOK, OwnText

\* A slot that moves on; the read in it goes on being out, or was an upload.
LEMMA SlotMoves ==
  ASSUME EditorIInv, NEW r \in ReadSlots, NEW c \in Read,
         read' = [read EXCEPT ![r] = c]
  PROVE  /\ read' \in [ReadSlots -> Read] /\ read'[r] = c
         /\ \A x \in ReadSlots \ {r} : read'[x] = read[x]
         /\ c.at \in {"sent", "back"} => AnswerOut'
         /\ read[r].at = "upload" /\ AnswerOut => AnswerOut'
BY DEF EditorIInv, EditorTypeOK, AnswerOut

LEMMA UploadsStep == ASSUME EditorIInv, NEW r \in ReadSlots, Uploads(r) PROVE EditorIInv'
<1>1. UNCHANGED <<kind, sel, text, prior, put, undone, blind>> BY DEF Uploads
<1>2. MainFile \in EditFiles /\ MainFile \in Texts BY EditFilesAssumption DEF Texts
<1>3. store' \in [EditFiles -> Texts] /\ \A f \in EditFiles : store'[f] = store[f] \/ store'[f] = f
  BY <1>2 DEF Uploads, EditorIInv, EditorTypeOK
<1>4. /\ read' \in [ReadSlots -> Read]
      /\ \A x \in ReadSlots : read'[x].at = "back" => read'[x] = read[x]
      /\ AnswerOut => AnswerOut'
  <2>1. PICK c \in Read : c.at # "back" /\ read' = [read EXCEPT ![r] = c]
    <3>1. [NoRead EXCEPT !.at = "sent", !.path = MainFile] \in Read
      BY <1>2, EmptySlots DEF Read
    <3>2. [NoRead EXCEPT !.at = "sent", !.path = MainFile].at = "sent" /\ NoRead.at = "idle"
      BY DEF NoRead
    <3>3. \/ read' = [read EXCEPT ![r] = [NoRead EXCEPT !.at = "sent", !.path = MainFile]]
          \/ read' = [read EXCEPT ![r] = NoRead]
      BY DEF Uploads, Reads
    <3> QED BY <3>1, <3>2, <3>3, EmptySlots
  <2>2. read[r].at = "upload" BY DEF Uploads
  <2> QED BY <2>1, <2>2, SlotMoves
<1>5. \A f \in EditFiles : Fits(f, store[f]) => Fits(f, store'[f]) BY <1>3 DEF Fits
<1> QED BY <1>1, <1>3, <1>4, <1>5 DEF EditorIInv, EditorTypeOK, OwnText

LEMMA AnswersStep == ASSUME EditorIInv, NEW r \in ReadSlots, Answers(r) PROVE EditorIInv'
<1>1. UNCHANGED <<kind, sel, text, prior, put, store, undone, blind>> BY DEF Answers
<1>2. read[r] \in Read /\ read[r].path \in EditFiles /\ store[read[r].path] \in Texts
  BY DEF EditorIInv, EditorTypeOK, Read
<1> DEFINE c == [read[r] EXCEPT !.at = "back", !.got = store[read[r].path]]
<1>3. c \in Read /\ c.at = "back" /\ c.path = read[r].path /\ c.got = store[read[r].path]
  BY <1>2 DEF Read
<1>4. read' = [read EXCEPT ![r] = c] BY <1>2 DEF Answers, EditorIInv, EditorTypeOK
<1> HIDE DEF c
<1>5. /\ read' \in [ReadSlots -> Read] /\ read'[r] = c /\ AnswerOut'
      /\ \A x \in ReadSlots \ {r} : read'[x] = read[x]
  BY <1>3, <1>4, SlotMoves
<1>6. OwnText => \A x \in ReadSlots : read'[x].at = "back" => Fits(read'[x].path, read'[x].got)
  BY <1>2, <1>3, <1>5 DEF EditorIInv
<1> QED BY <1>1, <1>5, <1>6 DEF EditorIInv, EditorTypeOK, OwnText

\* Name and text come out of one answer.
LEMMA ShowsStep == ASSUME EditorIInv, NEW r \in ReadSlots, ShowsText(r) PROVE EditorIInv'
<1>1. read[r] \in Read /\ read[r].path \in EditFiles /\ read[r].got \in Texts
  BY DEF EditorIInv, EditorTypeOK, Read
<1>2. /\ sel' = read[r].path /\ text' = read[r].got /\ prior' = text
      /\ UNCHANGED <<kind, put, store, undone, blind>>
  BY DEF ShowsText
<1>3. read' \in [ReadSlots -> Read] /\ \A x \in ReadSlots : read'[x].at = "back" => read'[x] = read[x]
  <2>1. NoRead.at # "back" BY DEF NoRead
  <2> QED BY <2>1, EmptySlots, SlotMoves DEF ShowsText
<1>4. OwnText => Fits(sel', text') BY <1>2 DEF EditorIInv, ShowsText
<1>5. EditorTypeOK' BY <1>1, <1>2, <1>3 DEF EditorIInv, EditorTypeOK, Texts
<1> QED BY <1>1, <1>2, <1>3, <1>4, <1>5 DEF EditorIInv, OwnText

LEMMA FailsStep == ASSUME EditorIInv, NEW r \in ReadSlots, ReadFails(r) PROVE EditorIInv'
<1>1. UNCHANGED <<kind, sel, text, prior, put, store, undone>> /\ blind' = TRUE BY DEF ReadFails
<1>2. read' \in [ReadSlots -> Read] /\ \A x \in ReadSlots : read'[x].at = "back" => read'[x] = read[x]
  <2>1. NoRead.at # "back" BY DEF NoRead
  <2> QED BY <2>1, EmptySlots, SlotMoves DEF ReadFails
<1> QED BY <1>1, <1>2 DEF EditorIInv, EditorTypeOK, OwnText

LEMMA EditStep == ASSUME EditorIInv, Undo \/ SaveEnds PROVE EditorIInv'
<1>1. CASE Undo BY <1>1 DEF Undo, EditorIInv, EditorTypeOK, OwnText
<1>2. CASE SaveEnds
  <2>1. Fits(NoPut.path, NoPut.got) BY DEF NoPut, Fits
  <2> QED BY <1>2, <2>1, EmptySlots DEF SaveEnds, EditorIInv, EditorTypeOK, OwnText, AnswerOut
<1> QED BY <1>1, <1>2

\* A save that is not blind begins when nothing is being read.
LEMMA SavesStep == ASSUME EditorIInv, Saves PROVE EditorIInv'
<1>1. /\ put' = [at |-> "sent", path |-> sel, got |-> text] /\ sel # NoFile
      /\ blind' = (blind \/ Reading)
      /\ UNCHANGED <<kind, sel, text, prior, read, store, undone>>
  BY DEF Saves
<1>2. sel \in EditFiles /\ put' \in Put
  BY <1>1 DEF EditorIInv, EditorTypeOK, Texts, Put
<1>3. AnswerOut => Reading BY DEF AnswerOut, Reading
<1>4. blind' \in BOOLEAN BY <1>1 DEF EditorIInv, EditorTypeOK, Reading
<1>5. OwnText' => OwnText /\ Fits(sel, text)
  <2>1. OwnText' => OwnText BY <1>1 DEF OwnText
  <2>2. CASE kind = "config" BY <2>1, <2>2 DEF EditorIInv
  <2>3. CASE kind = "mosdns"
    <3>1. OwnText' => ~Reading BY <1>1, <2>3 DEF OwnText
    <3> QED BY <1>1, <1>3, <2>1, <2>3, <3>1 DEF EditorIInv
  <2> QED BY <2>2, <2>3 DEF EditorIInv, EditorTypeOK, Kinds
<1>6. OwnText' => Fits(put'.path, put'.got) BY <1>1, <1>5
<1>7. EditorTypeOK' BY <1>1, <1>2, <1>4 DEF EditorIInv, EditorTypeOK
<1> QED BY <1>1, <1>5, <1>6, <1>7 DEF EditorIInv, AnswerOut

LEMMA PutsStep == ASSUME EditorIInv, Puts PROVE EditorIInv'
<1>1. UNCHANGED <<kind, sel, text, prior, read, undone, blind>> BY DEF Puts
<1>2. put \in Put /\ put.path \in EditFiles /\ put.got \in Texts
  BY DEF EditorIInv, EditorTypeOK, Put
<1>3. put' \in Put /\ (Fits(put.path, put.got) => Fits(put'.path, put'.got))
  <2>1. Fits(NoPut.path, NoPut.got) BY DEF NoPut, Fits
  <2> QED BY <1>2, <2>1, EmptySlots DEF Puts, Put
<1>4. store' \in [EditFiles -> Texts]
  BY <1>2 DEF Puts, EditorIInv, EditorTypeOK
<1>5. OwnText => \A f \in EditFiles : Fits(f, store'[f])
  BY <1>2 DEF Puts, EditorIInv, EditorTypeOK
<1> QED BY <1>1, <1>3, <1>4, <1>5 DEF EditorIInv, EditorTypeOK, OwnText, AnswerOut

\* Inductive, for any number of files and of reads on their way.
THEOREM EditorInductive == EditorSpec => []EditorIInv
<1>1. EditorIInv /\ [EditorNext]_evars => EditorIInv'
  <2> SUFFICES ASSUME EditorIInv, [EditorNext]_evars PROVE EditorIInv' OBVIOUS
  <2>1. CASE UNCHANGED evars
    BY <2>1 DEF evars, EditorIInv, EditorTypeOK, OwnText, AnswerOut
  <2>2. CASE EditorNext
    BY <2>2, OpenStep, ReopenStep, UploadsStep, AnswersStep, ShowsStep, FailsStep,
       EditStep, SavesStep, PutsStep DEF EditorNext
  <2> QED BY <2>1, <2>2
<1> QED BY <1>1, EditorBegins, PTL DEF EditorSpec

\* No save puts the text of one file into another, on either page, save by an
\* undo or, on the page of MosDNS, by a save during or after a lost read
\* (config/page.tsx:48-60, mosdns/service-config/page.tsx:143-183).
THEOREM NoTextStrays == EditorSpec => []FilesKeepTheirText
<1>1. EditorIInv => FilesKeepTheirText
  BY DEF EditorIInv, OwnText, Fits, FilesKeepTheirText
<1> QED BY <1>1, EditorInductive, PTL

-----------------------------------------------------------------------------
(***************************************************************************)
(* MihomoEditor.  Text that the server has not is marked: a save takes the *)
(* mark away only from the text it took, or from one that came from the    *)
(* server since.  And the text of a deleted file goes: as long as no read  *)
(* will answer with another text, none has failed and no delete is about   *)
(* to read, the page rests on a file that is there.                        *)
(***************************************************************************)
MarkIInv ==
  /\ MihomoEditorTypeOK
  /\ \A s \in SaveTasks : saves[s].at # "idle" => saves[s].path \in UserConfigs
  /\ ~slipped => (home = Unsaved => dirty)
  /\ ~slipped => \A s \in SaveTasks : saves[s].at \in {"sent", "kept"} /\ saves[s].since => home # Unsaved

TextHere(p) == p \in exists \cup {DefaultConfig}
\* A read that ends the page's hold on a file that is gone: it answers with one
\* that is there, fails, or leads to another read.
FreshText(l) ==
  \/ loads[l].at = "sent"
  \/ loads[l].at = "back" /\ (loads[l].path # path \/ TextHere(loads[l].path))
TextLively == unread \/ acting.at = "deleted" \/ \E l \in TextSlots : FreshText(l)
TextRests ==
  /\ \A l \in TextSlots : loads[l].at = "idle"
  /\ home = Unsaved \/ (home = path /\ TextHere(path))
  /\ \A s \in SaveTasks : saves[s].at = "kept" /\ saves[s].path = path => TextHere(path)

BadgeIInv == MarkIInv /\ (~slipped /\ ~TextLively => TextRests)

LEMMA EmptyTasks ==
  /\ NoTextLoad \in Load /\ NoSaveTask \in SaveTask /\ NoFill \in FillTask /\ NoAct \in ActTask
  /\ NoTextLoad.at = "idle" /\ NoSaveTask.at = "idle"
BY DEF NoTextLoad, Load, NoSaveTask, SaveTask, NoFill, FillTask, NoAct, ActTask, Paths

LEMMA HomesAreFiles == Unsaved \notin Paths /\ DefaultConfig \in Paths /\ UserConfigs \subseteq Paths
BY ConfigsAssumption DEF Paths

LEMMA BadgeBegins == MihomoEditorInit => BadgeIInv
<1> SUFFICES ASSUME MihomoEditorInit PROVE BadgeIInv
  OBVIOUS
<1>1. [NoTextLoad EXCEPT !.at = "sent"] \in Load
  BY EmptyTasks DEF Load
<1>2. loads \in [TextSlots -> Load]
  BY <1>1, EmptyTasks DEF MihomoEditorInit
<1>3. DefaultConfig \in Paths /\ home = DefaultConfig /\ home # Unsaved /\ path = home
  BY HomesAreFiles DEF MihomoEditorInit
<1>4. \A s \in SaveTasks : saves[s] = NoSaveTask
  BY DEF MihomoEditorInit
<1>5. MihomoEditorTypeOK
  BY <1>2, <1>3, <1>4, EmptyTasks DEF MihomoEditorInit, MihomoEditorTypeOK
<1>6. MarkIInv
  BY <1>3, <1>4, <1>5, EmptyTasks DEF MarkIInv
<1>7. TextLively \/ TextRests
  <2>1. TextHere(path)
    BY <1>3 DEF TextHere
  <2>2. \A s \in SaveTasks : saves[s].at = "idle"
    BY <1>4, EmptyTasks
  <2>3. \A l \in TextSlots : loads[l].at \in {"idle", "sent"}
    BY EmptyTasks DEF MihomoEditorInit, NoTextLoad
  <2> QED BY <1>3, <2>1, <2>2, <2>3 DEF TextLively, FreshText, TextRests
<1> QED BY <1>6, <1>7 DEF BadgeIInv

\* A read that begins is of a path, and will end the hold on a file that is gone.
LEMMA LoadTyped ==
  ASSUME MarkIInv, NEW l \in TextSlots, NEW at \in Paths, LoadConfig(l, at)
  PROVE  loads' \in [TextSlots -> Load] /\ loading' \in BOOLEAN /\ TextLively'
<1>1. /\ loads' = [loads EXCEPT ![l] = [at |-> "sent", path |-> at]] /\ loading' = TRUE
      /\ loads \in [TextSlots -> Load]
  BY DEF LoadConfig, Loading, MarkIInv, MihomoEditorTypeOK
<1>2. [at |-> "sent", path |-> at] \in Load
  BY DEF Load
<1>3. loads' \in [TextSlots -> Load] /\ loads'[l].at = "sent"
  BY <1>1, <1>2
<1> QED BY <1>1, <1>3 DEF TextLively, FreshText

LEMMA PathTyped ==
  ASSUME MarkIInv, NEW at \in Paths, SetPath(at)
  PROVE  /\ path' = at /\ loads' \in [TextSlots -> Load] /\ loading' \in BOOLEAN
         /\ TextLively' \/ (at = path /\ loads' = loads)
BY LoadTyped DEF SetPath, MarkIInv, MihomoEditorTypeOK

\* While the path, the reads and the file at that path stay, what is lively stays so.
LEMMA StaysLively ==
  ASSUME path' = path, loads' = loads, unread' = unread,
         acting.at = "deleted" => acting'.at = "deleted",
         TextHere(path) => TextHere(path)'
  PROVE  TextLively => TextLively'
<1>1. ASSUME NEW l \in TextSlots, FreshText(l) PROVE FreshText(l)'
  <2>1. CASE loads[l].at = "sent" BY <2>1 DEF FreshText
  <2>2. CASE loads[l].at = "back" /\ loads[l].path # path BY <2>2 DEF FreshText
  <2>3. CASE loads[l].at = "back" /\ loads[l].path = path /\ TextHere(path)
    <3>1. TextHere(path)' /\ loads'[l].at = "back" /\ loads'[l].path = path' BY <2>3
    <3> QED BY <3>1 DEF FreshText, TextHere
  <2> QED BY <1>1, <2>1, <2>2, <2>3 DEF FreshText
<1> QED BY <1>1 DEF TextLively

\* The text changes while saves are in flight: they keep their state and path.
LEMMA OtherTyped ==
  ASSUME MarkIInv, saves' = OtherText
  PROVE  /\ saves' \in [SaveTasks -> SaveTask]
         /\ \A s \in SaveTasks : /\ saves'[s].at = saves[s].at /\ saves'[s].path = saves[s].path
                                 /\ saves'[s].since = (saves[s].at \in {"sent", "kept"})
         /\ \A s \in SaveTasks : saves'[s].at # "idle" => saves'[s].path \in UserConfigs
<1>1. ASSUME NEW s \in SaveTasks
      PROVE  /\ saves'[s] \in SaveTask /\ saves'[s].at = saves[s].at /\ saves'[s].path = saves[s].path
             /\ saves'[s].since = (saves[s].at \in {"sent", "kept"})
  <2> DEFINE b == saves[s].at \in {"sent", "kept"}
  <2>1. saves'[s] = [saves[s] EXCEPT !.since = b] /\ b \in BOOLEAN
    BY DEF OtherText
  <2>2. saves[s] \in SaveTask
    BY DEF MarkIInv, MihomoEditorTypeOK
  <2>3. /\ saves'[s] \in SaveTask /\ saves'[s].at = saves[s].at /\ saves'[s].path = saves[s].path
        /\ saves'[s].since = b
    <3> HIDE DEF b
    <3> QED BY <2>1, <2>2 DEF SaveTask
  <2> QED BY <2>3
<1>2. saves' \in [SaveTasks -> SaveTask]
  BY <1>1 DEF OtherText
<1> QED BY <1>1, <1>2 DEF MarkIInv

\* A read that answers, or fails.
LEMMA ReadKeeps == ASSUME BadgeIInv, NEW l \in TextSlots, ConfigRead(l) PROVE BadgeIInv'
<1>1. /\ loads \in [TextSlots -> Load] /\ loads[l] \in Load /\ MarkIInv
      /\ UNCHANGED <<path, dirty, home, saving, saves, fill, acting, exists, slipped>>
  BY DEF ConfigRead, BadgeIInv, MarkIInv, MihomoEditorTypeOK
<1>2. [loads[l] EXCEPT !.at = "back"] \in Load /\ [loads[l] EXCEPT !.at = "back"].at = "back"
      /\ [loads[l] EXCEPT !.at = "back"].path = loads[l].path
  BY <1>1 DEF Load
<1>3. CASE /\ loads[l].path \in exists \cup {DefaultConfig}
           /\ loads' = [loads EXCEPT ![l].at = "back"] /\ unread' = FALSE /\ UNCHANGED loading
  <2>1. loads' = [loads EXCEPT ![l] = [loads[l] EXCEPT !.at = "back"]]
    BY <1>1, <1>3
  <2>2. loads' \in [TextSlots -> Load] /\ loads'[l].at = "back" /\ loads'[l].path = loads[l].path
    BY <1>1, <1>2, <2>1
  <2>3. TextLively'
    BY <1>1, <1>3, <2>2 DEF TextLively, FreshText, TextHere
  <2>4. MarkIInv'
    BY <1>1, <1>3, <2>2 DEF MarkIInv, MihomoEditorTypeOK
  <2> QED BY <2>3, <2>4 DEF BadgeIInv
<1>4. CASE loads' = [loads EXCEPT ![l] = NoTextLoad] /\ unread' = TRUE /\ loading' = FALSE
  <2>1. loads' \in [TextSlots -> Load] /\ TextLively'
    BY <1>1, <1>4, EmptyTasks DEF TextLively
  <2>2. MarkIInv'
    BY <1>1, <1>4, <2>1 DEF MarkIInv, MihomoEditorTypeOK
  <2> QED BY <2>1, <2>2 DEF BadgeIInv
<1> QED BY <1>3, <1>4 DEF ConfigRead

\* What is shown is a text of the server; unless its file is gone the page rests,
\* or another read goes on.
LEMMA ShownKeeps == ASSUME BadgeIInv, NEW l \in TextSlots, ConfigShown(l) PROVE BadgeIInv'
<1>1. /\ loads \in [TextSlots -> Load] /\ loads[l] \in Load /\ loads[l].path \in Paths /\ MarkIInv
      /\ loads[l].at = "back" /\ path' = loads[l].path /\ home' = loads[l].path /\ dirty' = FALSE
      /\ saves' = OtherText /\ UNCHANGED <<saving, fill, acting, exists, unread, slipped>>
  BY DEF ConfigShown, BadgeIInv, MarkIInv, MihomoEditorTypeOK, Load
<1>2. home' # Unsaved /\ home' \in Paths
  BY <1>1, HomesAreFiles
<1>3. [at |-> "sent", path |-> loads[l].path] \in Load
  BY <1>1 DEF Load
<1>4. loads' \in { [loads EXCEPT ![l] = c] : c \in {[at |-> "sent", path |-> loads[l].path], NoTextLoad} }
  BY <1>1 DEF ConfigShown, Loading
<1>5. loads' \in [TextSlots -> Load] /\ loading' \in BOOLEAN
  BY <1>1, <1>3, <1>4, EmptyTasks DEF ConfigShown
<1>6. MihomoEditorTypeOK'
  BY <1>1, <1>2, <1>5, OtherTyped DEF MarkIInv, MihomoEditorTypeOK
<1>7. MarkIInv'
  BY <1>1, <1>2, <1>6, OtherTyped DEF MarkIInv
<1>8. ~slipped' /\ ~TextLively' => TextRests'
  <2>1. CASE loads[l].path # path
    <3>1. loads' = [loads EXCEPT ![l] = [at |-> "sent", path |-> loads[l].path]]
      BY <2>1 DEF ConfigShown, Loading
    <3>2. loads'[l].at = "sent" BY <1>1, <3>1
    <3> QED BY <3>2 DEF TextLively, FreshText
  <2>2. CASE loads[l].path = path /\ TextHere(path)
    <3>1. loads' = [loads EXCEPT ![l] = NoTextLoad] BY <2>2 DEF ConfigShown
    <3>2. TextHere(path)' /\ path' = path BY <1>1, <2>2 DEF TextHere
    <3> SUFFICES ASSUME ~TextLively' PROVE TextRests' OBVIOUS
    <3>3. ASSUME NEW k \in TextSlots PROVE loads'[k].at = "idle"
      <4>1. ~FreshText(k)' BY DEF TextLively
      <4>2. loads'[k] \in Load BY <1>5
      <4>3. loads'[k].at = "back" => FreshText(k)'
        <5>1. CASE loads'[k].path # path' BY <5>1 DEF FreshText
        <5>2. CASE loads'[k].path = path' BY <3>2, <5>2 DEF FreshText, TextHere
        <5> QED BY <5>1, <5>2
      <4> QED BY <4>1, <4>2, <4>3 DEF FreshText, Load
    <3> QED BY <1>1, <2>2, <3>2, <3>3 DEF TextRests
  <2>3. CASE loads[l].path = path /\ ~TextHere(path)
    <3>1. loads' = [loads EXCEPT ![l] = NoTextLoad] /\ path' = path BY <1>1, <2>3 DEF ConfigShown
    <3>2. ~FreshText(l) BY <1>1, <2>3 DEF FreshText
    <3>3. ASSUME NEW k \in TextSlots, FreshText(k) PROVE FreshText(k)'
      <4>1. k # l BY <3>2, <3>3
      <4>2. loads'[k] = loads[k] BY <1>1, <3>1, <4>1
      <4> QED BY <1>1, <3>1, <3>3, <4>2 DEF FreshText, TextHere
    <3>4. TextLively => TextLively' BY <1>1, <3>3 DEF TextLively
    <3>5. ~TextRests BY <1>1 DEF TextRests
    <3> QED BY <1>1, <3>4, <3>5 DEF BadgeIInv
  <2> QED BY <2>1, <2>2, <2>3
<1> QED BY <1>7, <1>8 DEF BadgeIInv

\* Another file, the same one again, and what a task reads at its end.
LEMMA OpensKeep ==
  ASSUME BadgeIInv, NEW l \in TextSlots,
         RefreshConfig(l) \/ ActReads(l) \/ \E p \in Paths : SwitchFile(l, p)
  PROVE  BadgeIInv'
<1>1. PICK at \in Paths : LoadConfig(l, at)
  <2>1. path \in Paths /\ acting.path \in Paths /\ DefaultConfig \in Paths
    BY HomesAreFiles DEF BadgeIInv, MarkIInv, MihomoEditorTypeOK, ActTask
  <2> QED BY <2>1 DEF RefreshConfig, ActReads, SwitchFile
<1>2. loads' \in [TextSlots -> Load] /\ loading' \in BOOLEAN /\ TextLively'
  BY <1>1, LoadTyped DEF BadgeIInv
<1>3. UNCHANGED <<path, dirty, home, saving, saves, fill, exists, unread, slipped>>
  BY DEF RefreshConfig, ActReads, SwitchFile
<1>4. acting' \in ActTask
  <2>1. [acting EXCEPT !.at = "lists"] \in ActTask
    BY DEF BadgeIInv, MarkIInv, MihomoEditorTypeOK, ActTask
  <2> QED BY <2>1 DEF RefreshConfig, ActReads, SwitchFile, ActGoes, BadgeIInv, MarkIInv, MihomoEditorTypeOK
<1>5. MarkIInv'
  BY <1>2, <1>3, <1>4 DEF BadgeIInv, MarkIInv, MihomoEditorTypeOK
<1> QED BY <1>2, <1>5 DEF BadgeIInv

\* A text of the user's own, with the mark.
LEMMA OwnTextKeeps ==
  ASSUME BadgeIInv, dirty' = TRUE, home' = Unsaved, TextMoves, path' \in Paths,
         loads' \in [TextSlots -> Load], loading' \in BOOLEAN, saving' \in BOOLEAN, fill' \in FillTask,
         UNCHANGED <<acting, exists, unread>>,
         TextLively' \/ (path' = path /\ loads' = loads)
  PROVE  BadgeIInv'
<1>1. MarkIInv /\ saves' = OtherText /\ slipped' \in BOOLEAN /\ (slipped => slipped')
      /\ (~slipped' => \A s \in SaveTasks : ~(saves[s].at \in {"sent", "kept"}))
  BY DEF TextMoves, BadgeIInv, MarkIInv, MihomoEditorTypeOK
<1>2. MihomoEditorTypeOK'
  BY <1>1, OtherTyped DEF MarkIInv, MihomoEditorTypeOK
<1>3. MarkIInv'
  BY <1>1, <1>2, OtherTyped DEF MarkIInv
<1>4. CASE path' = path /\ loads' = loads
  <2>1. TextHere(path) => TextHere(path)'
    BY <1>4 DEF TextHere
  <2>2. TextLively => TextLively'
    BY <1>4, <2>1, StaysLively
  <2>3. TextRests => TextRests'
    BY <1>1, <1>4, <2>1, OtherTyped DEF TextRests
  <2> QED BY <1>1, <1>3, <2>2, <2>3 DEF BadgeIInv
<1> QED BY <1>3, <1>4 DEF BadgeIInv

LEMMA TypesKeeps == ASSUME BadgeIInv, TypesConfig PROVE BadgeIInv'
<1>1. path \in Paths /\ loads \in [TextSlots -> Load] /\ loading \in BOOLEAN /\ saving \in BOOLEAN /\ fill \in FillTask
  BY DEF BadgeIInv, MarkIInv, MihomoEditorTypeOK
<1> QED BY <1>1, OwnTextKeeps DEF TypesConfig

LEMMA FillKeeps == ASSUME BadgeIInv, FillEnds PROVE BadgeIInv'
<1>1. /\ fill.path \in Paths /\ fill' \in FillTask /\ saving' \in BOOLEAN /\ MarkIInv
      /\ UNCHANGED <<acting, exists, unread>>
  BY EmptyTasks DEF FillEnds, BadgeIInv, MarkIInv, MihomoEditorTypeOK, FillTask
<1>2. CASE home' = Unsaved /\ Filled /\ SetPath(fill.path) /\ TextMoves
  <2>1. /\ path' = fill.path /\ loads' \in [TextSlots -> Load] /\ loading' \in BOOLEAN
        /\ TextLively' \/ (fill.path = path /\ loads' = loads)
    BY <1>1, <1>2, PathTyped
  <2>2. dirty' = TRUE BY <1>2 DEF Filled
  <2> QED BY <1>1, <1>2, <2>1, <2>2, OwnTextKeeps
<1>3. CASE UNCHANGED <<home, dirty, path, loads, loading, saves, slipped>>
  <2>1. MarkIInv'
    BY <1>1, <1>3 DEF MarkIInv, MihomoEditorTypeOK
  <2>2. TextHere(path) => TextHere(path)'
    BY <1>1, <1>3 DEF TextHere
  <2>3. TextLively => TextLively'
    BY <1>1, <1>3, <2>2, StaysLively
  <2>4. TextRests => TextRests'
    BY <1>3, <2>2 DEF TextRests
  <2> QED BY <1>3, <2>1, <2>3, <2>4 DEF BadgeIInv
<1> QED BY <1>2, <1>3 DEF FillEnds

\* A save that begins, or moves on with the text it took.
LEMMA TaskMoves ==
  ASSUME MarkIInv, NEW s \in SaveTasks, NEW c \in SaveTask, saves' = [saves EXCEPT ![s] = c],
         c.at = "idle" \/ c.path \in UserConfigs,
         c.at \in {"sent", "kept"} => c.since = FALSE \/ (c.since = saves[s].since /\ saves[s].at = "sent"),
         home' = home, slipped' = slipped, dirty' = dirty
  PROVE  /\ saves' \in [SaveTasks -> SaveTask] /\ saves'[s] = c
         /\ \A x \in SaveTasks \ {s} : saves'[x] = saves[x]
         /\ \A x \in SaveTasks : saves'[x].at # "idle" => saves'[x].path \in UserConfigs
         /\ ~slipped' => (home' = Unsaved => dirty')
         /\ ~slipped' => \A x \in SaveTasks : saves'[x].at \in {"sent", "kept"} /\ saves'[x].since => home' # Unsaved
<1>1. saves' \in [SaveTasks -> SaveTask] /\ saves'[s] = c /\ \A x \in SaveTasks \ {s} : saves'[x] = saves[x]
  BY DEF MarkIInv, MihomoEditorTypeOK
<1>2. \A x \in SaveTasks : saves'[x].at # "idle" => saves'[x].path \in UserConfigs
  BY <1>1 DEF MarkIInv
<1>3. ~slipped' => (home' = Unsaved => dirty')
  BY DEF MarkIInv
<1>4. ASSUME ~slipped', NEW x \in SaveTasks, saves'[x].at \in {"sent", "kept"}, saves'[x].since
      PROVE  home' # Unsaved
  <2>1. CASE x = s BY <1>1, <1>4, <2>1 DEF MarkIInv
  <2>2. CASE x # s BY <1>1, <1>4, <2>2 DEF MarkIInv
  <2> QED BY <2>1, <2>2
<1> QED BY <1>1, <1>2, <1>3, <1>4

LEMMA GoesOn ==
  ASSUME MarkIInv, NEW s \in SaveTasks, saves[s].at # "idle", NEW at \in {"kept", "listed"}
  PROVE  /\ [saves[s] EXCEPT !.at = at] \in SaveTask
         /\ [saves[s] EXCEPT !.at = at].at = at
         /\ [saves[s] EXCEPT !.at = at].path = saves[s].path /\ saves[s].path \in UserConfigs
         /\ [saves[s] EXCEPT !.at = at].since = saves[s].since
         /\ [saves EXCEPT ![s].at = at] = [saves EXCEPT ![s] = [saves[s] EXCEPT !.at = at]]
<1>1. saves[s] \in SaveTask /\ saves[s].path \in UserConfigs
  BY DEF MarkIInv, MihomoEditorTypeOK
<1> QED BY <1>1 DEF SaveTask

LEMMA StoringKeeps ==
  ASSUME BadgeIInv, NEW s \in SaveTasks,
         ConfigStored(s) \/ SaveEnded(s) \/ \E p \in Paths : SaveConfig(s, p)
  PROVE  BadgeIInv'
<1>1. /\ UNCHANGED <<path, dirty, home, loading, loads, fill, acting, unread, slipped>>
      /\ saving' \in BOOLEAN /\ MarkIInv
  BY DEF ConfigStored, SaveEnded, SaveConfig, SaveOver, BadgeIInv, MarkIInv, MihomoEditorTypeOK
<1>2. exists' \subseteq UserConfigs /\ exists \subseteq exists'
  BY DEF ConfigStored, SaveEnded, SaveConfig, BadgeIInv, MarkIInv, MihomoEditorTypeOK
<1>3. PICK c \in SaveTask :
        /\ saves' = [saves EXCEPT ![s] = c] /\ (c.at = "idle" \/ c.path \in UserConfigs)
        /\ c.at \in {"sent", "kept"} => c.since = FALSE \/ (c.since = saves[s].since /\ saves[s].at = "sent")
        /\ c.at = "kept" => c.path \in exists'
  <2>1. CASE saves' = [saves EXCEPT ![s] = NoSaveTask]
    BY <2>1, EmptyTasks
  <2>2. CASE ConfigStored(s) /\ saves' = [saves EXCEPT ![s].at = "kept"]
    <3>1. saves[s].at = "sent" BY <2>2 DEF ConfigStored
    <3>2. CASE exists' = exists \cup {saves[s].path}
      <4> DEFINE c == [saves[s] EXCEPT !.at = "kept"]
      <4>1. /\ c \in SaveTask /\ c.at = "kept" /\ c.path = saves[s].path /\ saves[s].path \in UserConfigs
            /\ c.since = saves[s].since /\ saves' = [saves EXCEPT ![s] = c]
        BY <1>1, <2>2, <3>1, GoesOn
      <4> HIDE DEF c
      <4> QED BY <3>1, <3>2, <4>1
    <3>3. CASE saves' = [saves EXCEPT ![s] = NoSaveTask]
      BY <3>3, EmptyTasks
    <3> QED BY <2>2, <3>2, <3>3 DEF ConfigStored, SaveOver
  <2>3. CASE \E p \in Paths : SaveConfig(s, p)
    <3>1. PICK p \in UserConfigs : saves' = [saves EXCEPT ![s] = [at |-> "sent", path |-> p, since |-> FALSE]]
      BY <2>3 DEF SaveConfig
    <3> DEFINE c == [at |-> "sent", path |-> p, since |-> FALSE]
    <3>2. c \in SaveTask /\ c.path \in UserConfigs /\ c.since = FALSE /\ c.at = "sent"
      BY DEF SaveTask, Paths
    <3> HIDE DEF c
    <3>3. saves' = [saves EXCEPT ![s] = c] BY <3>1 DEF c
    <3> QED BY <3>2, <3>3
  <2> QED BY <2>1, <2>2, <2>3 DEF ConfigStored, SaveEnded, SaveOver
<1>4. /\ saves' \in [SaveTasks -> SaveTask] /\ saves'[s] = c
      /\ \A x \in SaveTasks \ {s} : saves'[x] = saves[x]
      /\ \A x \in SaveTasks : saves'[x].at # "idle" => saves'[x].path \in UserConfigs
      /\ ~slipped' => (home' = Unsaved => dirty')
      /\ ~slipped' => \A x \in SaveTasks : saves'[x].at \in {"sent", "kept"} /\ saves'[x].since => home' # Unsaved
  BY <1>1, <1>3, TaskMoves
<1>5. MarkIInv'
  BY <1>1, <1>2, <1>4 DEF MarkIInv, MihomoEditorTypeOK
<1>6. TextHere(path) => TextHere(path)'
  BY <1>1, <1>2 DEF TextHere
<1>7. TextLively => TextLively'
  BY <1>1, <1>6, StaysLively
<1>8. TextRests => TextRests'
  <2> SUFFICES ASSUME TextRests PROVE TextRests' OBVIOUS
  <2>1. ASSUME NEW x \in SaveTasks, saves'[x].at = "kept", saves'[x].path = path' PROVE TextHere(path)'
    <3>1. CASE x = s BY <1>3, <1>4, <2>1, <3>1 DEF TextHere
    <3>2. CASE x # s
      <4>1. saves'[x] = saves[x] BY <1>4, <3>2
      <4>2. TextHere(path) BY <1>1, <2>1, <4>1 DEF TextRests
      <4> QED BY <1>6, <4>2
    <3> QED BY <3>1, <3>2
  <2> QED BY <1>1, <1>6, <2>1 DEF TextRests
<1> QED BY <1>1, <1>5, <1>7, <1>8 DEF BadgeIInv

\* The answer to a save takes the mark away; the text is in the file it names,
\* or is one that was shown since.
LEMMA SavedKeeps == ASSUME BadgeIInv, NEW s \in SaveTasks, ConfigSaved(s) PROVE BadgeIInv'
<1>1. /\ saves[s].at = "kept" /\ SetPath(saves[s].path)
      /\ UNCHANGED <<saving, fill, acting, exists, unread, slipped>>
      /\ dirty' = FALSE /\ home' = IF saves[s].since THEN home ELSE saves[s].path
      /\ saves' = [saves EXCEPT ![s].at = "listed"] /\ MarkIInv
  BY DEF ConfigSaved, BadgeIInv
<1> DEFINE c == [saves[s] EXCEPT !.at = "listed"]
<1>2. /\ c \in SaveTask /\ c.at = "listed" /\ c.path = saves[s].path /\ saves[s].path \in UserConfigs
      /\ saves' = [saves EXCEPT ![s] = c]
  BY <1>1, GoesOn
<1> HIDE DEF c
<1>3. /\ saves' \in [SaveTasks -> SaveTask] /\ saves'[s] = c
      /\ \A x \in SaveTasks \ {s} : saves'[x] = saves[x]
  BY <1>1, <1>2 DEF MarkIInv, MihomoEditorTypeOK
<1>4. \A x \in SaveTasks : saves'[x].at # "idle" => saves'[x].path \in UserConfigs
  BY <1>1, <1>2, <1>3 DEF MarkIInv
<1>5. /\ path' = saves[s].path /\ path' \in Paths /\ loads' \in [TextSlots -> Load] /\ loading' \in BOOLEAN
      /\ TextLively' \/ (path' = path /\ loads' = loads)
  <2>1. saves[s].path \in Paths
    BY <1>2, HomesAreFiles
  <2> QED BY <1>1, <2>1, PathTyped
<1>6. ~slipped => home' # Unsaved
  <2>1. CASE saves[s].since BY <1>1, <2>1 DEF MarkIInv
  <2>2. CASE ~saves[s].since BY <1>1, <1>5, <2>2, HomesAreFiles
  <2> QED BY <2>1, <2>2
<1>7. home' \in Paths \cup {Unsaved}
  BY <1>1, <1>5 DEF MarkIInv, MihomoEditorTypeOK
<1>8. MarkIInv'
  <2>1. MihomoEditorTypeOK'
    BY <1>1, <1>3, <1>5, <1>7 DEF MarkIInv, MihomoEditorTypeOK
  <2> QED BY <1>1, <1>4, <1>6, <2>1 DEF MarkIInv
<1>9. CASE path' = path /\ loads' = loads
  <2>1. TextHere(path) => TextHere(path)'
    BY <1>1, <1>9 DEF TextHere
  <2>2. TextLively => TextLively'
    BY <1>1, <1>9, <2>1, StaysLively
  <2>3. ASSUME TextRests PROVE TextRests'
    <3>1. TextHere(path)'
      BY <1>1, <1>5, <1>9, <2>1, <2>3 DEF TextRests
    <3>2. home' = Unsaved \/ home' = path'
      BY <1>1, <1>5, <1>9, <2>3 DEF TextRests
    <3> QED BY <1>9, <2>3, <3>1, <3>2 DEF TextRests
  <2> QED BY <1>1, <1>8, <2>2, <2>3 DEF BadgeIInv
<1> QED BY <1>5, <1>8, <1>9 DEF BadgeIInv

\* Tasks that begin, and the answers they get. A delete of the open file is
\* about to read another, unless it was asked for before that file was open.
LEMMA ActingKeeps ==
  ASSUME BadgeIInv,
         \/ ActAnswered
         \/ \E p \in Paths : \/ \E what \in {"upload", "template"} : FillStarts(what, p)
                            \/ \E what \in {"run", "delete", "restore"} : ActStarts(what, p)
  PROVE  BadgeIInv'
<1>1. /\ UNCHANGED <<path, dirty, home, loading, loads, saves, unread>> /\ (slipped => slipped')
      /\ acting \in ActTask /\ acting.path \in Paths /\ acting.open \in BOOLEAN /\ MarkIInv
      /\ saving' \in BOOLEAN /\ exists' \subseteq UserConfigs /\ slipped' \in BOOLEAN
  BY DEF ActAnswered, FillStarts, ActStarts, BadgeIInv, MarkIInv, MihomoEditorTypeOK, ActTask
<1>2. \A at \in {"lists", "deleted", "restored"} :
        [acting EXCEPT !.at = at] \in ActTask /\ [acting EXCEPT !.at = at].at = at
  BY <1>1 DEF ActTask
<1>3. acting' \in ActTask /\ fill' \in FillTask
  <2>1. CASE ActAnswered
    BY <1>1, <1>2, <2>1, EmptyTasks DEF ActAnswered, ActGoes, MarkIInv, MihomoEditorTypeOK
  <2>2. CASE \E p \in Paths, what \in {"upload", "template"} : FillStarts(what, p)
    BY <1>1, <2>2 DEF FillStarts, FillTask, MarkIInv, MihomoEditorTypeOK
  <2>3. CASE \E p \in Paths, what \in {"run", "delete", "restore"} : ActStarts(what, p)
    <3>1. PICK p \in Paths, what \in {"run", "delete", "restore"} : ActStarts(what, p)
      BY <2>3
    <3>2. PICK b \in BOOLEAN : acting' = [at |-> what, path |-> p, open |-> b]
      BY <3>1 DEF ActStarts
    <3> QED BY <1>1, <3>1, <3>2 DEF ActStarts, ActTask, MarkIInv, MihomoEditorTypeOK
  <2> QED BY <2>1, <2>2, <2>3
<1>4. MarkIInv'
  BY <1>1, <1>3 DEF MarkIInv, MihomoEditorTypeOK
<1>5. acting.at = "deleted" => acting'.at = "deleted"
  <2>1. CASE ActAnswered
    BY <2>1 DEF ActAnswered
  <2>2. CASE \E p \in Paths, what \in {"upload", "template"} : FillStarts(what, p)
    BY <2>2 DEF FillStarts
  <2>3. CASE \E p \in Paths, what \in {"run", "delete", "restore"} : ActStarts(what, p)
    BY <2>3 DEF ActStarts
  <2> QED BY <2>1, <2>2, <2>3
<1>6. slipped' \/ TextLively' \/ (TextHere(path) => TextHere(path)')
  <2>1. CASE ActAnswered /\ acting.at = "delete" /\ exists' = exists \ {acting.path}
             /\ slipped' = (slipped \/ (path = acting.path /\ ~acting.open))
             /\ ActGoes(IF acting.open THEN "deleted" ELSE "lists")
    <3>1. CASE acting.open
      <4>1. acting'.at = "deleted" BY <1>2, <2>1, <3>1 DEF ActGoes
      <4> QED BY <4>1 DEF TextLively
    <3>2. CASE ~acting.open /\ path = acting.path BY <2>1, <3>2
    <3>3. CASE path # acting.path BY <1>1, <2>1, <3>3 DEF TextHere
    <3> QED BY <1>1, <3>1, <3>2, <3>3
  <2>2. CASE exists' = exists BY <1>1, <2>2 DEF TextHere
  <2>3. CASE ActAnswered
    BY <2>1, <2>2, <2>3 DEF ActAnswered
  <2>4. CASE ~ActAnswered
    <3>1. exists' = exists BY <2>4 DEF FillStarts, ActStarts
    <3> QED BY <2>2, <3>1
  <2> QED BY <2>3, <2>4
<1>7. CASE TextHere(path) => TextHere(path)'
  <2>1. TextLively => TextLively' BY <1>1, <1>5, <1>7, StaysLively
  <2>2. TextRests => TextRests' BY <1>1, <1>7 DEF TextRests
  <2> QED BY <1>1, <1>4, <2>1, <2>2 DEF BadgeIInv
<1> QED BY <1>4, <1>6, <1>7 DEF BadgeIInv

\* The inductive invariant of the editor of the Mihomo configurations.
THEOREM BadgeInductive == MihomoEditorSpec => []BadgeIInv
<1>1. BadgeIInv /\ [MihomoEditorNext]_medvars => BadgeIInv'
  <2> SUFFICES ASSUME BadgeIInv, [MihomoEditorNext]_medvars PROVE BadgeIInv'
    OBVIOUS
  <2>1. CASE UNCHANGED medvars
    BY <2>1 DEF medvars, BadgeIInv, MarkIInv, MihomoEditorTypeOK, TextLively, FreshText, TextRests, TextHere
  <2>2. CASE MihomoEditorNext
    BY <2>2, ReadKeeps, ShownKeeps, OpensKeep, TypesKeeps, FillKeeps, StoringKeeps, SavedKeeps, ActingKeeps
       DEF MihomoEditorNext
  <2> QED BY <2>1, <2>2
<1> QED BY <1>1, BadgeBegins, PTL DEF MihomoEditorSpec

\* Without the badge the editor has nothing the server has not: what the user put
\* there is marked, and the text of a deleted file is about to be replaced, or a
\* read failed (page.tsx:185-199, 237-266, 317-351, 403-420).
THEOREM BadgeTellsTheTruth == MihomoEditorSpec => []BadgeIsTrue
<1>1. BadgeIInv => BadgeIsTrue
  <2> SUFFICES ASSUME BadgeIInv, ~slipped PROVE BadgeIsTrue BY DEF BadgeIsTrue
  <2>1. home = Unsaved => dirty BY DEF BadgeIInv, MarkIInv
  <2>2. ASSUME home \in UserConfigs \ exists PROVE TextReading \/ unread \/ acting.at = "deleted"
    <3>1. ~TextRests BY <2>2, ConfigsAssumption DEF TextRests, TextHere
    <3>2. TextLively BY <3>1 DEF BadgeIInv
    <3> QED BY <3>2 DEF TextLively, FreshText, TextReading
  <2> QED BY <2>1, <2>2 DEF BadgeIsTrue
<1> QED BY <1>1, BadgeInductive, PTL

-----------------------------------------------------------------------------
(***************************************************************************)
(* UsersConsole.  A record that replaces a whole row is as good as the row *)
(* it was built from: until hasty, a lock on its way carries the role that *)
(* the user has, an edit the state, and no two writes to one user meet.    *)
(***************************************************************************)
Writing(c) == calls[c].at = "sent" /\ calls[c].what \in {"create", "edit", "toggle"}
Faithful(c) ==
  LET has == people[calls[c].who] IN
  has # Gone => /\ calls[c].what = "toggle" => calls[c].rec.role = has.role
                /\ calls[c].what = "edit" => calls[c].rec.on = has.on

PeopleIInv ==
  /\ UsersTypeOK
  /\ ~hasty =>
       /\ people = wanted
       /\ \A c \in Calls : Writing(c) => Faithful(c)
       /\ \A c, d \in Calls : Writing(c) /\ Writing(d) /\ calls[c].who = calls[d].who => c = d

\* The values of an empty slot are of its type.
LEMMA EmptyCalls ==
  /\ SomePerson \in Person /\ SomeOne \in People /\ NoRows \in [People -> Rows]
  /\ NoCall \in Call /\ NoCall.at = "idle" /\ NoDialog \in [kind : DialogKinds, who : People, row : Person]
  /\ NoList \in ListRead
<1>1. SomeOne \in People /\ (CHOOSE r \in PeopleRoles : TRUE) \in PeopleRoles
  BY PeopleAssumption DEF SomeOne
<1>2. SomePerson \in Person
  BY <1>1 DEF SomePerson, Person
<1>3. NoRows \in [People -> Rows]
  BY DEF NoRows, Rows
<1> QED BY <1>1, <1>2, <1>3 DEF NoCall, Call, NoDialog, DialogKinds, NoList, ListRead, Filters

LEMMA RowIsPerson == \A r \in Rows : (r # Gone) => r \in Person
BY DEF Rows

LEMMA PeopleBegin == UsersInit => PeopleIInv
<1> SUFFICES ASSUME UsersInit PROVE PeopleIInv
  OBVIOUS
<1>1. [NoList EXCEPT !.at = "sent"] \in ListRead
  BY EmptyCalls DEF ListRead
<1>2. lists \in [ListSlots -> ListRead]
  BY <1>1, EmptyCalls DEF UsersInit
<1>3. UsersTypeOK
  BY <1>2, EmptyCalls DEF UsersInit, UsersTypeOK, Filters
<1>4. \A c \in Calls : ~Writing(c)
  BY EmptyCalls DEF UsersInit, Writing
<1> QED BY <1>3, <1>4 DEF UsersInit, PeopleIInv

\* A read of the list that begins.
LEMMA ListTyped ==
  ASSUME UsersTypeOK, NEW l \in ListSlots, NEW under \in Filters, ReadsList(l, under)
  PROVE  lists' \in [ListSlots -> ListRead]
<1>1. [NoList EXCEPT !.at = "sent", !.under = under] \in ListRead
  BY EmptyCalls DEF ListRead
<1> QED BY <1>1 DEF ReadsList, UsersTypeOK

\* Reading the list and opening a dialog leave the writes and the table alone.
LEMMA LooksKeep ==
  ASSUME PeopleIInv, UsersTypeOK', UNCHANGED <<people, calls, wanted, hasty>>
  PROVE  PeopleIInv'
BY DEF PeopleIInv, Writing, Faithful

LEMMA ListKeeps ==
  ASSUME PeopleIInv, NEW l \in ListSlots,
         ListAnswers(l) \/ ListShown(l) \/ ListFails(l) \/ \E f \in Filters : SetFilter(l, f)
  PROVE  PeopleIInv'
<1>1. UNCHANGED <<people, udialog, calls, wanted, hasty>>
  BY DEF ListAnswers, ListShown, ListFails, SetFilter
<1>2. UsersTypeOK /\ lists[l] \in ListRead
  BY DEF PeopleIInv, UsersTypeOK
<1>3. rows' \in [People -> Rows]
  BY <1>2 DEF ListAnswers, ListShown, ListFails, SetFilter, UsersTypeOK, ListRead
<1>4. filter' \in Filters
  BY <1>2 DEF ListAnswers, ListShown, ListFails, SetFilter, UsersTypeOK
<1>5. lists' \in [ListSlots -> ListRead]
  <2>1. CASE ListAnswers(l)
    <3> DEFINE got == ListOf(people, lists[l].under)
    <3>1. got \in [People -> Rows]
      BY <1>2 DEF ListOf, UsersTypeOK, Rows
    <3>2. lists' = [lists EXCEPT ![l].at = "back", ![l].got = got]
      BY <2>1 DEF ListAnswers
    <3> HIDE DEF got
    <3>3. lists' = [lists EXCEPT ![l] = [lists[l] EXCEPT !.at = "back", !.got = got]]
      BY <3>2, <1>2 DEF UsersTypeOK
    <3>4. [lists[l] EXCEPT !.at = "back", !.got = got] \in ListRead
      BY <3>1, <1>2 DEF ListRead
    <3> QED BY <3>3, <3>4, <1>2 DEF UsersTypeOK
  <2>2. CASE ListShown(l) \/ ListFails(l)
    BY <2>2, <1>2, EmptyCalls DEF ListShown, ListFails, UsersTypeOK
  <2>3. CASE \E f \in Filters : SetFilter(l, f)
    BY <2>3, <1>2, ListTyped DEF SetFilter
  <2> QED BY <2>1, <2>2, <2>3
<1>6. UsersTypeOK'
  BY <1>1, <1>2, <1>3, <1>4, <1>5 DEF UsersTypeOK
<1> QED BY <1>1, <1>6, LooksKeep

LEMMA DialogKeeps ==
  ASSUME PeopleIInv, LeaveDialog \/ \E p \in People, k \in DialogKinds : AskDialog(k, p)
  PROVE  PeopleIInv'
<1>1. UNCHANGED <<people, rows, filter, lists, calls, wanted, hasty>>
  BY DEF LeaveDialog, AskDialog
<1>2. udialog' \in [kind : DialogKinds, who : People, row : Person]
  <2>1. CASE LeaveDialog
    BY <2>1, EmptyCalls DEF LeaveDialog
  <2>2. CASE \E p \in People, k \in DialogKinds : AskDialog(k, p)
    <3>1. PICK p \in People, k \in DialogKinds : AskDialog(k, p)
      BY <2>2
    <3>2. CASE udialog' = [NoDialog EXCEPT !.kind = k]
      BY <3>2, EmptyCalls DEF NoDialog
    <3>3. CASE Visible(p) /\ udialog' = [kind |-> k, who |-> p, row |-> IF k = "edit" THEN rows[p] ELSE SomePerson]
      <4>1. rows[p] \in Person
        BY <3>3, RowIsPerson DEF Visible, Passes, PeopleIInv, UsersTypeOK
      <4> QED BY <3>3, <4>1, EmptyCalls
    <3> QED BY <3>1, <3>2, <3>3 DEF AskDialog
  <2> QED BY <2>1, <2>2
<1>3. UsersTypeOK'
  BY <1>1, <1>2 DEF PeopleIInv, UsersTypeOK
<1> QED BY <1>1, <1>3, LooksKeep

\* What is sent is faithful, or the row was not current.
LEMMA SentKeeps ==
  ASSUME PeopleIInv, NEW c \in Calls, NEW what \in {"create", "edit", "toggle", "delete", "reset"},
         NEW p \in People, NEW rec \in Person, SendsCall(c, what, p, rec),
         UNCHANGED <<people, rows, filter, lists, udialog, wanted>>,
         hasty' \in BOOLEAN, hasty => hasty',
         ~hasty' /\ what \in {"create", "edit", "toggle"} =>
           /\ \A x \in Calls : Writing(x) => calls[x].who # p
           /\ people[p] # Gone => /\ what = "toggle" => rec.role = people[p].role
                                  /\ what = "edit" => rec.on = people[p].on
  PROVE  PeopleIInv'
<1> DEFINE new == [at |-> "sent", what |-> what, who |-> p, rec |-> rec]
<1>1. new \in Call /\ new.what = what /\ new.who = p /\ new.rec = rec
  BY DEF Call, DialogKinds
<1>2. calls' = [calls EXCEPT ![c] = new] /\ calls \in [Calls -> Call]
  BY DEF SendsCall, PeopleIInv, UsersTypeOK
<1> HIDE DEF new
<1>3. calls' \in [Calls -> Call] /\ calls'[c] = new /\ \A x \in Calls \ {c} : calls'[x] = calls[x]
  BY <1>1, <1>2
<1>4. UsersTypeOK'
  BY <1>3 DEF PeopleIInv, UsersTypeOK
<1>5. ASSUME ~hasty', NEW x \in Calls, Writing(x)'
      PROVE  Faithful(x)' /\ \A y \in Calls : Writing(y)' /\ calls'[x].who = calls'[y].who => x = y
  BY <1>1, <1>3, <1>5 DEF PeopleIInv, Writing, Faithful
<1> QED BY <1>4, <1>5 DEF PeopleIInv

LEMMA ToggleKeeps ==
  ASSUME PeopleIInv, NEW c \in Calls, NEW p \in People, ToggleActive(c, p)
  PROVE  PeopleIInv'
<1> DEFINE b == ~rows[p].on
           rec == [rows[p] EXCEPT !.on = b]
<1>1. rows[p] \in Person
  BY RowIsPerson DEF ToggleActive, Visible, Passes, PeopleIInv, UsersTypeOK
<1>2. b \in BOOLEAN
  OBVIOUS
<1>3. SendsCall(c, "toggle", p, rec) /\ UNCHANGED <<people, rows, filter, lists, udialog, wanted>>
  BY DEF ToggleActive
<1> HIDE DEF b
<1>4. rec \in Person /\ rec.role = rows[p].role
  BY <1>1, <1>2 DEF Person
<1> HIDE DEF rec
<1>5. hasty' = (hasty \/ ~Current(p))
  BY DEF ToggleActive
<1>6. hasty' \in BOOLEAN /\ (hasty => hasty')
  BY <1>5 DEF PeopleIInv, UsersTypeOK
<1>7. ASSUME ~hasty' PROVE rec.role = people[p].role /\ \A x \in Calls : Writing(x) => calls[x].who # p
  BY <1>4, <1>5, <1>7 DEF Current, Writing
<1> QED BY <1>3, <1>4, <1>6, <1>7, SentKeeps

LEMMA SubmitKeeps ==
  ASSUME PeopleIInv, NEW c \in Calls, NEW role \in PeopleRoles, Submit(c, role)
  PROVE  PeopleIInv'
<1>1. udialog \in [kind : DialogKinds, who : People, row : Person] /\ udialog.who \in People /\ udialog.row \in Person
  BY DEF PeopleIInv, UsersTypeOK
<1> DEFINE stale == udialog.kind = "edit" /\ (udialog.row # people[udialog.who] \/ ~Current(udialog.who))
<1>2. hasty' = (hasty \/ stale) /\ UNCHANGED <<people, rows, filter, lists, udialog, wanted>>
  BY DEF Submit
<1>3. (stale => udialog.kind = "edit") /\ stale \in BOOLEAN
  OBVIOUS
<1>4. hasty' \in BOOLEAN /\ (hasty => hasty')
  <2> HIDE DEF stale
  <2> QED BY <1>2, <1>3 DEF PeopleIInv, UsersTypeOK
<1>5. CASE udialog.kind = "edit" /\ SendsCall(c, "edit", udialog.who, EditRecord(role))
  <2> DEFINE rec == EditRecord(role)
  <2>1. rec \in Person /\ rec.on = udialog.row.on
    BY <1>1 DEF EditRecord, Person
  <2>2. SendsCall(c, "edit", udialog.who, rec)
    BY <1>5
  <2> HIDE DEF rec
  <2>3. ASSUME ~hasty' PROVE /\ rec.on = people[udialog.who].on
                             /\ \A x \in Calls : Writing(x) => calls[x].who # udialog.who
    BY <1>2, <1>5, <2>1, <2>3 DEF Current, Writing
  <2> HIDE DEF stale
  <2> QED BY <1>1, <1>2, <1>4, <2>1, <2>2, <2>3, SentKeeps
<1>6. CASE \E p \in People : NewId(p) /\ SendsCall(c, "create", p, [role |-> role, on |-> TRUE])
  <2>1. PICK p \in People : NewId(p) /\ SendsCall(c, "create", p, [role |-> role, on |-> TRUE])
    BY <1>6
  <2>2. [role |-> role, on |-> TRUE] \in Person
    BY DEF Person
  <2>3. \A x \in Calls : Writing(x) => calls[x].who # p
    BY <2>1 DEF NewId, Writing
  <2> HIDE DEF stale
  <2> QED BY <1>2, <1>4, <2>1, <2>2, <2>3, SentKeeps
<1>7. CASE udialog.kind \in {"reset", "delete"} /\ SendsCall(c, udialog.kind, udialog.who, SomePerson)
  <2> HIDE DEF stale
  <2> QED BY <1>1, <1>2, <1>4, <1>7, EmptyCalls, SentKeeps
<1> QED BY <1>5, <1>6, <1>7 DEF Submit

\* A write that is answered is out of the way of the others.
LEMMA AnswerTyped ==
  ASSUME UsersTypeOK, NEW c \in Calls, NEW new \in Call, calls' = [calls EXCEPT ![c] = new], new.at # "sent"
  PROVE  /\ calls' \in [Calls -> Call] /\ ~Writing(c)'
         /\ \A x \in Calls : Writing(x)' => x # c /\ Writing(x) /\ calls'[x] = calls[x]
BY DEF UsersTypeOK, Writing

LEMMA RefusedKeeps == ASSUME PeopleIInv, NEW c \in Calls, Refused(c) PROVE PeopleIInv'
<1>1. UNCHANGED <<people, rows, filter, lists, udialog, wanted, hasty>> /\ calls' = [calls EXCEPT ![c] = NoCall]
  BY DEF Refused
<1>2. /\ calls' \in [Calls -> Call]
      /\ \A x \in Calls : Writing(x)' => Writing(x) /\ calls'[x] = calls[x]
  BY <1>1, EmptyCalls, AnswerTyped DEF PeopleIInv
<1>3. UsersTypeOK'
  BY <1>1, <1>2 DEF PeopleIInv, UsersTypeOK
<1> QED BY <1>1, <1>2, <1>3 DEF PeopleIInv, Faithful

LEMMA DoneKeeps == ASSUME PeopleIInv, NEW c \in Calls, Done(c) PROVE PeopleIInv'
<1>1. UNCHANGED <<people, rows, filter, wanted, hasty>> /\ calls' = [calls EXCEPT ![c] = NoCall]
  BY DEF Done
<1>2. /\ calls' \in [Calls -> Call]
      /\ \A x \in Calls : Writing(x)' => Writing(x) /\ calls'[x] = calls[x]
  BY <1>1, EmptyCalls, AnswerTyped DEF PeopleIInv
<1>3. lists' \in [ListSlots -> ListRead]
  BY ListTyped DEF Done, PeopleIInv, UsersTypeOK
<1>4. udialog' \in [kind : DialogKinds, who : People, row : Person]
  BY EmptyCalls DEF Done, PeopleIInv, UsersTypeOK
<1>5. UsersTypeOK'
  BY <1>1, <1>2, <1>3, <1>4 DEF PeopleIInv, UsersTypeOK
<1> QED BY <1>1, <1>2, <1>5 DEF PeopleIInv, Faithful

\* What the server has taken is what was meant.
LEMMA AcceptedMeans ==
  ASSUME PeopleIInv, NEW c \in Calls, Accepted(c)
  PROVE  \/ UNCHANGED <<people, wanted>>
         \/ \E row, means \in Rows :
              /\ people' = [people EXCEPT ![calls[c].who] = row]
              /\ wanted' = [wanted EXCEPT ![calls[c].who] = IF hasty THEN row ELSE means]
              /\ ~hasty => means = row
              /\ row = Gone \/ Writing(c)
<1> DEFINE p == calls[c].who
           rec == calls[c].rec
           Becomes(row, means) == /\ people' = [people EXCEPT ![p] = row]
                                  /\ wanted' = [wanted EXCEPT ![p] = IF hasty THEN row ELSE means]
<1>1. p \in People /\ rec \in Person /\ rec \in Rows /\ people[p] \in Rows /\ wanted[p] \in Rows /\ Gone \in Rows
  BY DEF PeopleIInv, UsersTypeOK, Call, Rows
<1>2. /\ calls[c].at = "sent"
      /\ \/ calls[c].what = "create" /\ Becomes(rec, rec)
         \/ /\ calls[c].what = "toggle" /\ people[p] # Gone
            /\ Becomes(rec, [wanted[p] EXCEPT !.on = rec.on])
         \/ /\ calls[c].what = "edit" /\ people[p] # Gone
            /\ Becomes(rec, [wanted[p] EXCEPT !.role = rec.role])
         \/ Becomes(Gone, Gone)
         \/ UNCHANGED <<people, wanted>>
  BY DEF Accepted
<1> HIDE DEF p, rec
<1>3. CASE calls[c].what = "create" /\ Becomes(rec, rec)
  BY <1>1, <1>2, <1>3 DEF p, Writing
<1>4. CASE calls[c].what = "toggle" /\ people[p] # Gone /\ Becomes(rec, [wanted[p] EXCEPT !.on = rec.on])
  <2>1. ASSUME ~hasty PROVE wanted[p] \in Person /\ wanted[p].role = rec.role
    BY <1>1, <1>2, <1>4, <2>1, RowIsPerson DEF p, rec, PeopleIInv, Writing, Faithful
  <2>2. ~hasty => [wanted[p] EXCEPT !.on = rec.on] = rec
    BY <1>1, <2>1 DEF Person
  <2>3. Becomes(rec, rec)
    BY <1>4, <2>2
  <2> QED BY <1>1, <1>2, <1>4, <2>3 DEF p, Writing
<1>5. CASE calls[c].what = "edit" /\ people[p] # Gone /\ Becomes(rec, [wanted[p] EXCEPT !.role = rec.role])
  <2>1. ASSUME ~hasty PROVE wanted[p] \in Person /\ wanted[p].on = rec.on
    BY <1>1, <1>2, <1>5, <2>1, RowIsPerson DEF p, rec, PeopleIInv, Writing, Faithful
  <2>2. ~hasty => [wanted[p] EXCEPT !.role = rec.role] = rec
    BY <1>1, <2>1 DEF Person
  <2>3. Becomes(rec, rec)
    BY <1>5, <2>2
  <2> QED BY <1>1, <1>2, <1>5, <2>3 DEF p, Writing
<1>6. CASE Becomes(Gone, Gone)
  BY <1>1, <1>6 DEF p
<1> QED BY <1>2, <1>3, <1>4, <1>5, <1>6

LEMMA AcceptedKeeps == ASSUME PeopleIInv, NEW c \in Calls, Accepted(c) PROVE PeopleIInv'
<1> DEFINE new == [NoCall EXCEPT !.at = "back", !.what = calls[c].what]
<1>1. /\ UNCHANGED <<rows, filter, lists, udialog, hasty>> /\ calls[c].at = "sent"
      /\ calls' = [calls EXCEPT ![c] = new]
  BY DEF Accepted
<1>2. new \in Call /\ new.at # "sent"
  BY EmptyCalls DEF PeopleIInv, UsersTypeOK, Call
<1> HIDE DEF new
<1>3. /\ calls' \in [Calls -> Call] /\ ~Writing(c)'
      /\ \A x \in Calls : Writing(x)' => x # c /\ Writing(x) /\ calls'[x] = calls[x]
  BY <1>1, <1>2, AnswerTyped DEF PeopleIInv
<1>4. CASE UNCHANGED <<people, wanted>>
  <2>1. UsersTypeOK'
    BY <1>1, <1>3, <1>4 DEF PeopleIInv, UsersTypeOK
  <2> QED BY <1>1, <1>3, <1>4, <2>1 DEF PeopleIInv, Faithful
<1>5. ASSUME NEW row \in Rows, NEW means \in Rows,
             people' = [people EXCEPT ![calls[c].who] = row],
             wanted' = [wanted EXCEPT ![calls[c].who] = IF hasty THEN row ELSE means],
             ~hasty => means = row, row = Gone \/ Writing(c)
      PROVE  PeopleIInv'
  <2>1. wanted' = [wanted EXCEPT ![calls[c].who] = row]
    BY <1>5
  <2>2. UsersTypeOK'
    <3>1. UsersTypeOK
      BY DEF PeopleIInv
    <3>2. people \in [People -> Rows] /\ wanted \in [People -> Rows]
      BY <3>1 DEF UsersTypeOK
    <3>3. people' \in [People -> Rows] BY <1>5, <3>2
    <3>4. wanted' \in [People -> Rows] BY <1>5, <2>1, <3>2
    <3> QED BY <1>1, <1>3, <3>1, <3>3, <3>4 DEF UsersTypeOK
  <2>3. ~hasty' => people' = wanted'
    BY <1>1, <1>5, <2>1 DEF PeopleIInv
  <2>4. ASSUME ~hasty', NEW x \in Calls, Writing(x)' PROVE Faithful(x)'
    <3>1. x # c /\ Writing(x) /\ Faithful(x) /\ calls'[x] = calls[x] /\ calls[x].who \in People /\ ~hasty
      BY <1>1, <1>3, <2>4 DEF PeopleIInv, UsersTypeOK, Call
    <3>2. CASE calls[x].who = calls[c].who
      <4>1. ~Writing(c)
        BY <3>1, <3>2 DEF PeopleIInv
      <4>2. people'[calls[x].who] = Gone
        BY <1>5, <3>1, <3>2, <4>1 DEF PeopleIInv, UsersTypeOK
      <4> QED BY <3>1, <4>2 DEF Faithful
    <3>3. CASE calls[x].who # calls[c].who
      BY <1>5, <3>1, <3>3 DEF Faithful, PeopleIInv, UsersTypeOK
    <3> QED BY <3>2, <3>3
  <2>5. ~hasty' => \A x, y \in Calls : Writing(x)' /\ Writing(y)' /\ calls'[x].who = calls'[y].who => x = y
    BY <1>1, <1>3 DEF PeopleIInv
  <2> QED BY <2>2, <2>3, <2>4, <2>5 DEF PeopleIInv
<1> QED BY <1>4, <1>5, AcceptedMeans

\* The inductive invariant of the users page.
THEOREM PeopleInductive == UsersSpec => []PeopleIInv
<1>1. PeopleIInv /\ [UsersNext]_peoplevars => PeopleIInv'
  <2> SUFFICES ASSUME PeopleIInv, [UsersNext]_peoplevars PROVE PeopleIInv'
    OBVIOUS
  <2>1. CASE UNCHANGED peoplevars
    BY <2>1 DEF peoplevars, PeopleIInv, UsersTypeOK, Writing, Faithful
  <2>2. CASE UsersNext
    BY <2>2, ListKeeps, DialogKeeps, ToggleKeeps, SubmitKeeps, RefusedKeeps, AcceptedKeeps, DoneKeeps
    DEF UsersNext
  <2> QED BY <2>1, <2>2
<1> QED BY <1>1, PeopleBegin, PTL DEF UsersSpec

\* An edit does not undo a lock and a lock does not undo an edit, although both
\* send the whole record, as long as each is built from a row that is current
\* (page.tsx:387-403, 490-505).
THEOREM LastWordIsKept == UsersSpec => []LastWordStands
<1>1. PeopleIInv => LastWordStands
  BY DEF PeopleIInv, LastWordStands
<1> QED BY <1>1, PeopleInductive, PTL

-----------------------------------------------------------------------------
(***************************************************************************)
(* ClientsConsole.  While a selection is moved and none of it was refused, *)
(* who still waits is in its request: when the request is done, nobody is. *)
(***************************************************************************)
Selecting(o) == cops[o].at # "idle" /\ cops[o].what = "selected"

MovesIInv ==
  /\ ClientsTypeOK
  /\ ~fickle =>
       /\ waits \subseteq cview.picks
       /\ \A o \in ClientOps : Selecting(o) /\ ~cops[o].failed => waits \subseteq cops[o].todo
       /\ \A o, q \in ClientOps : Selecting(o) /\ Selecting(q) => o = q

LEMMA NoOpTyped ==
  NoClientOp \in ClientOp /\ NoClientOp.at = "idle" /\ NoClientOp.what = "scan" /\ [NoClientOp EXCEPT !.at = "read"] \in ClientOp
BY ModesAssumption DEF NoClientOp, ClientOp

LEMMA MovesBegin == ClientsInit => MovesIInv
<1> SUFFICES ASSUME ClientsInit PROVE MovesIInv
  OBVIOUS
<1>1. ClientsTypeOK
  BY NoOpTyped, ModesAssumption DEF ClientsInit, ClientsTypeOK, ClientsView, Acts
<1>2. \A o \in ClientOps : ~Selecting(o)
  BY NoOpTyped DEF ClientsInit, Selecting
<1> QED BY <1>1, <1>2 DEF ClientsInit, MovesIInv

\* The page changes, the requests and the selection do not.
LEMMA ViewKeeps ==
  ASSUME MovesIInv, cview' \in ClientsView, cview'.picks = cview.picks, UNCHANGED <<clist, cops, waits, fickle>>
  PROVE  MovesIInv'
BY DEF MovesIInv, ClientsTypeOK, Selecting

LEMMA FoundTyped ==
  ASSUME ClientsTypeOK, NEW v \in ClientsView, NEW w \in Found(v)
  PROVE  w \in ClientsView /\ w.picks = v.picks
<1>1. PICK m \in {clist.mode, v.mode} : w = [v EXCEPT !.mode = m]
  BY DEF Found
<1>2. m \in ListModes
  BY DEF ClientsTypeOK, ListState, ClientsView
<1> QED BY <1>1, <1>2 DEF ClientsView

LEMMA BusyTyped ==
  ASSUME ClientsTypeOK, NEW b \in Hosts \cup Acts
  PROVE  BusyWith(b) \in ClientsView /\ BusyWith(b).picks = cview.picks
BY DEF BusyWith, ClientsTypeOK, ClientsView

LEMMA PollKeeps == ASSUME MovesIInv, PollClients PROVE MovesIInv'
<1>1. cview \in ClientsView /\ ClientsTypeOK /\ cview' \in Found(cview) /\ UNCHANGED <<clist, cops, waits, fickle>>
  BY DEF PollClients, MovesIInv, ClientsTypeOK
<1> QED BY <1>1, FoundTyped, ViewKeeps

LEMMA AddDialogKeeps == ASSUME MovesIInv, AddDialog PROVE MovesIInv'
<1> DEFINE b == ~cview.adding
<1>1. cview' = [cview EXCEPT !.adding = b] /\ b \in BOOLEAN /\ UNCHANGED <<clist, cops, waits, fickle>>
  BY DEF AddDialog
<1> HIDE DEF b
<1>2. cview' \in ClientsView /\ cview'.picks = cview.picks
  BY <1>1 DEF MovesIInv, ClientsTypeOK, ClientsView
<1> QED BY <1>1, <1>2, ViewKeeps

LEMMA PicksKeep ==
  ASSUME MovesIInv, NEW picks \in SUBSET Hosts, NEW multi \in BOOLEAN, TouchPicks(picks, multi)
  PROVE  MovesIInv'
<1>1. UNCHANGED <<clist, cops>> /\ waits' = {} /\ (fickle => fickle') /\ fickle' \in BOOLEAN
  BY DEF TouchPicks, MovesIInv, ClientsTypeOK
<1>2. cview' \in ClientsView
  BY DEF TouchPicks, MovesIInv, ClientsTypeOK, ClientsView
<1> QED BY <1>1, <1>2 DEF MovesIInv, ClientsTypeOK, Selecting

LEMMA TouchKeeps == ASSUME MovesIInv, MultiSelect \/ \E h \in Hosts : PickHost(h) PROVE MovesIInv'
<1>1. CASE MultiSelect
  <2> DEFINE b == ~cview.multi
  <2>1. b \in BOOLEAN /\ TouchPicks({}, b)
    BY <1>1 DEF MultiSelect
  <2> HIDE DEF b
  <2> QED BY <2>1, PicksKeep
<1>2. CASE \E h \in Hosts : PickHost(h)
  <2>1. PICK h \in Hosts : PickHost(h)
    BY <1>2
  <2> DEFINE picks == IF h \in cview.picks THEN cview.picks \ {h} ELSE cview.picks \cup {h}
  <2>2. picks \in SUBSET Hosts
    BY DEF MovesIInv, ClientsTypeOK, ClientsView
  <2>3. TouchPicks(picks, TRUE)
    BY <2>1 DEF PickHost
  <2> HIDE DEF picks
  <2> QED BY <2>2, <2>3, PicksKeep
<1> QED BY <1>1, <1>2

\* An operation that begins.
LEMMA AskTyped ==
  ASSUME NEW what \in {"move", "selected", "add", "mode", "scan"}, NEW todo \in SUBSET Hosts
  PROVE  /\ Asks(what, todo) \in ClientOp /\ Asks(what, todo).at = "sent"
         /\ Asks(what, todo).what = what /\ Asks(what, todo).todo = todo /\ Asks(what, todo).failed = FALSE
BY NoOpTyped, ModesAssumption DEF Asks, ClientOp, NoClientOp

LEMMA MoveAsk == \A h \in Hosts : Asks("move", {h}) \in ClientOp /\ Asks("move", {h}).what = "move"
BY NoOpTyped, ModesAssumption DEF Asks, ClientOp, NoClientOp

LEMMA AllAsk ==
  \A all \in SUBSET Hosts :
    LET new == [Asks("selected", all) EXCEPT !.lists = TRUE]
    IN  new \in ClientOp /\ new.at = "sent" /\ new.what = "selected" /\ new.todo = all
<1> SUFFICES ASSUME NEW all \in SUBSET Hosts
             PROVE  LET new == [Asks("selected", all) EXCEPT !.lists = TRUE]
                    IN  new \in ClientOp /\ new.at = "sent" /\ new.what = "selected" /\ new.todo = all
  OBVIOUS
<1> DEFINE a == Asks("selected", all)
<1>1. a \in ClientOp /\ a.at = "sent" /\ a.what = "selected" /\ a.todo = all
  BY NoOpTyped, ModesAssumption DEF Asks, ClientOp, NoClientOp
<1> HIDE DEF a
<1>2. /\ [a EXCEPT !.lists = TRUE] \in ClientOp /\ [a EXCEPT !.lists = TRUE].at = a.at
      /\ [a EXCEPT !.lists = TRUE].what = a.what /\ [a EXCEPT !.lists = TRUE].todo = a.todo
  BY <1>1 DEF ClientOp
<1> QED BY <1>1, <1>2 DEF a

\* One that moves no selection leaves the others as they were.
LEMMA OneMovesOn ==
  ASSUME MovesIInv, NEW o \in ClientOps, NEW new \in ClientOp, cops' = [cops EXCEPT ![o] = new],
         new.at = "idle" \/ new.what # "selected", clist' \in ListState, cview' \in ClientsView,
         UNCHANGED <<waits, fickle>>, ~fickle => waits \subseteq cview'.picks
  PROVE  MovesIInv'
<1>1. /\ cops' \in [ClientOps -> ClientOp] /\ ~Selecting(o)'
      /\ \A x \in ClientOps : Selecting(x)' => Selecting(x) /\ cops'[x] = cops[x]
  BY DEF MovesIInv, ClientsTypeOK, Selecting
<1> QED BY <1>1 DEF MovesIInv, ClientsTypeOK

LEMMA ControlsKeep ==
  ASSUME MovesIInv, NEW o \in ClientOps,
         \/ \E h \in Hosts : AddClient(o, h) \/ \E onto \in BOOLEAN : MoveClient(o, h, onto)
         \/ ScanClients(o) \/ \E m \in ListModes : ChangeMode(o, m)
  PROVE  MovesIInv'
<1>1. ClientsTypeOK /\ cview \in ClientsView /\ clist' = clist /\ UNCHANGED <<waits, fickle>>
  BY DEF AddClient, MoveClient, ScanClients, ChangeMode, MovesIInv, ClientsTypeOK
<1>2. cview' \in ClientsView /\ cview'.picks = cview.picks
  <2>1. CASE \E h \in Hosts : cview' = BusyWith(h)
    BY <1>1, <2>1, BusyTyped
  <2>2. CASE cview' = BusyWith("add") \/ cview' = BusyWith("scan")
    BY <1>1, <2>2, BusyTyped DEF Acts
  <2>3. CASE \E m \in ListModes : cview' = [cview EXCEPT !.mode = m]
    BY <1>1, <2>3 DEF ClientsView
  <2> QED BY <2>1, <2>2, <2>3 DEF AddClient, MoveClient, ScanClients, ChangeMode
<1>3. \E new \in ClientOp : new.what # "selected" /\ cops' = [cops EXCEPT ![o] = new]
  <2>1. CASE \E h \in Hosts : AddClient(o, h)
    <3>1. PICK h \in Hosts : AddClient(o, h)
      BY <2>1
    <3> DEFINE new == Asks("add", {h})
    <3>2. new \in ClientOp /\ new.what = "add"
      <4>1. {h} \in SUBSET Hosts
        OBVIOUS
      <4> QED BY <4>1, AskTyped
    <3>3. cops' = [cops EXCEPT ![o] = new]
      BY <3>1 DEF AddClient, Starts
    <3> HIDE DEF new
    <3> QED BY <3>2, <3>3
  <2>2. CASE \E h \in Hosts, onto \in BOOLEAN : MoveClient(o, h, onto)
    <3>1. PICK h \in Hosts : \E onto \in BOOLEAN : MoveClient(o, h, onto)
      BY <2>2
    <3> DEFINE ask == Asks("move", {h})
    <3>2. ask \in ClientOp /\ ask.what = "move"
      BY MoveAsk
    <3> HIDE DEF ask
    <3> DEFINE New(onto) == [ask EXCEPT !.lists = onto]
    <3>3. ASSUME NEW onto \in BOOLEAN
          PROVE  New(onto) \in ClientOp /\ New(onto).what # "selected"
      BY <3>2 DEF ClientOp
    <3>4. \E onto \in BOOLEAN : cops' = [cops EXCEPT ![o] = New(onto)]
      BY <3>1 DEF MoveClient, Starts, ask
    <3> HIDE DEF New
    <3> QED BY <3>3, <3>4
  <2>3. CASE ScanClients(o)
    <3> DEFINE new == Asks("scan", {})
    <3>1. new \in ClientOp /\ new.what = "scan"
      BY AskTyped
    <3>2. cops' = [cops EXCEPT ![o] = new]
      BY <2>3 DEF ScanClients, Starts
    <3> HIDE DEF new
    <3> QED BY <3>1, <3>2
  <2>4. CASE \E m \in ListModes : ChangeMode(o, m)
    <3>1. PICK m \in ListModes : ChangeMode(o, m)
      BY <2>4
    <3> DEFINE new == [Asks("mode", {}) EXCEPT !.mode = m, !.back = cview.mode]
    <3>2. Asks("mode", {}) \in ClientOp /\ Asks("mode", {}).what = "mode"
      BY AskTyped
    <3>3. new \in ClientOp /\ new.what = "mode"
      BY <1>1, <3>2 DEF ClientOp, ClientsView
    <3>4. cops' = [cops EXCEPT ![o] = new]
      BY <3>1 DEF ChangeMode, Starts
    <3> HIDE DEF new
    <3> QED BY <3>3, <3>4
  <2> QED BY <2>1, <2>2, <2>3, <2>4
<1> QED BY <1>1, <1>2, <1>3, OneMovesOn DEF MovesIInv, ClientsTypeOK

\* A selection is sent: it is the only one, or the history is fickle.
LEMMA SelectionKeeps == ASSUME MovesIInv, NEW o \in ClientOps, MoveSelected(o) PROVE MovesIInv'
<1>1. PICK sent \in SUBSET cview.picks \ {{}} :
        /\ Starts(o, [Asks("selected", sent) EXCEPT !.lists = TRUE])
        /\ fickle' = (fickle \/ Moving)
        /\ waits' = IF fickle' THEN {} ELSE sent
  BY DEF MoveSelected
<1> DEFINE new == [Asks("selected", sent) EXCEPT !.lists = TRUE]
<1>2. cview.picks \in SUBSET Hosts /\ sent \in SUBSET cview.picks /\ ClientsTypeOK /\ "selected" \in Hosts \cup Acts
  BY DEF MovesIInv, ClientsTypeOK, ClientsView, Acts
<1>3. /\ new \in ClientOp /\ new.at = "sent" /\ new.what = "selected" /\ new.todo = sent
  <2>1. sent \in SUBSET Hosts
    BY <1>2
  <2> QED BY <1>2, <2>1, AllAsk
<1>4. cops' = [cops EXCEPT ![o] = new] /\ clist' = clist
  BY <1>1 DEF MoveSelected, Starts
<1> HIDE DEF new
<1>5. /\ cops' \in [ClientOps -> ClientOp] /\ cops'[o] = new
      /\ \A x \in ClientOps \ {o} : cops'[x] = cops[x]
  BY <1>3, <1>4 DEF MovesIInv, ClientsTypeOK
<1>6. cview' \in ClientsView /\ cview'.picks = cview.picks
  BY <1>2, BusyTyped DEF MoveSelected
<1>7. fickle' \in BOOLEAN /\ waits' \subseteq Hosts
  <2>1. fickle \in BOOLEAN /\ Moving \in BOOLEAN
    BY DEF MovesIInv, ClientsTypeOK, Moving
  <2>2. waits' = {} \/ waits' = sent
    BY <1>1
  <2> QED BY <1>1, <1>2, <2>1, <2>2
<1>8. ClientsTypeOK'
  BY <1>4, <1>5, <1>6, <1>7 DEF MovesIInv, ClientsTypeOK
<1>9. ~fickle' => \A x \in ClientOps : Selecting(x)' => x = o
  BY <1>1, <1>5 DEF Moving, Selecting
<1>10. ~fickle' => waits' = sent /\ sent \subseteq cview'.picks /\ cops'[o].todo = sent
  BY <1>1, <1>2, <1>3, <1>5, <1>6
<1> QED BY <1>8, <1>9, <1>10 DEF MovesIInv

\* The server answers for one client of a move.
LEMMA MoveAnswered ==
  ASSUME MovesIInv, NEW o \in ClientOps, NEW h \in Hosts, NEW new \in ClientOp,
         cops' = [cops EXCEPT ![o] = new], cops[o].at = "sent", new.what = cops[o].what,
         new.todo = cops[o].todo \ {h}, cops[o].failed => new.failed,
         UNCHANGED <<cview, fickle>>, clist' \in ListState, waits' \subseteq waits,
         new.what = "selected" /\ ~new.failed => waits' = waits \ {h}
  PROVE  MovesIInv'
<1>1. /\ cops' \in [ClientOps -> ClientOp] /\ cops'[o] = new
      /\ \A x \in ClientOps \ {o} : cops'[x] = cops[x]
  BY DEF MovesIInv, ClientsTypeOK
<1>2. ClientsTypeOK'
  BY <1>1 DEF MovesIInv, ClientsTypeOK
<1>3. ASSUME NEW x \in ClientOps PROVE Selecting(x)' => Selecting(x)
  BY <1>1 DEF Selecting
<1>4. ASSUME ~fickle', NEW x \in ClientOps, Selecting(x)', ~cops'[x].failed PROVE waits' \subseteq cops'[x].todo
  <2>1. ~fickle /\ Selecting(x)
    BY <1>3, <1>4
  <2>2. CASE x # o
    BY <1>1, <1>4, <2>1, <2>2 DEF MovesIInv
  <2>3. CASE x = o
    BY <1>1, <1>4, <2>1, <2>3 DEF MovesIInv, Selecting
  <2> QED BY <2>2, <2>3
<1> QED BY <1>2, <1>3, <1>4 DEF MovesIInv

LEMMA ServeKeeps ==
  ASSUME MovesIInv, NEW o \in ClientOps, NEW h \in Hosts, ServeMove(o, h) PROVE MovesIInv'
<1>1. ClientsTypeOK /\ cops[o] \in ClientOp /\ cops[o].at = "sent" /\ UNCHANGED <<cview, fickle>>
  BY DEF MovesIInv, ClientsTypeOK, ServeMove
<1>2. /\ waits' \subseteq waits
      /\ cops[o].what = "selected" => waits' = waits \ {h}
  BY DEF ServeMove
<1>3. clist' \in ListState
  <2> DEFINE now == IF cops[o].lists THEN clist.listed \cup {h} ELSE clist.listed \ {h}
  <2>1. now \subseteq Hosts
    BY <1>1 DEF ClientsTypeOK, ListState
  <2>2. clist' = [clist EXCEPT !.listed = now]
    BY DEF ServeMove
  <2> HIDE DEF now
  <2> QED BY <1>1, <2>1, <2>2 DEF ClientsTypeOK, ListState
<1> DEFINE new == [cops[o] EXCEPT !.todo = cops[o].todo \ {h}]
<1>4. cops' = [cops EXCEPT ![o] = new]
  BY <1>1 DEF ServeMove, ClientsTypeOK
<1>5. /\ new \in ClientOp /\ new.what = cops[o].what
      /\ new.todo = cops[o].todo \ {h} /\ new.failed = cops[o].failed
  BY <1>1 DEF ClientOp
<1> HIDE DEF new
<1> QED BY <1>1, <1>2, <1>3, <1>4, <1>5, MoveAnswered

LEMMA RefuseKeeps ==
  ASSUME MovesIInv, NEW o \in ClientOps, NEW h \in Hosts, RefuseMove(o, h) PROVE MovesIInv'
<1>1. ClientsTypeOK /\ cops[o] \in ClientOp /\ cops[o].at = "sent" /\ UNCHANGED <<clist, cview, waits, fickle>>
  BY DEF MovesIInv, ClientsTypeOK, RefuseMove
<1> DEFINE new == [cops[o] EXCEPT !.todo = cops[o].todo \ {h}, !.failed = TRUE]
<1>2. cops' = [cops EXCEPT ![o] = new]
  BY <1>1 DEF RefuseMove, ClientsTypeOK
<1>3. new \in ClientOp /\ new.what = cops[o].what /\ new.todo = cops[o].todo \ {h} /\ new.failed = TRUE
  BY <1>1 DEF ClientOp
<1> HIDE DEF new
<1>4. new.failed
  BY <1>3
<1> QED BY <1>1, <1>2, <1>3, <1>4, MoveAnswered DEF ClientsTypeOK

LEMMA OtherKeeps == ASSUME MovesIInv, NEW o \in ClientOps, ServeOther(o) PROVE MovesIInv'
<1>1. ClientsTypeOK /\ cops[o] \in ClientOp /\ cview \in ClientsView /\ clist \in ListState /\ UNCHANGED <<waits, fickle>>
  BY DEF MovesIInv, ClientsTypeOK, ServeOther
<1>2. clist' \in ListState
  BY <1>1 DEF ServeOther, ListState, ClientOp
<1>3. cview' \in ClientsView /\ cview'.picks = cview.picks
  <2>1. CASE cview' = [cview EXCEPT !.mode = cops[o].back]
    BY <1>1, <2>1 DEF ClientsView, ClientOp
  <2>2. CASE cview' = BusyWith("none")
    BY <1>1, <2>2, BusyTyped DEF Acts
  <2> QED BY <1>1, <2>1, <2>2 DEF ServeOther
<1>4. CASE cops' = [cops EXCEPT ![o] = NoClientOp]
  BY <1>1, <1>2, <1>3, <1>4, NoOpTyped, OneMovesOn DEF MovesIInv
<1>5. CASE cops' = [cops EXCEPT ![o].at = "read"]
  <2> DEFINE new == [cops[o] EXCEPT !.at = "read"]
  <2>1. new \in ClientOp /\ new.what = cops[o].what /\ cops[o].what # "selected"
    BY <1>1 DEF ClientOp, ServeOther
  <2>2. cops' = [cops EXCEPT ![o] = new]
    BY <1>1, <1>5 DEF ClientsTypeOK
  <2> HIDE DEF new
  <2> QED BY <1>1, <1>2, <1>3, <2>1, <2>2, OneMovesOn DEF MovesIInv
<1> QED BY <1>4, <1>5 DEF ServeOther

LEMMA FailsKeep == ASSUME MovesIInv, NEW o \in ClientOps, MoveFails(o) PROVE MovesIInv'
<1>1. ClientsTypeOK /\ cops[o] \in ClientOp /\ cview \in ClientsView /\ UNCHANGED <<clist, waits, fickle>>
  BY DEF MovesIInv, ClientsTypeOK, MoveFails
<1>2. cview' \in ClientsView /\ cview'.picks = cview.picks
  <2>1. BusyWith("none") \in ClientsView
    BY <1>1, BusyTyped DEF Acts
  <2> QED BY <1>1, <2>1 DEF MoveFails, PicksAfterFailure, ClientsView
<1> DEFINE new == [cops[o] EXCEPT !.told = TRUE]
<1>3. cops' = [cops EXCEPT ![o] = new]
  BY <1>1 DEF MoveFails, ClientsTypeOK
<1>4. /\ new \in ClientOp /\ new.at = cops[o].at /\ new.what = cops[o].what
      /\ new.todo = cops[o].todo /\ new.failed = cops[o].failed
  BY <1>1 DEF ClientOp
<1> HIDE DEF new
<1>5. /\ cops' \in [ClientOps -> ClientOp]
      /\ \A x \in ClientOps : /\ cops'[x].at = cops[x].at /\ cops'[x].what = cops[x].what
                              /\ cops'[x].todo = cops[x].todo /\ cops'[x].failed = cops[x].failed
  BY <1>1, <1>3, <1>4 DEF ClientsTypeOK
<1> QED BY <1>1, <1>2, <1>5 DEF MovesIInv, ClientsTypeOK, Selecting

\* Who is waiting when a whole selection has moved: nobody.
LEMMA SucceedsKeep == ASSUME MovesIInv, NEW o \in ClientOps, MoveSucceeds(o) PROVE MovesIInv'
<1>1. /\ ClientsTypeOK /\ cview \in ClientsView /\ UNCHANGED <<clist, waits, fickle>>
      /\ cops[o].at = "sent" /\ cops[o].todo = {} /\ ~cops[o].failed
  BY DEF MovesIInv, ClientsTypeOK, MoveSucceeds
<1> DEFINE picks == IF cops[o].what = "selected" THEN {} ELSE cview.picks
           adding == cview.adding /\ cops[o].what # "add"
<1>2. picks \in SUBSET Hosts /\ adding \in BOOLEAN
  BY <1>1 DEF ClientsView
<1>3. cview' = [cview EXCEPT !.picks = picks, !.adding = adding]
  BY DEF MoveSucceeds
<1>4. ~fickle => waits \subseteq picks
  BY <1>1 DEF MovesIInv, Selecting
<1> HIDE DEF picks, adding
<1>5. cview' \in ClientsView /\ cview'.picks = picks
  BY <1>1, <1>2, <1>3 DEF ClientsView
<1>6. cops' = [cops EXCEPT ![o] = [NoClientOp EXCEPT !.at = "read"]] /\ [NoClientOp EXCEPT !.at = "read"].what # "selected"
  BY NoOpTyped DEF MoveSucceeds, NoClientOp
<1> QED BY <1>1, <1>4, <1>5, <1>6, NoOpTyped, OneMovesOn DEF ClientsTypeOK

LEMMA EndsKeep == ASSUME MovesIInv, NEW o \in ClientOps, MoveForgotten(o) \/ ReadEnds(o) PROVE MovesIInv'
<1>1. ClientsTypeOK /\ cview \in ClientsView /\ UNCHANGED <<clist, waits, fickle>> /\ cops' = [cops EXCEPT ![o] = NoClientOp]
  BY DEF MovesIInv, ClientsTypeOK, MoveForgotten, ReadEnds
<1>2. cview' \in ClientsView /\ cview'.picks = cview.picks
  <2>1. BusyWith("none") \in ClientsView /\ BusyWith("none").picks = cview.picks
    BY <1>1, BusyTyped DEF Acts
  <2> QED BY <1>1, <2>1, FoundTyped DEF MoveForgotten, ReadEnds
<1> QED BY <1>1, <1>2, NoOpTyped, OneMovesOn DEF MovesIInv, ClientsTypeOK

\* The inductive invariant of the clients page.
THEOREM MovesInductive == ClientsSpec => []MovesIInv
<1>1. MovesIInv /\ [ClientsNext]_hvars => MovesIInv'
  <2> SUFFICES ASSUME MovesIInv, [ClientsNext]_hvars PROVE MovesIInv'
    OBVIOUS
  <2>1. CASE UNCHANGED hvars
    BY <2>1 DEF hvars, MovesIInv, ClientsTypeOK, Selecting
  <2>2. CASE MultiSelect \/ AddDialog \/ PollClients \/ \E h \in Hosts : PickHost(h)
    BY <2>2, TouchKeeps, AddDialogKeeps, PollKeeps
  <2>3. ASSUME NEW o \in ClientOps, ClientsControls(o) PROVE MovesIInv'
    BY <2>3, ControlsKeep, SelectionKeeps DEF ClientsControls
  <2>4. ASSUME NEW o \in ClientOps, ClientsAnswers(o) PROVE MovesIInv'
    BY <2>4, ServeKeeps, RefuseKeeps, OtherKeeps, FailsKeep, SucceedsKeep, EndsKeep DEF ClientsAnswers
  <2> QED BY <2>1, <2>2, <2>3, <2>4 DEF ClientsNext
<1> QED BY <1>1, MovesBegin, PTL DEF ClientsSpec

\* What the clear after a success takes away was moved; whoever was refused, or
\* is still out when another was, stays selected (page.tsx:357-371).
THEOREM NoPickIsLost == ClientsSpec => []UnmovedStayPicked
<1>1. MovesIInv => UnmovedStayPicked
  BY DEF MovesIInv, UnmovedStayPicked
<1> QED BY <1>1, MovesInductive, PTL

-----------------------------------------------------------------------------
(***************************************************************************)
(* MosdnsRules.  A list that is not of the selected category is about to be*)
(* replaced; what is on its way belongs to the selected category.          *)
(***************************************************************************)
HomeIInv ==
  /\ RulesTypeOK
  /\ ~crossed =>
       /\ \A c \in Cats : filed[c] \subseteq Of(c)
       /\ ReadingRules \/ listed \subseteq Of(cat)
       /\ \A l \in RuleReads : rread[l].at # "idle" => rread[l].cat = cat /\ rread[l].got \subseteq Of(cat)
       /\ \A w \in RuleWrites : rwrite[w].at # "idle" => rwrite[w].cat = cat /\ rwrite[w].rules \subseteq Of(cat)

LEMMA OfRules == \A c \in Cats : Of(c) \subseteq Rules
BY DEF Of

LEMMA EmptyRules ==
  /\ SomeCat \in Cats /\ NoRuleRead \in RuleRead /\ NoRuleWrite \in RuleWrite
  /\ NoRuleRead.at = "idle" /\ NoRuleWrite.at = "idle" /\ NoRuleRead.cat = SomeCat /\ NoRuleRead.got = {}
<1>1. SomeCat \in Cats
  BY CatsAssumption DEF SomeCat
<1> QED BY <1>1 DEF NoRuleRead, RuleRead, NoRuleWrite, RuleWrite

LEMMA HomeBegins == RulesInit => HomeIInv
<1> SUFFICES ASSUME RulesInit PROVE HomeIInv
  OBVIOUS
<1> DEFINE first == [NoRuleRead EXCEPT !.at = "sent"]
<1>1. first \in RuleRead /\ first.cat = SomeCat /\ first.got = {}
  BY EmptyRules DEF RuleRead
<1>2. rread = [l \in RuleReads |-> IF l = CHOOSE x \in RuleReads : TRUE THEN first ELSE NoRuleRead]
  BY DEF RulesInit
<1> HIDE DEF first
<1>3. /\ rread \in [RuleReads -> RuleRead]
      /\ \A l \in RuleReads : rread[l].cat = SomeCat /\ rread[l].got = {}
  BY <1>1, <1>2, EmptyRules
<1>4. RulesTypeOK
  BY <1>3, EmptyRules DEF RulesInit, RulesTypeOK, Modals
<1>5. \A w \in RuleWrites : rwrite[w].at = "idle"
  BY EmptyRules DEF RulesInit
<1> QED BY <1>3, <1>4, <1>5 DEF RulesInit, HomeIInv

\* A read that begins, of the selected category.
LEMMA RuleReadBegins ==
  ASSUME HomeIInv, NEW l \in RuleReads, NEW c \in Cats, LoadRules(l, c)
  PROVE  /\ rread' \in [RuleReads -> RuleRead]
         /\ rread'[l].at = "sent" /\ rread'[l].cat = c /\ rread'[l].got = {}
         /\ \A x \in RuleReads \ {l} : rread'[x] = rread[x]
<1> DEFINE new == [at |-> "sent", cat |-> c, got |-> {}]
<1>1. new \in RuleRead /\ new.at = "sent" /\ new.cat = c /\ new.got = {}
  BY DEF RuleRead
<1>2. rread' = [rread EXCEPT ![l] = new] /\ rread \in [RuleReads -> RuleRead]
  BY DEF LoadRules, HomeIInv, RulesTypeOK
<1> HIDE DEF new
<1> QED BY <1>1, <1>2

LEMMA SelectKeeps ==
  ASSUME HomeIInv, NEW l \in RuleReads, NEW c \in Cats, SelectCat(l, c) PROVE HomeIInv'
<1>1. LoadRules(l, c) /\ cat' = c /\ UNCHANGED <<filed, listed, modal, rwrite>>
      /\ crossed' = (crossed \/ ReadingRules \/ WritingRules)
  BY DEF SelectCat, ReadsNewList
<1>2. crossed' \in BOOLEAN
  BY <1>1 DEF HomeIInv, RulesTypeOK
<1>3. RulesTypeOK'
  BY <1>1, <1>2, RuleReadBegins DEF HomeIInv, RulesTypeOK
<1>4. ASSUME ~crossed'
      PROVE  /\ ~crossed
             /\ \A x \in RuleReads : rread[x].at = "idle"
             /\ \A w \in RuleWrites : rwrite[w].at = "idle"
  BY <1>1, <1>4 DEF ReadingRules, WritingRules
<1>5. ReadingRules'
  BY <1>1, RuleReadBegins DEF ReadingRules
<1> QED BY <1>1, <1>3, <1>4, <1>5, RuleReadBegins DEF HomeIInv

LEMMA RefreshKeeps == ASSUME HomeIInv, NEW l \in RuleReads, RefreshRules(l) PROVE HomeIInv'
<1>1. LoadRules(l, cat) /\ cat \in Cats /\ UNCHANGED <<filed, cat, listed, modal, rwrite, crossed>>
  BY DEF RefreshRules, HomeIInv, RulesTypeOK
<1>2. RulesTypeOK' /\ ReadingRules'
  BY <1>1, RuleReadBegins DEF HomeIInv, RulesTypeOK, ReadingRules
<1> QED BY <1>1, <1>2, RuleReadBegins DEF HomeIInv

LEMMA RulesReadKeeps == ASSUME HomeIInv, NEW l \in RuleReads, RulesRead(l) PROVE HomeIInv'
<1>1. /\ rread[l] \in RuleRead /\ rread \in [RuleReads -> RuleRead] /\ rread[l].cat \in Cats /\ rread[l].at = "sent"
      /\ UNCHANGED <<filed, cat, listed, modal, rwrite, crossed>>
  BY DEF RulesRead, HomeIInv, RulesTypeOK, RuleRead
<1> DEFINE got == filed[rread[l].cat]
           new == [rread[l] EXCEPT !.at = "back", !.got = got]
<1>2. got \in SUBSET Rules
  BY <1>1 DEF HomeIInv, RulesTypeOK
<1>3. ~crossed => got \subseteq Of(cat) /\ rread[l].cat = cat
  BY <1>1 DEF HomeIInv
<1>4. rread' = [rread EXCEPT ![l] = new]
  BY <1>1 DEF RulesRead
<1> HIDE DEF got
<1>5. new \in RuleRead /\ new.at = "back" /\ new.cat = rread[l].cat /\ new.got = got
  BY <1>1, <1>2 DEF RuleRead
<1> HIDE DEF new
<1>6. rread' \in [RuleReads -> RuleRead] /\ rread'[l] = new /\ \A x \in RuleReads \ {l} : rread'[x] = rread[x]
  BY <1>1, <1>4, <1>5
<1>7. RulesTypeOK' /\ ReadingRules'
  BY <1>1, <1>5, <1>6 DEF HomeIInv, RulesTypeOK, ReadingRules
<1> QED BY <1>1, <1>3, <1>5, <1>6, <1>7 DEF HomeIInv

LEMMA RulesEndKeeps == ASSUME HomeIInv, NEW l \in RuleReads, RulesShown(l) \/ RulesFail(l) PROVE HomeIInv'
<1>1. /\ rread[l] \in RuleRead /\ rread[l].got \in SUBSET Rules /\ UNCHANGED <<filed, cat, modal, rwrite>>
      /\ rread' = [rread EXCEPT ![l] = NoRuleRead]
  BY DEF RulesShown, RulesFail, HomeIInv, RulesTypeOK, RuleRead
<1>2. /\ rread' \in [RuleReads -> RuleRead] /\ rread'[l].at = "idle"
      /\ \A x \in RuleReads \ {l} : rread'[x] = rread[x]
  BY <1>1, EmptyRules DEF HomeIInv, RulesTypeOK
<1>3. listed' \in SUBSET Rules /\ crossed' \in BOOLEAN
  BY <1>1 DEF RulesShown, RulesFail, HomeIInv, RulesTypeOK
<1>4. RulesTypeOK'
  BY <1>1, <1>2, <1>3 DEF HomeIInv, RulesTypeOK
<1>5. ~crossed' => ~crossed /\ listed' \subseteq Of(cat)
  BY DEF RulesShown, RulesFail, HomeIInv
<1> QED BY <1>1, <1>2, <1>4, <1>5 DEF HomeIInv

LEMMA ModalKeeps == ASSUME HomeIInv, CloseModal \/ \E what \in Modals : OpenModal(what) PROVE HomeIInv'
<1>1. UNCHANGED <<filed, cat, listed, rread, rwrite, crossed>> /\ modal' \in Modals
  BY DEF CloseModal, OpenModal, Modals
<1> QED BY <1>1 DEF HomeIInv, RulesTypeOK, ReadingRules

\* A write belongs to the selected category, as the list it was taken from does.
LEMMA WriteBegins ==
  ASSUME HomeIInv, NEW w \in RuleWrites, NEW what \in {"add", "import", "clear", "edit", "delete", "reorder"},
         NEW rules \in SUBSET Rules, Writes(w, what, rules),
         rules \subseteq Of(cat) \/ rules \subseteq listed
  PROVE  HomeIInv'
<1> DEFINE new == [at |-> "sent", what |-> what, cat |-> cat, rules |-> rules]
<1>1. cat \in Cats /\ UNCHANGED <<filed, cat, listed, modal, rread>> /\ crossed' = (crossed \/ ReadingRules)
  BY DEF Writes, HomeIInv, RulesTypeOK
<1>2. new \in RuleWrite /\ new.cat = cat /\ new.rules = rules
  BY <1>1 DEF RuleWrite
<1>3. rwrite' = [rwrite EXCEPT ![w] = new]
  BY DEF Writes
<1> HIDE DEF new
<1>4. rwrite' \in [RuleWrites -> RuleWrite] /\ rwrite'[w] = new /\ \A x \in RuleWrites \ {w} : rwrite'[x] = rwrite[x]
  BY <1>2, <1>3 DEF HomeIInv, RulesTypeOK
<1>5. crossed' \in BOOLEAN
  BY <1>1 DEF HomeIInv, RulesTypeOK
<1>6. RulesTypeOK'
  BY <1>1, <1>4, <1>5 DEF HomeIInv, RulesTypeOK
<1>7. ~crossed' => ~crossed /\ ~ReadingRules /\ listed \subseteq Of(cat) /\ rules \subseteq Of(cat)
  BY <1>1 DEF HomeIInv
<1> QED BY <1>1, <1>2, <1>4, <1>6, <1>7 DEF HomeIInv

LEMMA WritesKeep ==
  ASSUME HomeIInv, NEW w \in RuleWrites,
         AddRule(w) \/ ImportRules(w) \/ ClearRules(w) \/ EditRule(w) \/ DeleteRule(w) \/ ReorderRules(w)
  PROVE  HomeIInv'
<1>1. cat \in Cats /\ Of(cat) \subseteq Rules /\ listed \subseteq Rules
  BY OfRules DEF HomeIInv, RulesTypeOK
<1>2. CASE AddRule(w)
  <2>1. PICK r \in Of(cat) : Writes(w, "add", {r})
    BY <1>2 DEF AddRule
  <2>2. {r} \in SUBSET Rules /\ {r} \subseteq Of(cat)
    BY <1>1
  <2> QED BY <2>1, <2>2, WriteBegins
<1>3. CASE ImportRules(w)
  <2>1. PICK rs \in SUBSET Of(cat) : Writes(w, "import", rs)
    BY <1>3 DEF ImportRules
  <2>2. rs \in SUBSET Rules /\ rs \subseteq Of(cat)
    BY <1>1
  <2> QED BY <2>1, <2>2, WriteBegins
<1>4. CASE ClearRules(w)
  <2>1. Writes(w, "clear", {}) /\ {} \in SUBSET Rules /\ {} \subseteq Of(cat)
    BY <1>4 DEF ClearRules
  <2> QED BY <2>1, WriteBegins
<1>5. CASE EditRule(w) \/ DeleteRule(w)
  <2>1. PICK r \in listed : Writes(w, "edit", {r}) \/ Writes(w, "delete", {r})
    BY <1>5 DEF EditRule, DeleteRule
  <2>2. {r} \in SUBSET Rules /\ {r} \subseteq listed
    BY <1>1
  <2> QED BY <2>1, <2>2, WriteBegins
<1>6. CASE ReorderRules(w)
  <2>1. Writes(w, "reorder", listed) /\ listed \in SUBSET Rules
    BY <1>1, <1>6 DEF ReorderRules
  <2> QED BY <2>1, WriteBegins
<1> QED BY <1>2, <1>3, <1>4, <1>5, <1>6

LEMMA WrittenKeeps == ASSUME HomeIInv, NEW w \in RuleWrites, RulesWritten(w) PROVE HomeIInv'
<1> DEFINE new == [rwrite[w] EXCEPT !.at = "back", !.rules = {}]
           fresh == Filed(rwrite[w])
<1>1. /\ rwrite[w] \in RuleWrite /\ rwrite[w].cat \in Cats /\ rwrite[w].rules \in SUBSET Rules
      /\ rwrite[w].at = "sent" /\ UNCHANGED <<cat, listed, modal, rread, crossed>>
  BY DEF RulesWritten, HomeIInv, RulesTypeOK, RuleWrite
<1>2. filed' = [filed EXCEPT ![rwrite[w].cat] = fresh] /\ rwrite' = [rwrite EXCEPT ![w] = new]
  BY <1>1 DEF RulesWritten, HomeIInv, RulesTypeOK
<1>3. new \in RuleWrite /\ new.cat = rwrite[w].cat /\ new.rules = {}
  BY <1>1 DEF RuleWrite
<1>4. fresh \subseteq filed[rwrite[w].cat] \cup rwrite[w].rules
  BY DEF Filed
<1> HIDE DEF new, fresh
<1>5. filed \in [Cats -> SUBSET Rules] /\ filed[rwrite[w].cat] \in SUBSET Rules
  BY <1>1 DEF HomeIInv, RulesTypeOK
<1>6. filed' \in [Cats -> SUBSET Rules]
  BY <1>1, <1>2, <1>4, <1>5
<1>7. rwrite' \in [RuleWrites -> RuleWrite] /\ rwrite'[w] = new /\ \A x \in RuleWrites \ {w} : rwrite'[x] = rwrite[x]
  BY <1>2, <1>3 DEF HomeIInv, RulesTypeOK
<1>8. RulesTypeOK'
  BY <1>1, <1>6, <1>7 DEF HomeIInv, RulesTypeOK
<1>9. ~crossed => /\ rwrite[w].cat = cat /\ rwrite[w].rules \subseteq Of(cat)
                  /\ \A c \in Cats : filed[c] \subseteq Of(c)
  BY <1>1 DEF HomeIInv
<1>10. ~crossed => \A c \in Cats : filed'[c] \subseteq Of(c)
  BY <1>1, <1>2, <1>4, <1>5, <1>9
<1>11. ReadingRules' <=> ReadingRules
  BY <1>1 DEF ReadingRules
<1> QED BY <1>1, <1>3, <1>7, <1>8, <1>9, <1>10, <1>11 DEF HomeIInv

LEMMA WriteGone ==
  ASSUME HomeIInv, NEW w \in RuleWrites, rwrite' = [rwrite EXCEPT ![w] = NoRuleWrite]
  PROVE  /\ rwrite' \in [RuleWrites -> RuleWrite] /\ rwrite'[w].at = "idle"
         /\ \A x \in RuleWrites \ {w} : rwrite'[x] = rwrite[x]
BY EmptyRules DEF HomeIInv, RulesTypeOK

\* A refused reorder brings back a list of the category it was sent for.
LEMMA WriteRefusedKeeps == ASSUME HomeIInv, NEW w \in RuleWrites, WriteRefused(w) PROVE HomeIInv'
<1>1. /\ rwrite[w] \in RuleWrite /\ rwrite[w].rules \in SUBSET Rules /\ rwrite[w].at = "sent"
      /\ UNCHANGED <<filed, cat, modal, rread, crossed>> /\ rwrite' = [rwrite EXCEPT ![w] = NoRuleWrite]
  BY DEF WriteRefused, HomeIInv, RulesTypeOK, RuleWrite
<1>2. /\ rwrite' \in [RuleWrites -> RuleWrite] /\ rwrite'[w].at = "idle"
      /\ \A x \in RuleWrites \ {w} : rwrite'[x] = rwrite[x]
  BY <1>1, WriteGone
<1>3. listed' \in SUBSET Rules
  BY <1>1 DEF WriteRefused, HomeIInv, RulesTypeOK
<1>4. ~crossed => ReadingRules \/ listed' \subseteq Of(cat)
  BY <1>1 DEF WriteRefused, HomeIInv
<1>5. RulesTypeOK' /\ (ReadingRules' <=> ReadingRules)
  BY <1>1, <1>2, <1>3 DEF HomeIInv, RulesTypeOK, ReadingRules
<1> QED BY <1>1, <1>2, <1>4, <1>5 DEF HomeIInv

LEMMA WriteDoneKeeps == ASSUME HomeIInv, NEW w \in RuleWrites, WriteDone(w) PROVE HomeIInv'
<1>1. /\ rwrite[w] \in RuleWrite /\ rwrite[w].cat \in Cats /\ rwrite[w].at = "back"
      /\ UNCHANGED <<filed, cat, listed, crossed>> /\ rwrite' = [rwrite EXCEPT ![w] = NoRuleWrite]
  BY DEF WriteDone, HomeIInv, RulesTypeOK, RuleWrite
<1>2. PICK l \in RuleReads : LoadRules(l, rwrite[w].cat)
  BY DEF WriteDone
<1>3. modal' \in Modals
  BY DEF WriteDone, HomeIInv, RulesTypeOK, Modals
<1>4. /\ rwrite' \in [RuleWrites -> RuleWrite] /\ rwrite'[w].at = "idle"
      /\ \A x \in RuleWrites \ {w} : rwrite'[x] = rwrite[x]
  BY <1>1, WriteGone
<1>5. RulesTypeOK' /\ ReadingRules'
  BY <1>1, <1>2, <1>3, <1>4, RuleReadBegins DEF HomeIInv, RulesTypeOK, ReadingRules
<1> QED BY <1>1, <1>2, <1>4, <1>5, RuleReadBegins DEF HomeIInv

\* The inductive invariant of the rules of MosDNS.
THEOREM HomeInductive == RulesSpec => []HomeIInv
<1>1. HomeIInv /\ [RulesNext]_rvars => HomeIInv'
  <2> SUFFICES ASSUME HomeIInv, [RulesNext]_rvars PROVE HomeIInv'
    OBVIOUS
  <2>1. CASE UNCHANGED rvars
    BY <2>1 DEF rvars, HomeIInv, RulesTypeOK, ReadingRules
  <2>2. CASE RulesNext
    BY <2>2, SelectKeeps, RefreshKeeps, RulesReadKeeps, RulesEndKeeps, ModalKeeps, WritesKeep,
       WrittenKeeps, WriteRefusedKeeps, WriteDoneKeeps DEF RulesNext
  <2> QED BY <2>1, <2>2
<1> QED BY <1>1, HomeBegins, PTL DEF RulesSpec

\* No rule gets into the file of another category, whatever is added, edited,
\* imported, reordered or refused, for any number of rules, reads and writes
\* (rules/page.tsx:206-222, 424-441; handlers_mosdns.go:683-742).
THEOREM RulesAreHome == RulesSpec => []RulesStayHome
<1>1. HomeIInv => RulesStayHome
  BY DEF HomeIInv, RulesStayHome
<1> QED BY <1>1, HomeInductive, PTL

-----------------------------------------------------------------------------
(***************************************************************************)
(* RuleSources.  As long as nobody changed the list under a request, the   *)
(* list it is to write back is the list there is, and the records it read  *)
(* say what that list says; and a request does to such a list what it was  *)
(* asked to do.                                                            *)
(***************************************************************************)
\* What an edit or an update still has to write back is in the list, as it is.
ReadTrue(c) ==
  /\ c.at = "write" => c.list = sources /\ c.item \subseteq c.left
  /\ c.at \in {"run", "write"} /\ c.what \in {"toggle", "edit", "update"} =>
       c.left \subseteq sources.has /\ c.snap = sources.on \cap c.left

RecordsIInv ==
  /\ SourcesTypeOK
  /\ ~mixedup => /\ sources = sasked /\ sources.on \subseteq sources.has
                 /\ \A o \in SourceOps : ReadTrue(ops[o])

LEMMA NoSourceOpTyped ==
  /\ NoSourceOp \in SourceOp /\ NoSourceOp.at = "idle" /\ NoSources \in Table
BY DEF NoSourceOp, SourceOp, NoSources, Table

LEMMA RecordsBegin == SourcesInit => RecordsIInv
<1> SUFFICES ASSUME SourcesInit PROVE RecordsIInv
  OBVIOUS
<1>1. SourcesTypeOK
  BY NoSourceOpTyped DEF SourcesInit, SourcesTypeOK
<1>2. \A o \in SourceOps : ReadTrue(ops[o])
  BY NoSourceOpTyped DEF SourcesInit, ReadTrue
<1> QED BY <1>1, <1>2 DEF SourcesInit, RecordsIInv

\* The list as it can be read is a list.
LEMMA ReadSourcesTyped == ASSUME RecordsIInv PROVE ReadSources \subseteq Table
BY NoSourceOpTyped DEF ReadSources, RecordsIInv, SourcesTypeOK

\* A step of one request that changes no list.
LEMMA RequestKeeps ==
  ASSUME RecordsIInv, NEW o \in SourceOps, NEW new \in SourceOp,
         ~mixedup' => ReadTrue(new),
         ops' = [ops EXCEPT ![o] = new], UNCHANGED <<sources, sasked>>,
         mixedup' \in BOOLEAN, mixedup => mixedup',
         sdialog' \in BOOLEAN, srows' \in Table
  PROVE  RecordsIInv'
<1>1. /\ ops' \in [SourceOps -> SourceOp] /\ ops'[o] = new
      /\ \A x \in SourceOps \ {o} : ops'[x] = ops[x]
  BY DEF RecordsIInv, SourcesTypeOK
<1>2. SourcesTypeOK'
  BY <1>1 DEF RecordsIInv, SourcesTypeOK
<1>3. ASSUME ~mixedup', NEW x \in SourceOps PROVE ReadTrue(ops[x])'
  <2>1. CASE x = o BY <1>1, <1>3, <2>1 DEF ReadTrue
  <2>2. CASE x # o BY <1>1, <1>3, <2>2 DEF RecordsIInv, ReadTrue
  <2> QED BY <2>1, <2>2
<1> QED BY <1>2, <1>3 DEF RecordsIInv

\* A request that holds nothing it has read.
LEMMA FreshKeeps ==
  ASSUME RecordsIInv, NEW o \in SourceOps, NEW new \in SourceOp, new.at \notin {"run", "write"},
         ops' = [ops EXCEPT ![o] = new], UNCHANGED <<sources, sasked, mixedup>>,
         sdialog' \in BOOLEAN, srows' \in Table
  PROVE  RecordsIInv'
<1>1. ReadTrue(new) BY DEF ReadTrue
<1>2. mixedup' \in BOOLEAN BY DEF RecordsIInv, SourcesTypeOK
<1> QED BY <1>1, <1>2, RequestKeeps

\* The controls of the page, and the answers.
LEMMA PageKeeps ==
  ASSUME RecordsIInv, NEW o \in SourceOps,
         \/ CreateSource(o) \/ ToggleSource(o) \/ EditSource(o) \/ DeleteSource(o)
         \/ UpdateSource(o) \/ UpdateSources(o)
  PROVE  RecordsIInv'
<1>1. srows \in Table /\ srows.has \subseteq Sources
  BY DEF RecordsIInv, SourcesTypeOK, Table
<1>2. sdialog' \in BOOLEAN
  BY DEF CreateSource, ToggleSource, EditSource, DeleteSource, UpdateSource, UpdateSources, RecordsIInv, SourcesTypeOK
<1>3. ASSUME NEW what \in {"create", "toggle", "edit", "delete", "update"}, NEW left \in SUBSET Sources,
             NEW to \in BOOLEAN, Requests(o, what, left, to)
      PROVE  RecordsIInv'
  <2> DEFINE new == [NoSourceOp EXCEPT !.at = "sent", !.what = what, !.left = left, !.to = to]
  <2>1. new \in SourceOp /\ new.at = "sent"
    BY NoSourceOpTyped DEF SourceOp
  <2>2. ops' = [ops EXCEPT ![o] = new] /\ UNCHANGED <<sources, srows, sasked, mixedup>>
    BY <1>3 DEF Requests
  <2> HIDE DEF new
  <2> QED BY <1>1, <1>2, <2>1, <2>2, FreshKeeps
<1>4. CASE CreateSource(o)
  BY <1>3, <1>4 DEF CreateSource
<1>5. CASE ToggleSource(o)
  <2>1. PICK s \in srows.has : Requests(o, "toggle", {s}, s \notin srows.on)
    BY <1>5 DEF ToggleSource
  <2> DEFINE to == s \notin srows.on
  <2>2. to \in BOOLEAN /\ {s} \in SUBSET Sources /\ Requests(o, "toggle", {s}, to)
    BY <1>1, <2>1
  <2> HIDE DEF to
  <2> QED BY <1>3, <2>2
<1>6. CASE EditSource(o) \/ DeleteSource(o) \/ UpdateSource(o)
  BY <1>1, <1>3, <1>6 DEF EditSource, DeleteSource, UpdateSource
<1>7. CASE UpdateSources(o)
  BY <1>3, <1>7 DEF UpdateSources
<1> QED BY <1>4, <1>5, <1>6, <1>7

LEMMA SourceAnswersKeep ==
  ASSUME RecordsIInv, NEW o \in SourceOps,
         SourceRefused(o) \/ SourceDone(o) \/ SourcesShown(o) \/ UpdateEnds(o)
  PROVE  RecordsIInv'
<1>1. /\ UNCHANGED <<sources, sasked, mixedup>> /\ ops[o] \in SourceOp
      /\ sdialog' \in BOOLEAN /\ srows' \in Table
  BY ReadSourcesTyped DEF SourceRefused, SourceDone, SourcesShown, UpdateEnds, RecordsIInv, SourcesTypeOK
<1>2. CASE ops' = [ops EXCEPT ![o] = NoSourceOp]
  <2>1. NoSourceOp.at \notin {"run", "write"}
    BY NoSourceOpTyped
  <2> QED BY <1>1, <1>2, <2>1, NoSourceOpTyped, FreshKeeps
<1>3. CASE ops' = [ops EXCEPT ![o] = [NoSourceOp EXCEPT !.at = "read"]]
  <2>1. [NoSourceOp EXCEPT !.at = "read"] \in SourceOp /\ [NoSourceOp EXCEPT !.at = "read"].at = "read"
    BY NoSourceOpTyped DEF SourceOp
  <2> QED BY <1>1, <1>3, <2>1, FreshKeeps
<1>4. CASE SourceMoves(o, "back")
  <2> DEFINE new == [NoSourceOp EXCEPT !.at = "back", !.what = ops[o].what]
  <2>1. new \in SourceOp /\ new.at = "back"
    BY <1>1, NoSourceOpTyped DEF SourceOp
  <2>2. ops' = [ops EXCEPT ![o] = new]
    BY <1>4 DEF SourceMoves
  <2> HIDE DEF new
  <2> QED BY <1>1, <2>1, <2>2, FreshKeeps
<1> QED BY <1>2, <1>3, <1>4 DEF SourceRefused, SourceDone, SourcesShown, UpdateEnds

LEMMA SourceDialogKeeps == ASSUME RecordsIInv, SourceDialog PROVE RecordsIInv'
<1>1. sdialog' \in BOOLEAN /\ UNCHANGED <<sources, srows, ops, sasked, mixedup>>
  BY DEF SourceDialog
<1> QED BY <1>1 DEF RecordsIInv, SourcesTypeOK, ReadTrue

LEMMA RecordsReadKeeps == ASSUME RecordsIInv, NEW o \in SourceOps, RecordsRead(o) PROVE RecordsIInv'
<1>1. /\ ops[o] \in SourceOp /\ ops[o].left \subseteq Sources /\ sources \in Table
      /\ UNCHANGED <<sources, srows, sdialog, sasked, mixedup>>
      /\ srows \in Table /\ sdialog \in BOOLEAN /\ mixedup \in BOOLEAN
  BY DEF RecordsRead, RecordsIInv, SourcesTypeOK, SourceOp
<1>2. PICK t \in ReadSources :
        LET left == IF ops[o].what = "create" THEN ops[o].left
                    ELSE IF ops[o].what = "update" /\ ops[o].to THEN t.on ELSE ops[o].left \cap t.has
        IN /\ ops[o].what = "update" \/ left # {}
           /\ ops' = [ops EXCEPT ![o] = [@ EXCEPT !.at = "run", !.left = left, !.snap = t.on \cap left]]
  BY DEF RecordsRead
<1> DEFINE left == IF ops[o].what = "create" THEN ops[o].left
                   ELSE IF ops[o].what = "update" /\ ops[o].to THEN t.on ELSE ops[o].left \cap t.has
           snap == t.on \cap left
           new == [ops[o] EXCEPT !.at = "run", !.left = left, !.snap = snap]
<1>3. t \in Table
  BY ReadSourcesTyped
<1>4. left \in SUBSET Sources /\ snap \in SUBSET Sources
  BY <1>1, <1>3 DEF Table
<1>5. ops' = [ops EXCEPT ![o] = new]
  BY <1>2 DEF RecordsIInv, SourcesTypeOK
<1>6. ASSUME ~mixedup, ops[o].what # "create"
      PROVE  left \subseteq sources.has /\ snap = sources.on \cap left
  <2>1. sources.on \subseteq sources.has BY <1>6 DEF RecordsIInv
  <2>2. CASE t = sources BY <1>6, <2>1, <2>2
  <2>3. CASE t = NoSources BY <1>6, <2>3 DEF NoSources
  <2> QED BY <2>2, <2>3 DEF ReadSources
<1> HIDE DEF left, snap
<1>7. /\ new \in SourceOp /\ new.at = "run" /\ new.left = left /\ new.snap = snap
      /\ new.what = ops[o].what
  BY <1>1, <1>4 DEF SourceOp
<1> HIDE DEF new
<1>8. ~mixedup' => ReadTrue(new)
  BY <1>1, <1>6, <1>7 DEF ReadTrue
<1> QED BY <1>1, <1>5, <1>7, <1>8, RequestKeeps

\* The list is read; while another request writes it, it is read too early.
LEMMA ListReadKeeps == ASSUME RecordsIInv, NEW o \in SourceOps, SourceListRead(o) PROVE RecordsIInv'
<1>1. /\ ops[o] \in SourceOp /\ ops[o].left \subseteq Sources /\ ops[o].at = "run"
      /\ UNCHANGED <<sources, srows, sdialog, sasked>>
      /\ srows \in Table /\ sdialog \in BOOLEAN /\ mixedup \in BOOLEAN
      /\ mixedup' = (mixedup \/ \E x \in SourceOps : ops[x].at = "write")
  BY DEF SourceListRead, RecordsIInv, SourcesTypeOK, SourceOp
<1>2. PICK s \in ops[o].left, t \in ReadSources :
        ops' = [ops EXCEPT ![o] = [@ EXCEPT !.at = "write", !.item = {s}, !.list = t]]
  BY DEF SourceListRead
<1> DEFINE new == [ops[o] EXCEPT !.at = "write", !.item = {s}, !.list = t]
<1>3. t \in Table /\ {s} \in SUBSET Sources
  BY <1>1, ReadSourcesTyped
<1>4. ops' = [ops EXCEPT ![o] = new]
  BY <1>2 DEF RecordsIInv, SourcesTypeOK
<1>5. /\ new \in SourceOp /\ new.at = "write" /\ new.item = {s} /\ new.list = t
      /\ new.what = ops[o].what /\ new.left = ops[o].left /\ new.snap = ops[o].snap
  BY <1>1, <1>3 DEF SourceOp
<1> HIDE DEF new
<1>6. ASSUME ~mixedup' PROVE ReadTrue(new)
  <2>1. ~mixedup /\ \A x \in SourceOps : ops[x].at # "write" BY <1>1, <1>6
  <2>2. t = sources BY <2>1 DEF ReadSources
  <2>3. ReadTrue(ops[o]) BY <2>1 DEF RecordsIInv
  <2> QED BY <1>1, <1>5, <2>2, <2>3 DEF ReadTrue
<1>7. mixedup' \in BOOLEAN /\ (mixedup => mixedup')
  BY <1>1
<1> QED BY <1>1, <1>4, <1>5, <1>6, <1>7, RequestKeeps

\* What is left of an update, or of another request, when one source is done.
LEMMA NextTyped ==
  ASSUME RecordsIInv, NEW o \in SourceOps, NEW s \in Sources, SourceNext(o, s)
  PROVE  \E new \in SourceOp :
           /\ ops' = [ops EXCEPT ![o] = new] /\ new.at \in {"run", "back"}
           /\ new.what = ops[o].what
           /\ new.at = "run" => /\ ops[o].what = "update"
                               /\ new.left = ops[o].left \ {s} /\ new.snap = ops[o].snap \ {s}
<1>1. ops[o] \in SourceOp /\ ops[o].left \ {s} \in SUBSET Sources /\ ops[o].snap \ {s} \in SUBSET Sources
      /\ ops \in [SourceOps -> SourceOp]
  BY DEF RecordsIInv, SourcesTypeOK, SourceOp
<1>2. CASE ops[o].what = "update"
  <2> DEFINE new == [ops[o] EXCEPT !.at = "run", !.left = ops[o].left \ {s}, !.snap = ops[o].snap \ {s},
                                   !.item = {}, !.list = NoSources]
  <2>1. /\ new \in SourceOp /\ new.at = "run" /\ new.what = ops[o].what
        /\ new.left = ops[o].left \ {s} /\ new.snap = ops[o].snap \ {s}
    BY <1>1, NoSourceOpTyped DEF SourceOp
  <2>2. ops' = [ops EXCEPT ![o] = new]
    BY <1>2 DEF SourceNext
  <2> HIDE DEF new
  <2> QED BY <1>2, <2>1, <2>2
<1>3. CASE ops[o].what # "update"
  <2> DEFINE new == [NoSourceOp EXCEPT !.at = "back", !.what = ops[o].what]
  <2>1. new \in SourceOp /\ new.at = "back" /\ new.what = ops[o].what
    BY <1>1, NoSourceOpTyped DEF SourceOp
  <2>2. ops' = [ops EXCEPT ![o] = new]
    BY <1>3 DEF SourceNext, SourceMoves
  <2> HIDE DEF new
  <2> QED BY <2>1, <2>2
<1> QED BY <1>2, <1>3

LEMMA SkippedKeeps == ASSUME RecordsIInv, NEW o \in SourceOps, SourceSkipped(o) PROVE RecordsIInv'
<1>1. /\ ops[o] \in SourceOp /\ ops[o].left \subseteq Sources /\ ops[o].what = "update"
      /\ UNCHANGED <<sources, srows, sdialog, sasked, mixedup>>
      /\ srows \in Table /\ sdialog \in BOOLEAN /\ mixedup \in BOOLEAN
  BY DEF SourceSkipped, RecordsIInv, SourcesTypeOK, SourceOp
<1>2. PICK s \in Sources : SourceNext(o, s) /\ ops[o].at \in {"run", "write"}
  BY <1>1 DEF SourceSkipped
<1>3. PICK new \in SourceOp :
        /\ ops' = [ops EXCEPT ![o] = new] /\ new.at \in {"run", "back"}
        /\ new.at = "run" => new.left = ops[o].left \ {s} /\ new.snap = ops[o].snap \ {s}
  BY <1>2, NextTyped
<1>4. ASSUME ~mixedup' PROVE ReadTrue(new)
  <2>1. ReadTrue(ops[o]) BY <1>1, <1>4 DEF RecordsIInv
  <2> QED BY <1>1, <1>2, <1>3, <2>1 DEF ReadTrue
<1> QED BY <1>1, <1>3, <1>4, RequestKeeps

\* A table with a source put in or taken out is a table; and to a true list a
\* request does what it was asked to do.
LEMMA PutTyped ==
  ASSUME NEW t \in Table, NEW s \in Sources, NEW b \in BOOLEAN
  PROVE  /\ PutSource(t, s, b) \in Table /\ DropSource(t, s) \in Table
         /\ t.on \subseteq t.has => /\ PutSource(t, s, b).on \subseteq PutSource(t, s, b).has
                                    /\ DropSource(t, s).on \subseteq DropSource(t, s).has
<1> DEFINE on == IF b THEN t.on \cup {s} ELSE t.on \ {s}
           has == t.has \cup {s}
<1>1. t.has \in SUBSET Sources /\ t.on \in SUBSET Sources BY DEF Table
<1>2. on \in SUBSET Sources /\ has \in SUBSET Sources /\ (t.on \subseteq t.has => on \subseteq has)
  BY <1>1
<1>3. PutSource(t, s, b) = [has |-> has, on |-> on] BY DEF PutSource
<1> HIDE DEF on, has
<1>4. PutSource(t, s, b) \in Table /\ PutSource(t, s, b).on = on /\ PutSource(t, s, b).has = has
  BY <1>2, <1>3 DEF Table
<1>5. /\ DropSource(t, s) \in Table
      /\ DropSource(t, s).on = t.on \ {s} /\ DropSource(t, s).has = t.has \ {s}
  BY <1>1 DEF DropSource, Table
<1> QED BY <1>2, <1>4, <1>5

LEMMA ListsTyped ==
  ASSUME NEW c \in SourceOp, NEW s \in Sources, NEW t \in Table
  PROVE  WrittenList(c, s) \in Table /\ WantedList(c, t, s) \in Table
<1>1. c.list \in Table /\ c.to \in BOOLEAN /\ (s \in c.snap) \in BOOLEAN /\ TRUE \in BOOLEAN
      /\ c.what \in {"create", "toggle", "edit", "delete", "update"}
  BY DEF SourceOp
<1>2. WrittenList(c, s) \in Table
  <2>1. /\ PutSource(c.list, s, TRUE) \in Table /\ PutSource(c.list, s, c.to) \in Table
        /\ DropSource(c.list, s) \in Table /\ PutSource(c.list, s, s \in c.snap) \in Table
    BY <1>1, PutTyped
  <2> QED BY <1>1, <2>1 DEF WrittenList
<1>3. WantedList(c, t, s) \in Table
  <2>1. /\ PutSource(t, s, TRUE) \in Table /\ PutSource(t, s, c.to) \in Table /\ DropSource(t, s) \in Table
    BY <1>1, PutTyped
  <2> QED BY <1>1, <2>1 DEF WantedList
<1> QED BY <1>2, <1>3

LEMMA TrueListWritten ==
  ASSUME NEW c \in SourceOp, NEW s \in Sources, NEW t \in Table, c.list = t, t.on \subseteq t.has,
         c.what \in {"toggle", "edit", "update"} => s \in t.has /\ (s \in c.snap <=> s \in t.on)
  PROVE  WrittenList(c, s) = WantedList(c, t, s) /\ WrittenList(c, s).on \subseteq WrittenList(c, s).has
<1>1. c.to \in BOOLEAN /\ (s \in c.snap) \in BOOLEAN /\ TRUE \in BOOLEAN
      /\ c.what \in {"create", "toggle", "edit", "delete", "update"}
  BY DEF SourceOp
<1>2. CASE c.what = "create"
  <2>1. PutSource(t, s, TRUE).on \subseteq PutSource(t, s, TRUE).has BY <1>1, PutTyped
  <2> QED BY <1>2, <2>1 DEF WrittenList, WantedList
<1>3. CASE c.what = "toggle"
  <2>1. PutSource(t, s, c.to).on \subseteq PutSource(t, s, c.to).has BY <1>1, PutTyped
  <2> QED BY <1>3, <2>1 DEF WrittenList, WantedList
<1>4. CASE c.what = "delete"
  <2>1. DropSource(t, s).on \subseteq DropSource(t, s).has BY <1>1, PutTyped
  <2> QED BY <1>4, <2>1 DEF WrittenList, WantedList
<1>5. CASE c.what \in {"edit", "update"}
  <2>1. t.has \cup {s} = t.has /\ (IF s \in c.snap THEN t.on \cup {s} ELSE t.on \ {s}) = t.on
    BY <1>5
  <2>2. PutSource(t, s, s \in c.snap) = [has |-> t.has, on |-> t.on]
    BY <2>1 DEF PutSource
  <2>3. [has |-> t.has, on |-> t.on] = t
    BY DEF Table
  <2>4. WrittenList(c, s) = t /\ WantedList(c, t, s) = t
    BY <1>5, <2>2, <2>3 DEF WrittenList, WantedList
  <2> QED BY <2>4
<1> QED BY <1>1, <1>2, <1>3, <1>4, <1>5

\* A write that changes the list is what was asked for, and leaves true what
\* the others have read, unless they hold what it changed.
LEMMA SourceWrittenKeeps == ASSUME RecordsIInv, NEW o \in SourceOps, SourceListWritten(o) PROVE RecordsIInv'
<1>1. /\ ops[o] \in SourceOp /\ ops[o].left \subseteq Sources /\ ops[o].item \subseteq Sources
      /\ sources \in Table /\ sasked \in Table /\ mixedup \in BOOLEAN /\ ops[o].at = "write"
      /\ UNCHANGED <<srows, sdialog>>
  BY DEF SourceListWritten, RecordsIInv, SourcesTypeOK, SourceOp
<1>2. PICK s \in ops[o].item :
        /\ sources' = WrittenList(ops[o], s)
        /\ sasked' = WantedList(ops[o], sasked, s)
        /\ mixedup' = (mixedup \/ (sources' # sources /\ \E x \in SourceOps \ {o} : HoldsSource(ops[x], s)))
        /\ SourceNext(o, s)
  BY DEF SourceListWritten
<1>3. s \in Sources BY <1>1
<1>4. PICK new \in SourceOp :
        /\ ops' = [ops EXCEPT ![o] = new] /\ new.at \in {"run", "back"}
        /\ new.what = ops[o].what
        /\ new.at = "run" => /\ ops[o].what = "update"
                            /\ new.left = ops[o].left \ {s} /\ new.snap = ops[o].snap \ {s}
  BY <1>2, <1>3, NextTyped
<1>5. /\ ops' \in [SourceOps -> SourceOp] /\ ops'[o] = new
      /\ \A x \in SourceOps \ {o} : ops'[x] = ops[x]
  BY <1>4 DEF RecordsIInv, SourcesTypeOK
<1>6. sources' \in Table /\ sasked' \in Table
  BY <1>1, <1>2, <1>3, ListsTyped
<1>7. SourcesTypeOK'
  BY <1>1, <1>2, <1>5, <1>6 DEF RecordsIInv, SourcesTypeOK
<1>8. ASSUME ~mixedup'
      PROVE  /\ sources' = sasked' /\ sources'.on \subseteq sources'.has
             /\ \A x \in SourceOps : ReadTrue(ops[x])'
  <2>1. /\ ~mixedup /\ sources = sasked /\ sources.on \subseteq sources.has
        /\ \A x \in SourceOps : ReadTrue(ops[x])
    BY <1>2, <1>8 DEF RecordsIInv
  <2>2. /\ ops[o].list = sources /\ s \in ops[o].left
        /\ ops[o].what \in {"toggle", "edit", "update"} =>
             ops[o].left \subseteq sources.has /\ ops[o].snap = sources.on \cap ops[o].left
    BY <1>1, <1>2, <2>1 DEF ReadTrue
  <2>3. sources' = WantedList(ops[o], sources, s) /\ sources'.on \subseteq sources'.has
    BY <1>1, <1>2, <1>3, <2>1, <2>2, TrueListWritten
  <2>4. sources' = sasked' BY <1>2, <2>1, <2>3
  <2>5. sources'.has \ {s} = sources.has \ {s} /\ sources'.on \ {s} = sources.on \ {s}
    BY <2>3 DEF WantedList, PutSource, DropSource
  <2>6. ASSUME ops[o].what = "update" PROVE sources' = sources
    BY <2>3, <2>6 DEF WantedList
  <2>7. ASSUME NEW x \in SourceOps PROVE ReadTrue(ops[x])'
    <3>1. CASE x = o
      <4>1. CASE new.at = "back" BY <1>5, <3>1, <4>1 DEF ReadTrue
      <4>2. CASE new.at = "run"
        <5>1. sources' = sources /\ new.left \subseteq sources.has /\ new.snap = sources.on \cap new.left
          BY <1>4, <2>2, <2>6, <4>2
        <5> QED BY <1>5, <3>1, <4>2, <5>1 DEF ReadTrue
      <4> QED BY <1>4, <4>1, <4>2
    <3>2. CASE x # o
      <4>1. ops'[x] = ops[x] BY <1>5, <3>2
      <4>2. CASE sources' = sources BY <2>1, <4>1, <4>2 DEF ReadTrue
      <4>3. CASE ~HoldsSource(ops[x], s)
        <5>1. ops[x].at # "write" BY <4>3 DEF HoldsSource
        <5>2. ASSUME ops[x].at = "run", ops[x].what \in {"toggle", "edit", "update"}
              PROVE  ops[x].left \subseteq sources'.has /\ ops[x].snap = sources'.on \cap ops[x].left
          <6>1. s \notin ops[x].left BY <4>3, <5>2 DEF HoldsSource
          <6>2. ops[x].left \subseteq sources.has /\ ops[x].snap = sources.on \cap ops[x].left
            BY <2>1, <5>2 DEF ReadTrue
          <6> QED BY <2>5, <6>1, <6>2
        <5> QED BY <4>1, <5>1, <5>2 DEF ReadTrue
      <4> QED BY <1>2, <1>8, <3>2, <4>2, <4>3
    <3> QED BY <3>1, <3>2
  <2> QED BY <2>3, <2>4, <2>7
<1> QED BY <1>7, <1>8 DEF RecordsIInv

\* The inductive invariant of the rule sources.
THEOREM RecordsInductive == SourcesSpec => []RecordsIInv
<1>1. RecordsIInv /\ [SourcesNext]_srcvars => RecordsIInv'
  <2> SUFFICES ASSUME RecordsIInv, [SourcesNext]_srcvars PROVE RecordsIInv'
    OBVIOUS
  <2>1. CASE UNCHANGED srcvars
    BY <2>1 DEF srcvars, RecordsIInv, SourcesTypeOK, ReadTrue
  <2>2. CASE SourcesNext
    BY <2>2, PageKeeps, SourceAnswersKeep, SourceDialogKeeps, RecordsReadKeeps, ListReadKeeps, SourceWrittenKeeps,
       SkippedKeeps DEF SourcesNext
  <2> QED BY <2>1, <2>2
<1> QED BY <1>1, RecordsBegin, PTL DEF SourcesSpec

\* The sources are those, and are on or off, as was asked for: an update, however
\* long it downloads and whether it fails, an edit or a switch brings nothing
\* back, as long as the list is not changed, or being written, between what it
\* reads and what it writes (mosdns_rule_sources.go:58-267, 396-413).
THEOREM SourcesAreAsAsked == SourcesSpec => []SourcesAsAsked
<1>1. RecordsIInv => SourcesAsAsked
  BY DEF RecordsIInv, SourcesAsAsked
<1> QED BY <1>1, RecordsInductive, PTL

-----------------------------------------------------------------------------
(***************************************************************************)
(* ProcessPage.  A service the page is wrong about is still busy: its      *)
(* action was served and the list that tells is not here yet.              *)
(***************************************************************************)
ToldOf == \A d \in Daemons : services[d] = up[d] \/ busyWith[d] \in {"answered", "listing"}
\* Nothing is listed yet, and nothing can be asked for.
NotYetTold ==
  /\ \A d \in Daemons : busyWith[d] = "no" /\ services[d] = "missing"
  /\ \E l \in DaemonReads : dread[l].at # "idle" /\ dread[l].alone
\* What an undisturbed list is about to tell.
WillTell(l) ==
  dread[l].at = "back" /\ dread[l].alone =>
    \A d \in Daemons : dread[l].got[d] = up[d] \/ busyWith[d] = "answered"

ListIInv ==
  /\ ProcessTypeOK
  /\ ~drifted => ToldOf \/ NotYetTold
  /\ \A l \in DaemonReads : WillTell(l)
  /\ \A l \in DaemonReads : \A d \in dread[l].for : busyWith[d] = "listing"
  /\ \A l, x \in DaemonReads : l # x => dread[l].for \cap dread[x].for = {}

LEMMA NoDaemonReadTyped ==
  /\ NoDaemonRead \in DaemonRead /\ NoDaemonRead.at = "idle" /\ NoDaemonRead.for = {}
  /\ NoDaemonRead.alone = FALSE /\ NoDaemonRead.got \in [Daemons -> DaemonState]
BY DEF NoDaemonRead, DaemonRead, DaemonState

LEMMA ListBegins == ProcessInit => ListIInv
<1> SUFFICES ASSUME ProcessInit PROVE ListIInv
  OBVIOUS
<1> DEFINE first == [NoDaemonRead EXCEPT !.at = "sent", !.alone = TRUE]
<1>1. first \in DaemonRead /\ first.at = "sent" /\ first.for = {}
  BY NoDaemonReadTyped DEF DaemonRead
<1>2. dread = [l \in DaemonReads |-> IF l = CHOOSE x \in DaemonReads : TRUE THEN first ELSE NoDaemonRead]
  BY DEF ProcessInit
<1> HIDE DEF first
<1>3. dread \in [DaemonReads -> DaemonRead] /\ \A l \in DaemonReads : dread[l].for = {} /\ dread[l].at # "back"
  BY <1>1, <1>2, NoDaemonReadTyped
<1>4. ProcessTypeOK
  BY <1>3, NoDaemonReadTyped DEF ProcessInit, ProcessTypeOK
<1>5. NotYetTold
  <2>1. (CHOOSE x \in DaemonReads : TRUE) \in DaemonReads
    BY ReadsAssumption
  <2>2. first.alone = TRUE
    BY NoDaemonReadTyped DEF first, DaemonRead
  <2>3. \A d \in Daemons : services[d] = "missing" /\ busyWith[d] = "no"
    BY DEF ProcessInit, NoDaemonRead
  <2> QED BY <1>1, <1>2, <2>1, <2>2, <2>3 DEF NotYetTold
<1> QED BY <1>3, <1>4, <1>5 DEF ListIInv, WillTell

\* A list that begins: the others are no longer undisturbed.
LEMMA LoadTakes ==
  ASSUME ListIInv, NEW l \in DaemonReads, NEW waiting \in SUBSET Daemons, LoadServices(l, waiting)
  PROVE  /\ dread' \in [DaemonReads -> DaemonRead] /\ dread'[l].at = "sent" /\ dread'[l].for = waiting
         /\ \A x \in DaemonReads \ {l} : dread'[x].for = dread[x].for /\ ~dread'[x].alone
<1> DEFINE b == ~Listing
           new == [NoDaemonRead EXCEPT !.at = "sent", !.alone = b, !.for = waiting]
           Other(x) == [dread[x] EXCEPT !.alone = FALSE]
<1>1. b \in BOOLEAN /\ dread \in [DaemonReads -> DaemonRead]
  BY DEF ListIInv, ProcessTypeOK
<1>2. dread' = [x \in DaemonReads |-> IF x = l THEN new ELSE Other(x)]
  BY DEF LoadServices
<1> HIDE DEF b
<1>3. new \in DaemonRead /\ new.at = "sent" /\ new.for = waiting
  BY <1>1, NoDaemonReadTyped DEF DaemonRead
<1>4. ASSUME NEW x \in DaemonReads
      PROVE  Other(x) \in DaemonRead /\ Other(x).for = dread[x].for /\ Other(x).alone = FALSE
  BY <1>1 DEF DaemonRead
<1> HIDE DEF new, Other
<1> QED BY <1>2, <1>3, <1>4

LEMMA RefreshListKeeps == ASSUME ListIInv, NEW l \in DaemonReads, Refresh(l) PROVE ListIInv'
<1>1. LoadServices(l, {}) /\ ~Listing /\ UNCHANGED <<up, services, busyWith, drifted>>
  BY DEF Refresh
<1>2. /\ dread' \in [DaemonReads -> DaemonRead] /\ dread'[l].at = "sent" /\ dread'[l].for = {}
      /\ \A x \in DaemonReads \ {l} : dread'[x].for = dread[x].for /\ ~dread'[x].alone
  BY <1>1, LoadTakes
<1>3. ~drifted => ToldOf'
  BY <1>1 DEF ListIInv, NotYetTold, Listing, ToldOf
<1> QED BY <1>1, <1>2, <1>3 DEF ListIInv, ProcessTypeOK, WillTell

LEMMA ListServicesKeeps == ASSUME ListIInv, NEW l \in DaemonReads, ListServices(l) PROVE ListIInv'
<1> DEFINE new == [dread[l] EXCEPT !.at = "back", !.got = up]
<1>1. /\ dread \in [DaemonReads -> DaemonRead] /\ dread[l] \in DaemonRead /\ up \in [Daemons -> DaemonState]
      /\ dread[l].at = "sent" /\ UNCHANGED <<up, services, busyWith, drifted>>
  BY DEF ListServices, ListIInv, ProcessTypeOK
<1>2. dread' = [dread EXCEPT ![l] = new]
  BY <1>1 DEF ListServices
<1>3. /\ new \in DaemonRead /\ new.at = "back" /\ new.got = up /\ new.for = dread[l].for
      /\ new.alone = dread[l].alone
  BY <1>1 DEF DaemonRead
<1> HIDE DEF new
<1>4. dread' \in [DaemonReads -> DaemonRead] /\ dread'[l] = new /\ \A x \in DaemonReads \ {l} : dread'[x] = dread[x]
  BY <1>1, <1>2, <1>3
<1>5. NotYetTold => NotYetTold'
  BY <1>1, <1>3, <1>4 DEF NotYetTold
<1>6. ToldOf => ToldOf'
  BY <1>1 DEF ToldOf
<1>7. ~drifted' => ToldOf' \/ NotYetTold'
  BY <1>1, <1>5, <1>6 DEF ListIInv
<1>8. \A x \in DaemonReads : WillTell(x)'
  BY <1>1, <1>3, <1>4 DEF ListIInv, WillTell
<1>9. \A x \in DaemonReads : dread'[x].for = dread[x].for
  BY <1>3, <1>4
<1> QED BY <1>1, <1>4, <1>7, <1>8, <1>9 DEF ListIInv, ProcessTypeOK

\* A list that is over frees those that waited for it, and nobody else.
LEMMA FreedOnly ==
  ASSUME ListIInv, NEW l \in DaemonReads, busyWith' = Freed(l)
  PROVE  /\ busyWith' \in [Daemons -> {"no", "start", "stop", "restart", "answered", "listing"}]
         /\ \A d \in Daemons : busyWith[d] # "listing" => busyWith'[d] = busyWith[d]
         /\ \A x \in DaemonReads \ {l} : \A d \in dread[x].for : busyWith'[d] = "listing"
<1>1. \A x \in DaemonReads : dread[x].for \subseteq Daemons
  BY DEF ListIInv, ProcessTypeOK, DaemonRead
<1> QED BY <1>1 DEF ListIInv, ProcessTypeOK, Freed

LEMMA ListedKeeps == ASSUME ListIInv, NEW l \in DaemonReads, ServicesListed(l) PROVE ListIInv'
<1>1. /\ dread \in [DaemonReads -> DaemonRead] /\ dread[l] \in DaemonRead /\ dread[l].at = "back"
      /\ services' = dread[l].got /\ dread[l].got \in [Daemons -> DaemonState] /\ up' = up
      /\ busyWith' = Freed(l) /\ dread' = [dread EXCEPT ![l] = NoDaemonRead]
  BY DEF ServicesListed, ListIInv, ProcessTypeOK, DaemonRead
<1>2. drifted' = ~dread[l].alone
  BY DEF ServicesListed
<1>3. drifted' \in BOOLEAN
  BY <1>2
<1>4. /\ dread' \in [DaemonReads -> DaemonRead] /\ dread'[l].at = "idle" /\ dread'[l].for = {}
      /\ \A x \in DaemonReads \ {l} : dread'[x] = dread[x]
  BY <1>1, NoDaemonReadTyped
<1>5. ProcessTypeOK'
  BY <1>1, <1>3, <1>4, FreedOnly DEF ListIInv, ProcessTypeOK
<1>6. ~drifted' => ToldOf'
  BY <1>1, <1>2, FreedOnly DEF ListIInv, WillTell, ToldOf
<1>7. \A x \in DaemonReads : WillTell(x)'
  BY <1>1, <1>4, FreedOnly DEF ListIInv, WillTell
<1>8. \A x \in DaemonReads : \A d \in dread'[x].for : busyWith'[d] = "listing"
  BY <1>1, <1>4, FreedOnly
<1>9. \A x, y \in DaemonReads : x # y => dread'[x].for \cap dread'[y].for = {}
  BY <1>4 DEF ListIInv
<1> QED BY <1>5, <1>6, <1>7, <1>8, <1>9 DEF ListIInv

\* The reads that go on are no longer undisturbed.
LEMMA Disturbed ==
  ASSUME ListIInv, NEW R \in SUBSET DaemonReads,
         dread' = [x \in DaemonReads |-> IF x \in R THEN NoDaemonRead ELSE [dread[x] EXCEPT !.alone = FALSE]]
  PROVE  /\ dread' \in [DaemonReads -> DaemonRead]
         /\ \A x \in DaemonReads : ~dread'[x].alone /\ dread'[x].for = IF x \in R THEN {} ELSE dread[x].for
<1> DEFINE Other(x) == [dread[x] EXCEPT !.alone = FALSE]
<1>1. ASSUME NEW x \in DaemonReads
      PROVE  Other(x) \in DaemonRead /\ Other(x).for = dread[x].for /\ Other(x).alone = FALSE
  BY DEF ListIInv, ProcessTypeOK, DaemonRead
<1>2. dread' = [x \in DaemonReads |-> IF x \in R THEN NoDaemonRead ELSE Other(x)]
  OBVIOUS
<1> HIDE DEF Other
<1> QED BY <1>1, <1>2, NoDaemonReadTyped

LEMMA NotListedKeeps == ASSUME ListIInv, NEW l \in DaemonReads, ServicesNotListed(l) PROVE ListIInv'
<1>1. /\ busyWith' = Freed(l) /\ drifted' = TRUE /\ UNCHANGED <<up, services>>
      /\ dread' = [x \in DaemonReads |-> IF x \in {l} THEN NoDaemonRead ELSE [dread[x] EXCEPT !.alone = FALSE]]
  BY DEF ServicesNotListed
<1>2. /\ dread' \in [DaemonReads -> DaemonRead]
      /\ \A x \in DaemonReads : ~dread'[x].alone /\ dread'[x].for = IF x \in {l} THEN {} ELSE dread[x].for
  BY <1>1, Disturbed
<1>3. ProcessTypeOK'
  BY <1>1, <1>2, FreedOnly DEF ListIInv, ProcessTypeOK
<1>4. \A x \in DaemonReads : \A d \in dread'[x].for : busyWith'[d] = "listing"
  BY <1>1, <1>2, FreedOnly
<1>5. \A x, y \in DaemonReads : x # y => dread'[x].for \cap dread'[y].for = {}
  BY <1>2 DEF ListIInv
<1> QED BY <1>1, <1>2, <1>3, <1>4, <1>5 DEF ListIInv, WillTell

LEMMA RunKeeps ==
  ASSUME ListIInv, NEW d \in Daemons, NEW restart \in BOOLEAN, RunAction(d, restart) PROVE ListIInv'
<1>1. /\ busyWith[d] = "no" /\ services[d] # "missing" /\ UNCHANGED <<up, services, dread, drifted>>
      /\ \E b \in {"start", "stop", "restart"} : busyWith' = [busyWith EXCEPT ![d] = b]
  BY DEF RunAction
<1>2. /\ busyWith' \in [Daemons -> {"no", "start", "stop", "restart", "answered", "listing"}]
      /\ \A x \in Daemons : busyWith[x] \in {"answered", "listing"} => busyWith'[x] = busyWith[x]
  BY <1>1 DEF ListIInv, ProcessTypeOK
<1>3. ~drifted' => ToldOf'
  BY <1>1, <1>2 DEF ListIInv, NotYetTold, ToldOf
<1>4. \A l \in DaemonReads : dread[l].for \subseteq Daemons
  BY DEF ListIInv, ProcessTypeOK, DaemonRead
<1> QED BY <1>1, <1>2, <1>3, <1>4 DEF ListIInv, ProcessTypeOK, WillTell

LEMMA ServedKeeps == ASSUME ListIInv, NEW d \in Daemons, ActionServed(d) PROVE ListIInv'
<1>1. /\ busyWith[d] \in {"start", "stop", "restart"} /\ UNCHANGED <<services, dread, drifted>>
      /\ busyWith' = [busyWith EXCEPT ![d] = "answered"]
  BY DEF ActionServed
<1>2. PICK s \in Outcome(d) : up' = [up EXCEPT ![d] = s]
  BY DEF ActionServed
<1>3. s \in DaemonState
  BY DEF Outcome, ListIInv, ProcessTypeOK, DaemonState
<1>4. /\ up' \in [Daemons -> DaemonState] /\ \A x \in Daemons \ {d} : up'[x] = up[x]
      /\ busyWith' \in [Daemons -> {"no", "start", "stop", "restart", "answered", "listing"}]
      /\ busyWith'[d] = "answered" /\ \A x \in Daemons \ {d} : busyWith'[x] = busyWith[x]
  BY <1>1, <1>2, <1>3 DEF ListIInv, ProcessTypeOK
<1>5. ~drifted' => ToldOf'
  BY <1>1, <1>4 DEF ListIInv, NotYetTold, ToldOf
<1>6. \A l \in DaemonReads : dread[l].for \subseteq Daemons
  BY DEF ListIInv, ProcessTypeOK, DaemonRead
<1>7. \A l \in DaemonReads : WillTell(l)'
  BY <1>1, <1>4 DEF ListIInv, WillTell
<1>8. \A l \in DaemonReads : \A x \in dread'[l].for : busyWith'[x] = "listing"
  BY <1>1, <1>4, <1>6 DEF ListIInv
<1> QED BY <1>1, <1>4, <1>5, <1>7, <1>8 DEF ListIInv, ProcessTypeOK

LEMMA ActionAnsweredKeeps == ASSUME ListIInv, NEW d \in Daemons, ActionAnswered(d) PROVE ListIInv'
<1>1. /\ busyWith[d] = "answered" /\ UNCHANGED <<up, services, drifted>>
      /\ busyWith' = [busyWith EXCEPT ![d] = "listing"]
  BY DEF ActionAnswered
<1>2. PICK l \in DaemonReads : LoadServices(l, {d})
  BY DEF ActionAnswered
<1>3. /\ dread' \in [DaemonReads -> DaemonRead] /\ dread'[l].at = "sent" /\ dread'[l].for = {d}
      /\ \A x \in DaemonReads \ {l} : dread'[x].for = dread[x].for /\ ~dread'[x].alone
  BY <1>2, LoadTakes
<1>4. /\ busyWith' \in [Daemons -> {"no", "start", "stop", "restart", "answered", "listing"}]
      /\ busyWith'[d] = "listing" /\ \A x \in Daemons \ {d} : busyWith'[x] = busyWith[x]
  BY <1>1 DEF ListIInv, ProcessTypeOK
<1>5. ~drifted' => ToldOf'
  BY <1>1, <1>4 DEF ListIInv, NotYetTold, ToldOf
<1>6. \A x \in DaemonReads : dread[x].for \subseteq Daemons /\ d \notin dread[x].for
  BY <1>1 DEF ListIInv, ProcessTypeOK, DaemonRead
<1>7. \A x \in DaemonReads : WillTell(x)'
  BY <1>3 DEF WillTell
<1>8. \A x \in DaemonReads : \A e \in dread'[x].for : busyWith'[e] = "listing"
  BY <1>3, <1>4, <1>6 DEF ListIInv
<1>9. \A x, y \in DaemonReads : x # y => dread'[x].for \cap dread'[y].for = {}
  BY <1>3, <1>6 DEF ListIInv
<1> QED BY <1>1, <1>3, <1>4, <1>5, <1>7, <1>8, <1>9 DEF ListIInv, ProcessTypeOK

LEMMA DriftKeeps == ASSUME ListIInv, NEW d \in Daemons, ActionLost(d) \/ MovesByItself(d) PROVE ListIInv'
<1> DEFINE R == {}
<1>1. /\ drifted' = TRUE /\ services' = services /\ R \in SUBSET DaemonReads
      /\ dread' = [x \in DaemonReads |-> IF x \in R THEN NoDaemonRead ELSE [dread[x] EXCEPT !.alone = FALSE]]
  BY DEF ActionLost, MovesByItself, Drifts
<1> HIDE DEF R
<1>2. /\ dread' \in [DaemonReads -> DaemonRead]
      /\ \A x \in DaemonReads : ~dread'[x].alone /\ dread'[x].for = IF x \in R THEN {} ELSE dread[x].for
  BY <1>1, Disturbed
<1>3. up' \in [Daemons -> DaemonState]
  BY DEF ActionLost, MovesByItself, ListIInv, ProcessTypeOK, DaemonState
<1>4. /\ busyWith' \in [Daemons -> {"no", "start", "stop", "restart", "answered", "listing"}]
      /\ \A x \in Daemons : busyWith[x] = "listing" => busyWith'[x] = "listing"
  BY DEF ActionLost, MovesByItself, ListIInv, ProcessTypeOK
<1>5. \A x \in DaemonReads : dread[x].for \subseteq Daemons
  BY DEF ListIInv, ProcessTypeOK, DaemonRead
<1>6. ProcessTypeOK'
  BY <1>1, <1>2, <1>3, <1>4 DEF ListIInv, ProcessTypeOK
<1> QED BY <1>1, <1>2, <1>4, <1>5, <1>6 DEF ListIInv, WillTell

\* The inductive invariant of the page of the processes.
THEOREM ListInductive == ProcessSpec => []ListIInv
<1>1. ListIInv /\ [ProcessNext]_procvars => ListIInv'
  <2> SUFFICES ASSUME ListIInv, [ProcessNext]_procvars PROVE ListIInv'
    OBVIOUS
  <2>1. CASE UNCHANGED procvars
    BY <2>1 DEF procvars, ListIInv, ProcessTypeOK, ToldOf, NotYetTold, WillTell
  <2>2. CASE ProcessNext
    BY <2>2, RefreshListKeeps, ListServicesKeeps, ListedKeeps, NotListedKeeps, RunKeeps, ServedKeeps,
       ActionAnsweredKeeps, DriftKeeps DEF ProcessNext
  <2> QED BY <2>1, <2>2
<1> QED BY <1>1, ListBegins, PTL DEF ProcessSpec

\* The page at rest lists every service as it is, however the actions on any
\* number of them interleaved and whichever failed, since the last list that
\* was read alone (process/page.tsx:58-99).
THEOREM ListTellsTheTruth == ProcessSpec => []ServicesAsListed
<1>1. ListIInv => ServicesAsListed
  <2> SUFFICES ASSUME ListIInv, ~drifted, ProcessQuiet PROVE services = up
    BY DEF ServicesAsListed
  <2>1. \A d \in Daemons : services[d] = up[d]
    BY DEF ListIInv, ToldOf, NotYetTold, ProcessQuiet, Listing
  <2> QED BY <2>1 DEF ListIInv, ProcessTypeOK
<1> QED BY <1>1, ListInductive, PTL

-----------------------------------------------------------------------------
(***************************************************************************)
(* MihomoRules.  Whatever is on its way - in the text, in a save, in a load*)
(* that was answered - lacks only what was taken out; and a text that is   *)
(* not what the server has is about to be read again.                      *)
(***************************************************************************)
LacksOnly(t) == \A e \in RuleEntries : t[e] = "absent" => e \in removed
OneLoad == \A l, x \in ConfigLoads : cload[l].at # "idle" /\ cload[x].at # "idle" => l = x

EntriesIInv ==
  /\ MihomoRulesTypeOK
  /\ ~reckless =>
       /\ OneLoad /\ LacksOnly(ruleset)
       /\ arrived => LacksOnly(ruletext)
       /\ csave.at = "sent" => LacksOnly(csave.text)
       /\ \A l \in ConfigLoads :
            /\ cload[l].at = "back" =>
                 LacksOnly(cload[l].got) /\ (cload[l].got = ruleset \/ csave.at = "stored")
            /\ cload[l].at # "idle" /\ cload[l].after => csave.at = "reading"
       /\ arrived /\ ~typed => ruletext = ruleset \/ LoadingConfig \/ csave.at \in {"stored", "reading"}

LEMMA NoRulesTyped == NoRules \in RuleSections
BY DEF NoRules, RuleSections

LEMMA SectionsAreDrafts == RuleSections \subseteq RuleDrafts
BY DEF RuleSections, RuleDrafts

LEMMA NoConfigTyped ==
  NoConfigLoad \in ConfigLoad /\ NoConfigLoad.at = "idle" /\ NoConfigSave \in ConfigSave /\ NoConfigSave.at = "idle"
BY NoRulesTyped DEF NoConfigLoad, ConfigLoad, NoConfigSave, ConfigSave

\* What a save leaves out of a text has no name there, or the name of another.
LEMMA OnlyOverlooked ==
  ASSUME NEW t \in RuleDrafts, NEW s \in SerializedRules(t), NEW e \in RuleEntries, s[e] = "absent"
  PROVE  t[e] = "absent" \/ e \in Overlooked(t)
<1> SUFFICES ASSUME t[e] # "absent", t[e] # "nameless"
             PROVE  \E x \in RuleEntries \ {e} : t[x] = t[e] /\ t[e] \in RuleNames
  BY DEF Overlooked
<1>1. t[e] \in RuleNames
  BY DEF RuleDrafts
<1>2. PICK x \in RuleEntries : s[x] = t[e]
  BY <1>1 DEF SerializedRules
<1>3. s[x] = t[x]
  BY <1>2 DEF SerializedRules
<1> QED BY <1>1, <1>2, <1>3

LEMMA EntriesBegin == MihomoRulesInit => EntriesIInv
<1> SUFFICES ASSUME MihomoRulesInit PROVE EntriesIInv
  OBVIOUS
<1>1. MihomoRulesTypeOK
  BY NoConfigTyped, NoRulesTyped, SectionsAreDrafts DEF MihomoRulesInit, MihomoRulesTypeOK, RuleTabs
<1>2. \A l \in ConfigLoads : cload[l].at = "idle"
  BY NoConfigTyped DEF MihomoRulesInit
<1> QED BY <1>1, <1>2, NoConfigTyped DEF MihomoRulesInit, EntriesIInv, OneLoad, LacksOnly

\* A load that begins while none is out, or the history is reckless.
LEMMA ConfigLoadBegins ==
  ASSUME EntriesIInv, NEW l \in ConfigLoads, NEW after \in BOOLEAN, LoadRulesConfig(l, after)
  PROVE  /\ cload' \in [ConfigLoads -> ConfigLoad] /\ reckless' \in BOOLEAN
         /\ cload'[l].at = "sent" /\ cload'[l].after = after /\ LoadingConfig'
         /\ ~reckless' => ~reckless /\ \A x \in ConfigLoads \ {l} : cload'[x].at = "idle"
<1> DEFINE new == [NoConfigLoad EXCEPT !.at = "sent", !.after = after]
<1>1. new \in ConfigLoad /\ new.at = "sent" /\ new.after = after
  BY NoConfigTyped DEF ConfigLoad
<1>2. cload' = [cload EXCEPT ![l] = new] /\ cload \in [ConfigLoads -> ConfigLoad]
  BY DEF LoadRulesConfig, EntriesIInv, MihomoRulesTypeOK
<1> HIDE DEF new
<1>3. cload' \in [ConfigLoads -> ConfigLoad] /\ cload'[l] = new /\ \A x \in ConfigLoads \ {l} : cload'[x] = cload[x]
  BY <1>1, <1>2
<1>4. reckless' = (reckless \/ LoadingConfig)
  BY DEF LoadRulesConfig
<1>5. reckless' \in BOOLEAN
  BY <1>4 DEF EntriesIInv, MihomoRulesTypeOK
<1> QED BY <1>1, <1>3, <1>4, <1>5 DEF LoadingConfig

LEMMA RulesTabKeeps == ASSUME EntriesIInv, NEW t \in RuleTabs, ChooseTab(t) PROVE EntriesIInv'
<1>1. UNCHANGED <<ruleset, ruletext, arrived, typed, broken, csave, removed>> /\ rtab' \in RuleTabs
  BY DEF ChooseTab
<1>2. CASE \E l \in ConfigLoads : LoadRulesConfig(l, FALSE)
  <2>1. PICK l \in ConfigLoads : LoadRulesConfig(l, FALSE)
    BY <1>2
  <2>2. /\ cload' \in [ConfigLoads -> ConfigLoad] /\ reckless' \in BOOLEAN
        /\ cload'[l].at = "sent" /\ cload'[l].after = FALSE /\ LoadingConfig'
        /\ ~reckless' => ~reckless /\ \A x \in ConfigLoads \ {l} : cload'[x].at = "idle"
    BY <2>1, ConfigLoadBegins
  <2>3. MihomoRulesTypeOK'
    BY <1>1, <2>2 DEF EntriesIInv, MihomoRulesTypeOK
  <2> QED BY <1>1, <2>2, <2>3 DEF EntriesIInv, OneLoad, LacksOnly
<1>3. CASE UNCHANGED <<cload, reckless>>
  BY <1>1, <1>3 DEF EntriesIInv, MihomoRulesTypeOK, OneLoad, LacksOnly, LoadingConfig
<1> QED BY <1>2, <1>3 DEF ChooseTab

LEMMA ReadBackKeeps == ASSUME EntriesIInv, RulesConfigSaved PROVE EntriesIInv'
<1>1. UNCHANGED <<ruleset, rtab, ruletext, arrived, typed, broken, removed>> /\ csave' = [csave EXCEPT !.at = "reading"]
  BY DEF RulesConfigSaved
<1>2. csave' \in ConfigSave /\ csave'.at = "reading"
  BY <1>1 DEF EntriesIInv, MihomoRulesTypeOK, ConfigSave
<1>3. PICK l \in ConfigLoads : LoadRulesConfig(l, TRUE)
  BY DEF RulesConfigSaved
<1>4. /\ cload' \in [ConfigLoads -> ConfigLoad] /\ reckless' \in BOOLEAN
      /\ cload'[l].at = "sent" /\ cload'[l].after = TRUE /\ LoadingConfig'
      /\ ~reckless' => ~reckless /\ \A x \in ConfigLoads \ {l} : cload'[x].at = "idle"
  BY <1>3, ConfigLoadBegins
<1>5. MihomoRulesTypeOK'
  BY <1>1, <1>2, <1>4 DEF EntriesIInv, MihomoRulesTypeOK
<1> QED BY <1>1, <1>2, <1>4, <1>5 DEF EntriesIInv, OneLoad, LacksOnly

LEMMA ConfigReadKeeps == ASSUME EntriesIInv, NEW l \in ConfigLoads, RulesConfigRead(l) PROVE EntriesIInv'
<1> DEFINE new == [cload[l] EXCEPT !.at = "back", !.got = ruleset]
<1>1. /\ cload \in [ConfigLoads -> ConfigLoad] /\ cload[l] \in ConfigLoad /\ ruleset \in RuleSections
      /\ cload[l].at = "sent"
      /\ UNCHANGED <<ruleset, rtab, ruletext, arrived, typed, broken, csave, removed, reckless>>
  BY DEF RulesConfigRead, EntriesIInv, MihomoRulesTypeOK
<1>2. cload' = [cload EXCEPT ![l] = new]
  BY <1>1 DEF RulesConfigRead
<1>3. new \in ConfigLoad /\ new.at = "back" /\ new.got = ruleset /\ new.after = cload[l].after
  BY <1>1 DEF ConfigLoad
<1> HIDE DEF new
<1>4. cload' \in [ConfigLoads -> ConfigLoad] /\ cload'[l] = new /\ \A x \in ConfigLoads \ {l} : cload'[x] = cload[x]
  BY <1>1, <1>2, <1>3
<1>5. LoadingConfig' /\ MihomoRulesTypeOK'
  BY <1>1, <1>3, <1>4 DEF EntriesIInv, MihomoRulesTypeOK, LoadingConfig
<1>6. ~reckless => OneLoad'
  BY <1>1, <1>3, <1>4 DEF EntriesIInv, OneLoad
<1> QED BY <1>1, <1>3, <1>4, <1>5, <1>6 DEF EntriesIInv, LacksOnly

LEMMA ConfigEndKeeps ==
  ASSUME EntriesIInv, NEW l \in ConfigLoads, RulesConfigShown(l) \/ RulesConfigNotRead(l)
  PROVE  EntriesIInv'
<1>1. /\ cload \in [ConfigLoads -> ConfigLoad] /\ cload[l] \in ConfigLoad /\ cload[l].at # "idle"
      /\ cload' = [cload EXCEPT ![l] = NoConfigLoad]
      /\ csave' = IF cload[l].after THEN NoConfigSave ELSE csave
      /\ UNCHANGED <<ruleset, rtab, removed>>
  BY DEF RulesConfigShown, RulesConfigNotRead, ConfigLoadEnds, EntriesIInv, MihomoRulesTypeOK
<1>2. /\ cload' \in [ConfigLoads -> ConfigLoad] /\ cload'[l].at = "idle"
      /\ \A x \in ConfigLoads \ {l} : cload'[x] = cload[x]
  BY <1>1, NoConfigTyped
<1>3. csave' \in ConfigSave
  BY <1>1, NoConfigTyped DEF EntriesIInv, MihomoRulesTypeOK
<1>4. CASE RulesConfigNotRead(l)
  BY <1>1, <1>2, <1>3, <1>4 DEF RulesConfigNotRead, EntriesIInv, MihomoRulesTypeOK
<1>5. CASE RulesConfigShown(l)
  <2>1. /\ cload[l].at = "back" /\ ruletext' = cload[l].got /\ arrived' = TRUE /\ typed' = FALSE
        /\ broken' = {} /\ reckless' = reckless
    BY <1>5 DEF RulesConfigShown
  <2>2. MihomoRulesTypeOK'
    BY <1>1, <1>2, <1>3, <2>1, SectionsAreDrafts DEF EntriesIInv, MihomoRulesTypeOK, ConfigLoad
  <2>3. ASSUME ~reckless
        PROVE  /\ \A x \in ConfigLoads : cload'[x].at = "idle"
               /\ LacksOnly(ruleset)' /\ LacksOnly(ruletext)'
               /\ csave'.at = "sent" => LacksOnly(csave.text)' /\ csave' = csave
               /\ ruletext' = ruleset' \/ csave'.at \in {"stored", "reading"}
    <3>1. \A x \in ConfigLoads : cload'[x].at = "idle"
      BY <1>1, <1>2, <2>3 DEF EntriesIInv, OneLoad
    <3>2. LacksOnly(cload[l].got) /\ (cload[l].got = ruleset \/ csave.at = "stored") /\ LacksOnly(ruleset)
      BY <2>1, <2>3 DEF EntriesIInv
    <3>3. cload[l].after => csave.at = "reading"
      BY <2>1, <2>3 DEF EntriesIInv
    <3>4. LacksOnly(ruleset)' /\ LacksOnly(ruletext)'
      BY <1>1, <2>1, <3>2 DEF LacksOnly
    <3>5. csave'.at = "sent" => LacksOnly(csave.text)' /\ csave' = csave
      <4> SUFFICES ASSUME csave'.at = "sent" PROVE LacksOnly(csave.text)' /\ csave' = csave
        OBVIOUS
      <4>1. csave' = csave
        BY <1>1, NoConfigTyped
      <4> QED BY <1>1, <2>3, <4>1 DEF EntriesIInv, LacksOnly
    <3>6. ruletext' = ruleset' \/ csave'.at \in {"stored", "reading"}
      BY <1>1, <2>1, <3>2, <3>3
    <3> QED BY <3>1, <3>4, <3>5, <3>6
  <2> QED BY <2>1, <2>2, <2>3 DEF EntriesIInv, OneLoad
<1> QED BY <1>4, <1>5

\* What is typed: what it lacks more was taken out.
LEMMA TypingKeeps ==
  ASSUME EntriesIInv, NEW e \in RuleEntries,
         \/ AddEntry(e) \/ RemoveEntry(e) \/ TypeAdvanced(e)
         \/ \E n \in RuleNames \cup {"nameless"} : NameEntry(e, n)
  PROVE  EntriesIInv'
<1>1. UNCHANGED <<ruleset, rtab, arrived, cload, csave, reckless>> /\ typed' = TRUE
  BY DEF TypeAdvanced, AddEntry, NameEntry, RemoveEntry
<1>2. /\ ruletext \in RuleDrafts /\ removed \in SUBSET RuleEntries /\ broken \in SUBSET RuleEntries
  BY DEF EntriesIInv, MihomoRulesTypeOK
<1>3. /\ removed' \in SUBSET RuleEntries /\ removed \subseteq removed' /\ broken' \in SUBSET RuleEntries
  BY <1>2 DEF TypeAdvanced, AddEntry, NameEntry, RemoveEntry
<1>4. /\ ruletext' \in RuleDrafts
      /\ \A x \in RuleEntries : ruletext'[x] = "absent" => ruletext[x] = "absent" \/ x \in removed'
  <2>1. CASE AddEntry(e)
    BY <1>2, <2>1 DEF AddEntry, RuleDrafts
  <2>2. CASE RemoveEntry(e)
    BY <1>2, <2>2 DEF RemoveEntry, RuleDrafts
  <2>3. CASE TypeAdvanced(e)
    BY <1>2, <2>3 DEF TypeAdvanced
  <2>4. ASSUME NEW n \in RuleNames \cup {"nameless"}, NameEntry(e, n)
        PROVE  /\ ruletext' \in RuleDrafts
               /\ \A x \in RuleEntries : ruletext'[x] = "absent" => ruletext[x] = "absent" \/ x \in removed'
    <3>1. ruletext' = [ruletext EXCEPT ![e] = n] /\ n # "absent"
      BY <2>4, RuleNamesAssumption DEF NameEntry, RuleNamesAssumption
    <3> QED BY <1>2, <3>1 DEF RuleDrafts
  <2> QED BY <2>1, <2>2, <2>3, <2>4
<1>5. LacksOnly(ruletext) => LacksOnly(ruletext)'
  BY <1>3, <1>4 DEF LacksOnly
<1>6. MihomoRulesTypeOK'
  BY <1>1, <1>3, <1>4 DEF EntriesIInv, MihomoRulesTypeOK
<1>7. LacksOnly(ruleset) => LacksOnly(ruleset)'
  BY <1>1, <1>3 DEF LacksOnly
<1>8. LacksOnly(csave.text) => LacksOnly(csave.text)'
  BY <1>1, <1>3 DEF LacksOnly
<1>9. \A l \in ConfigLoads : LacksOnly(cload[l].got) => LacksOnly(cload[l].got)'
  BY <1>1, <1>3 DEF LacksOnly
<1> QED BY <1>1, <1>5, <1>6, <1>7, <1>8, <1>9 DEF EntriesIInv, OneLoad

\* What is sent lacks of the text what has no name there or that of another.
LEMMA SavingKeeps == ASSUME EntriesIInv, SaveRulesConfig PROVE EntriesIInv'
<1>1. /\ csave.at = "idle" /\ removed' = removed \cup Overlooked(ruletext)
      /\ UNCHANGED <<ruleset, rtab, ruletext, arrived, typed, broken, cload>>
      /\ reckless' = (reckless \/ ~arrived \/ LoadingConfig)
  BY DEF SaveRulesConfig
<1>2. PICK s \in SerializedRules(ruletext) : csave' = [at |-> "sent", text |-> s]
  BY DEF SaveRulesConfig
<1>3. s \in RuleSections /\ Overlooked(ruletext) \subseteq RuleEntries
  BY DEF SerializedRules, Overlooked
<1>4. csave' \in ConfigSave /\ csave'.at = "sent" /\ csave'.text = s
  BY <1>2, <1>3 DEF ConfigSave
<1>5. reckless' \in BOOLEAN
  BY <1>1 DEF EntriesIInv, MihomoRulesTypeOK
<1>6. MihomoRulesTypeOK'
  BY <1>1, <1>3, <1>4, <1>5 DEF EntriesIInv, MihomoRulesTypeOK
<1>7. ~reckless' => ~reckless /\ arrived /\ \A l \in ConfigLoads : cload[l].at = "idle"
  BY <1>1 DEF LoadingConfig
<1>8. LacksOnly(ruletext) => LacksOnly(s)'
  <2>1. ruletext \in RuleDrafts
    BY DEF EntriesIInv, MihomoRulesTypeOK
  <2>2. \A e \in RuleEntries : s[e] = "absent" => ruletext[e] = "absent" \/ e \in Overlooked(ruletext)
    BY <2>1, OnlyOverlooked
  <2> QED BY <1>1, <2>2 DEF LacksOnly
<1>9. ~reckless => LacksOnly(ruleset)' /\ OneLoad' /\ (arrived => LacksOnly(ruletext)')
  BY <1>1 DEF EntriesIInv, LacksOnly, OneLoad
<1>10. LacksOnly(csave.text)' <=> LacksOnly(s)'
  BY <1>4 DEF LacksOnly
<1>11. ~reckless' => LacksOnly(ruletext)
  BY <1>7 DEF EntriesIInv
<1>12. ~reckless' => (typed \/ ruletext = ruleset)
  BY <1>1, <1>7 DEF EntriesIInv, LoadingConfig
<1> QED BY <1>1, <1>4, <1>6, <1>7, <1>8, <1>9, <1>10, <1>11, <1>12 DEF EntriesIInv

LEMMA PutRulesKeeps == ASSUME EntriesIInv, RulesConfigPut \/ RulesAnswerLost PROVE EntriesIInv'
<1>1. csave.at = "sent" /\ UNCHANGED <<rtab, ruletext, arrived, typed, broken, cload, removed>>
  BY DEF RulesConfigPut, RulesAnswerLost
<1>2. CASE /\ ruleset' = csave.text
           /\ \/ csave' = [NoConfigSave EXCEPT !.at = "stored"] /\ reckless' = reckless
              \/ csave' = NoConfigSave /\ reckless' = (reckless \/ ~typed \/ LoadingConfig)
  <2>1. /\ csave' \in ConfigSave /\ csave'.at \in {"stored", "idle"} /\ csave.text \in RuleSections
        /\ csave'.at = "idle" /\ ~reckless' => typed /\ ~LoadingConfig
        /\ ~reckless' => ~reckless
    <3>1. csave.text \in RuleSections /\ {reckless, typed} \subseteq BOOLEAN
      BY DEF EntriesIInv, MihomoRulesTypeOK, ConfigSave
    <3>2. CASE csave' = [NoConfigSave EXCEPT !.at = "stored"] /\ reckless' = reckless
      BY <3>1, <3>2, NoConfigTyped DEF ConfigSave
    <3>3. CASE csave' = NoConfigSave /\ reckless' = (reckless \/ ~typed \/ LoadingConfig)
      BY <3>1, <3>3, NoConfigTyped
    <3> QED BY <1>2, <3>2, <3>3
  <2>2. reckless' \in BOOLEAN
    BY <1>2 DEF EntriesIInv, MihomoRulesTypeOK
  <2>3. MihomoRulesTypeOK'
    BY <1>1, <1>2, <2>1, <2>2 DEF EntriesIInv, MihomoRulesTypeOK
  <2>4. ~reckless => \A l \in ConfigLoads : cload[l].at # "idle" => ~cload[l].after
    BY <1>1 DEF EntriesIInv
  <2>5. ~reckless => LacksOnly(ruleset)'
    BY <1>1, <1>2 DEF EntriesIInv, LacksOnly
  <2>6. ~reckless => \A l \in ConfigLoads : cload[l].at = "back" => LacksOnly(cload[l].got)'
    BY <1>1 DEF EntriesIInv, LacksOnly
  <2>7. ~reckless => OneLoad' /\ (arrived => LacksOnly(ruletext)')
    BY <1>1 DEF EntriesIInv, LacksOnly, OneLoad
  <2>8. csave'.at = "idle" /\ ~reckless' => \A l \in ConfigLoads : cload'[l].at = "idle"
    BY <1>1, <2>1 DEF LoadingConfig
  <2>9. ASSUME ~reckless', NEW l \in ConfigLoads
        PROVE  /\ cload'[l].at = "back" =>
                    LacksOnly(cload[l].got)' /\ (cload'[l].got = ruleset' \/ csave'.at = "stored")
               /\ cload'[l].at # "idle" /\ cload'[l].after => csave'.at = "reading"
    BY <1>1, <2>1, <2>4, <2>6, <2>8, <2>9
  <2>10. ~reckless' /\ arrived' /\ ~typed' => csave'.at = "stored"
    BY <1>1, <2>1
  <2> QED BY <1>1, <2>1, <2>3, <2>5, <2>7, <2>9, <2>10 DEF EntriesIInv
<1>3. CASE csave' = NoConfigSave /\ UNCHANGED <<ruleset, reckless>>
  <2>1. csave' \in ConfigSave /\ csave'.at = "idle"
    BY <1>3, NoConfigTyped
  <2>2. MihomoRulesTypeOK'
    BY <1>1, <1>3, <2>1 DEF EntriesIInv, MihomoRulesTypeOK
  <2> QED BY <1>1, <1>3, <2>1, <2>2 DEF EntriesIInv, LacksOnly, OneLoad, LoadingConfig
<1> QED BY <1>2, <1>3 DEF RulesConfigPut, RulesAnswerLost

\* The inductive invariant of the rules of Mihomo.
THEOREM EntriesInductive == MihomoRulesSpec => []EntriesIInv
<1>1. EntriesIInv /\ [MihomoRulesNext]_mrvars => EntriesIInv'
  <2> SUFFICES ASSUME EntriesIInv, [MihomoRulesNext]_mrvars PROVE EntriesIInv'
    OBVIOUS
  <2>1. CASE UNCHANGED mrvars
    BY <2>1 DEF mrvars, EntriesIInv, MihomoRulesTypeOK, OneLoad, LacksOnly, LoadingConfig
  <2>2. CASE MihomoRulesNext
    BY <2>2, RulesTabKeeps, ReadBackKeeps, ConfigReadKeeps, ConfigEndKeeps, TypingKeeps, SavingKeeps, PutRulesKeeps
    DEF MihomoRulesNext
  <2> QED BY <2>1, <2>2
<1> QED BY <1>1, EntriesBegin, PTL DEF MihomoRulesSpec

\* No entry leaves config.yaml that was not taken out of the text, left nameless or
\* given the name of another, and a text at rest that nobody edited is what the
\* server has, for any rules and providers and whatever they are called
\* (mihomo/rules/page.tsx:169-184, 222-258).
THEOREM NoEntryIsLost == MihomoRulesSpec => []EntriesKept
<1>1. EntriesIInv => EntriesKept
  BY DEF EntriesIInv, EntriesKept, LacksOnly
<1> QED BY <1>1, EntriesInductive, PTL

-----------------------------------------------------------------------------
(***************************************************************************)
(* MosdnsSystem.  While a load is out nothing else is; otherwise the page  *)
(* is what the server has, but for what a call in flight says and what an  *)
(* answer told wrongly; and whatever is shown or sent lacks only upstreams *)
(* that were taken out.                                                    *)
(***************************************************************************)
OnItsWay(c) == scall[c].at # "idle"
NoCallFor(what) == \A c \in SysCalls : OnItsWay(c) => scall[c].what # what
LacksGone(t) == \A u \in Upstreams : t[u] = "none" => u \in gone
\* What a call in flight says of the page and of the server.
CallSays(c) ==
  OnItsWay(c) =>
    /\ scall[c].what = "table" =>
         /\ scall[c].ups = spage.ups /\ "table" \notin saveall.out
         /\ scall[c].at = "ok" /\ "table" \notin untrue => sys.ups = spage.ups
    /\ scall[c].what = "flag" =>
         /\ spage.flag = scall[c].val
         /\ "flag" \notin untrue => IF scall[c].at = "ok" THEN sys.flag = scall[c].val
                                    ELSE sys.flag = ~scall[c].val
    /\ scall[c].what = "mode" =>
         /\ spage.mode = scall[c].val
         /\ scall[c].at = "ok" /\ "mode" \notin untrue => sys.mode = scall[c].val

InStep ==
  /\ SysReading => (\A c \in SysCalls : ~OnItsWay(c)) /\ saveall.out = {}
  /\ \A l \in SysReads : sread[l].at = "back" => sread[l].got = sys
  /\ \A c, d \in SysCalls : OnItsWay(c) /\ OnItsWay(d) /\ scall[c].what = scall[d].what => c = d
  /\ \A c \in SysCalls : CallSays(c)
  /\ saveall.at \in {"restart", "load"} => saveall.out = {}
  /\ "table" \in saveall.out => saveall.ups = spage.ups
  /\ ~SysReading => /\ LacksGone(spage.ups)
                    /\ NoCallFor("table") /\ "table" \notin untrue => spage.ups = sys.ups
                    /\ NoCallFor("flag") /\ "flag" \notin untrue => spage.flag = sys.flag
                    /\ NoCallFor("mode") /\ "mode" \notin untrue => spage.mode = sys.mode
  /\ LacksGone(sys.ups)

SystemIInv == SystemTypeOK /\ (~muddled => InStep)

LEMMA BlankTyped ==
  /\ Blank \in Kept /\ Blank.ups \in UpstreamTable
  /\ NoSysRead \in SysRead /\ NoSysRead.at = "idle" /\ NoSysCall \in SysCall /\ NoSysCall.at = "idle"
  /\ NoBatch \in Batch /\ NoBatch.out = {} /\ NoBatch.at = "idle" /\ NoBatch.ups = Blank.ups
<1>1. Blank \in Kept /\ Blank.ups \in UpstreamTable
  BY DEF Blank, Kept, UpstreamTable
<1> QED BY <1>1 DEF NoSysRead, SysRead, NoSysCall, SysCall, NoBatch, Batch

LEMMA SystemBegins == SystemInit => SystemIInv
<1> SUFFICES ASSUME SystemInit PROVE SystemIInv
  OBVIOUS
<1> DEFINE first == [NoSysRead EXCEPT !.at = "sent"]
<1>1. first \in SysRead /\ first.at = "sent"
  BY BlankTyped DEF SysRead
<1>2. sread = [l \in SysReads |-> IF l = CHOOSE x \in SysReads : TRUE THEN first ELSE NoSysRead]
  BY DEF SystemInit
<1> HIDE DEF first
<1>3. sread \in [SysReads -> SysRead] /\ \A l \in SysReads : sread[l].at # "back"
  BY <1>1, <1>2, BlankTyped
<1>4. SysReading
  <2>1. (CHOOSE x \in SysReads : TRUE) \in SysReads
    BY SysReadsAssumption
  <2> QED BY <1>1, <1>2, <2>1 DEF SysReading
<1>5. PICK t \in UpstreamTable : sys = [Blank EXCEPT !.ups = t]
  BY DEF SystemInit
<1>6. sys \in Kept /\ sys.ups = t
  BY <1>5, BlankTyped DEF Kept
<1>7. LacksGone(sys.ups)
  BY DEF SystemInit, LacksGone, Present
<1>8. \A c \in SysCalls : ~OnItsWay(c)
  BY BlankTyped DEF SystemInit, OnItsWay
<1>9. SystemTypeOK
  BY <1>3, <1>6, BlankTyped DEF SystemInit, SystemTypeOK
<1> QED BY <1>3, <1>4, <1>7, <1>8, <1>9, BlankTyped DEF SystemInit, SystemIInv, InStep, CallSays

\* A call is sent, and the page already shows what it says.
LEMMA SysSendKeeps ==
  ASSUME SystemIInv, NEW c \in SysCalls, NEW what \in {"table", "flag", "mode", "capacity", "task"},
         NEW val \in BOOLEAN, NEW pg \in Kept, SysSends(c, what, val, pg),
         gone' \in SUBSET Upstreams, gone \subseteq gone',
         \A u \in Upstreams : pg.ups[u] = "none" => spage.ups[u] = "none" \/ u \in gone',
         what # "table" => pg.ups = spage.ups,
         what # "flag" => pg.flag = spage.flag,
         what # "mode" => pg.mode = spage.mode,
         what = "flag" => pg.flag = val /\ spage.flag = ~val,
         what = "mode" => pg.mode = val
  PROVE  SystemIInv'
<1> DEFINE new == [at |-> "sent", what |-> what, val |-> val, ups |-> IF what = "table" THEN pg.ups ELSE Blank.ups]
<1>1. /\ spage' = pg /\ muddled' = (muddled \/ SysReading \/ Sent(what)) /\ UNCHANGED <<sys, loaded, sread, saveall, untrue>>
      /\ scall' = [scall EXCEPT ![c] = new] /\ scall[c].at = "idle"
  BY DEF SysSends
<1>2. /\ new \in SysCall /\ new.at = "sent" /\ new.what = what /\ new.val = val
      /\ what = "table" => new.ups = pg.ups
  BY BlankTyped DEF SysCall, Kept
<1> HIDE DEF new
<1>3. scall' \in [SysCalls -> SysCall] /\ scall'[c] = new /\ \A x \in SysCalls \ {c} : scall'[x] = scall[x]
  BY <1>1, <1>2 DEF SystemIInv, SystemTypeOK
<1>4. muddled' \in BOOLEAN
  BY <1>1 DEF SystemIInv, SystemTypeOK
<1>5. SystemTypeOK'
  BY <1>1, <1>3, <1>4 DEF SystemIInv, SystemTypeOK
<1>6. ASSUME ~muddled' PROVE InStep'
  <2>1. /\ ~SysReading /\ ~SysReading' /\ InStep /\ what \notin saveall.out /\ ~OnItsWay(c)
        /\ \A x \in SysCalls : OnItsWay(x) => scall[x].what # what
    BY <1>1, <1>6 DEF SystemIInv, Sent, SysReading, OnItsWay
  <2>2. /\ OnItsWay(c)' /\ \A x \in SysCalls \ {c} : OnItsWay(x)' <=> OnItsWay(x)
    BY <1>2, <1>3 DEF OnItsWay
  <2>3. \A x, y \in SysCalls : OnItsWay(x)' /\ OnItsWay(y)' /\ scall'[x].what = scall'[y].what => x = y
    BY <1>2, <1>3, <2>1, <2>2 DEF InStep
  <2>4. LacksGone(spage.ups)' /\ LacksGone(sys.ups)'
    BY <1>1, <2>1 DEF InStep, LacksGone
  <2>5. ASSUME NEW k \in {"table", "flag", "mode"}, NoCallFor(k)' PROVE k # what /\ NoCallFor(k)
    BY <1>2, <1>3, <2>1, <2>2, <2>5 DEF NoCallFor
  <2>6. /\ NoCallFor("table")' /\ "table" \notin untrue' => spage'.ups = sys'.ups
        /\ NoCallFor("flag")' /\ "flag" \notin untrue' => spage'.flag = sys'.flag
        /\ NoCallFor("mode")' /\ "mode" \notin untrue' => spage'.mode = sys'.mode
    BY <1>1, <2>1, <2>5 DEF InStep
  <2>7. ASSUME NEW x \in SysCalls, x # c PROVE CallSays(x)'
    <3>1. CallSays(x) /\ scall'[x] = scall[x] /\ (OnItsWay(x) => scall[x].what # what)
      BY <1>3, <2>1, <2>7 DEF InStep
    <3> QED BY <1>1, <2>2, <3>1 DEF CallSays, OnItsWay
  <2>8. CallSays(c)'
    <3>1. what = "flag" /\ "flag" \notin untrue => sys.flag = ~val
      BY <2>1 DEF InStep, NoCallFor
    <3> QED BY <1>1, <1>2, <1>3, <2>1, <3>1 DEF CallSays
  <2>9. "table" \in saveall'.out => saveall'.ups = spage'.ups
    BY <1>1, <2>1 DEF InStep
  <2>10. \A l \in SysReads : sread'[l].at = "back" => sread'[l].got = sys'
    BY <1>1, <2>1 DEF InStep
  <2> QED BY <1>1, <2>1, <2>3, <2>4, <2>6, <2>7, <2>8, <2>9, <2>10 DEF InStep
<1> QED BY <1>5, <1>6 DEF SystemIInv


\* The changes of the table send it whole.
LEMMA TableKeeps ==
  ASSUME SystemIInv, NEW c \in SysCalls, NEW t \in UpstreamTable, PersistGroups(c, t),
         gone' \in SUBSET Upstreams, gone \subseteq gone',
         \A u \in Upstreams : t[u] = "none" => spage.ups[u] = "none" \/ u \in gone'
  PROVE  SystemIInv'
<1> DEFINE pg == [spage EXCEPT !.ups = t]
<1>1. pg \in Kept /\ pg.ups = t /\ pg.flag = spage.flag /\ pg.mode = spage.mode
  BY DEF SystemIInv, SystemTypeOK, Kept
<1>2. SysSends(c, "table", FALSE, pg)
  BY DEF PersistGroups
<1> HIDE DEF pg
<1> QED BY <1>1, <1>2, SysSendKeeps

LEMMA ServersKeep ==
  ASSUME SystemIInv, NEW c \in SysCalls, NEW u \in Upstreams,
         \/ ToggleServer(c, u) \/ DeleteServer(c, u) \/ AddServer(c, u)
         \/ \E w \in Upstreams : EditServer(c, u, w)
  PROVE  SystemIInv'
<1>1. spage.ups \in UpstreamTable /\ gone \in SUBSET Upstreams
  BY DEF SystemIInv, SystemTypeOK, Kept
<1>2. CASE ToggleServer(c, u)
  <2> DEFINE t == [spage.ups EXCEPT ![u] = Flip(@)]
  <2>1. t \in UpstreamTable /\ \A v \in Upstreams : t[v] = "none" => spage.ups[v] = "none"
    BY <1>1, <1>2 DEF UpstreamTable, Flip, ToggleServer
  <2>2. PersistGroups(c, t) /\ gone' = gone
    BY <1>2 DEF ToggleServer
  <2> HIDE DEF t
  <2> QED BY <1>1, <2>1, <2>2, TableKeeps
<1>3. CASE DeleteServer(c, u)
  <2> DEFINE t == [spage.ups EXCEPT ![u] = "none"]
  <2>1. t \in UpstreamTable /\ \A v \in Upstreams : t[v] = "none" => spage.ups[v] = "none" \/ v \in gone \cup {u}
    BY <1>1 DEF UpstreamTable
  <2>2. PersistGroups(c, t) /\ gone' = gone \cup {u}
    BY <1>3 DEF DeleteServer
  <2> HIDE DEF t
  <2> QED BY <1>1, <2>1, <2>2, TableKeeps
<1>4. CASE AddServer(c, u)
  <2> DEFINE t == [spage.ups EXCEPT ![u] = "on"]
  <2>1. t \in UpstreamTable /\ \A v \in Upstreams : t[v] = "none" => spage.ups[v] = "none"
    BY <1>1 DEF UpstreamTable
  <2>2. PersistGroups(c, t) /\ gone' = gone
    BY <1>4 DEF AddServer
  <2> HIDE DEF t
  <2> QED BY <1>1, <2>1, <2>2, TableKeeps
<1>5. ASSUME NEW w \in Upstreams, EditServer(c, u, w) PROVE SystemIInv'
  <2> DEFINE t == [spage.ups EXCEPT ![w] = spage.ups[u], ![u] = "none"]
  <2>1. t \in UpstreamTable /\ \A v \in Upstreams : t[v] = "none" => spage.ups[v] = "none" \/ v \in gone \cup {u}
    BY <1>1, <1>5 DEF UpstreamTable, EditServer
  <2>2. PersistGroups(c, t) /\ gone' = gone \cup {u}
    BY <1>5 DEF EditServer
  <2> HIDE DEF t
  <2> QED BY <1>1, <2>1, <2>2, TableKeeps
<1> QED BY <1>2, <1>3, <1>4, <1>5

LEMMA SwitchesKeep ==
  ASSUME SystemIInv, NEW c \in SysCalls,
         \/ ToggleSwitch(c) \/ \E m \in BOOLEAN : ChangeRunMode(c, m)
         \/ SaveLogCapacity(c) \/ RunTask(c)
  PROVE  SystemIInv'
<1>1. spage \in Kept /\ gone \in SUBSET Upstreams
  BY DEF SystemIInv, SystemTypeOK
<1>2. CASE ToggleSwitch(c)
  <2> DEFINE b == ~spage.flag
             pg == [spage EXCEPT !.flag = b]
  <2>1. b \in BOOLEAN /\ spage.flag = ~b
    BY <1>1 DEF Kept
  <2>2. SysSends(c, "flag", b, pg) /\ gone' = gone
    BY <1>2 DEF ToggleSwitch
  <2> HIDE DEF b
  <2>3. pg \in Kept /\ pg.flag = b /\ pg.ups = spage.ups /\ pg.mode = spage.mode
    BY <1>1, <2>1 DEF Kept
  <2> HIDE DEF pg
  <2> QED BY <1>1, <2>1, <2>2, <2>3, SysSendKeeps
<1>3. ASSUME NEW b \in BOOLEAN, ChangeRunMode(c, b) PROVE SystemIInv'
  <2> DEFINE pg == [spage EXCEPT !.mode = b]
  <2>2. SysSends(c, "mode", b, pg) /\ gone' = gone
    BY <1>3 DEF ChangeRunMode
  <2>3. pg \in Kept /\ pg.mode = b /\ pg.ups = spage.ups /\ pg.flag = spage.flag
    BY <1>1 DEF Kept
  <2> HIDE DEF pg
  <2> QED BY <1>1, <2>2, <2>3, SysSendKeeps
<1>4. CASE SaveLogCapacity(c)
  BY <1>1, <1>4, SysSendKeeps DEF SaveLogCapacity
<1>5. CASE RunTask(c)
  BY <1>1, <1>5, SysSendKeeps DEF RunTask
<1> QED BY <1>2, <1>3, <1>4, <1>5

\* The header of a group sends one table per server, and muddles them.
LEMMA AllKeeps ==
  ASSUME SystemIInv, NEW by \in [SysCalls -> Upstreams], ToggleAll(by)
  PROVE  SystemIInv'
<1> DEFINE to == IF \A u \in Present(spage.ups) : spage.ups[u] = "on" THEN "off" ELSE "on"
           turned == { u \in Present(spage.ups) : spage.ups[u] # to }
           with(u) == [spage.ups EXCEPT ![u] = to]
           users == { c \in SysCalls : by[c] \in turned }
           call(c) == [at |-> "sent", what |-> "table", val |-> FALSE, ups |-> with(by[c])]
<1>1. to \in {"none", "off", "on"} /\ turned \subseteq Upstreams
  BY DEF Present
<1>2. /\ scall' = [c \in SysCalls |-> IF c \in users THEN call(c) ELSE NoSysCall]
      /\ \E last \in turned : spage' = [spage EXCEPT !.ups = with(last)]
      /\ muddled' = TRUE /\ UNCHANGED <<sys, loaded, sread, saveall, gone, untrue>>
  BY DEF ToggleAll
<1> HIDE DEF to, turned
<1>3. \A u \in Upstreams : with(u) \in UpstreamTable
  BY <1>1 DEF SystemIInv, SystemTypeOK, Kept, UpstreamTable
<1> HIDE DEF with
<1>4. \A c \in SysCalls : call(c) \in SysCall
  BY <1>3 DEF SysCall
<1> HIDE DEF call, users
<1>5. scall' \in [SysCalls -> SysCall]
  BY <1>2, <1>4, BlankTyped
<1>6. spage' \in Kept
  BY <1>1, <1>2, <1>3 DEF SystemIInv, SystemTypeOK, Kept
<1> QED BY <1>2, <1>5, <1>6 DEF SystemIInv, SystemTypeOK


\* The server stores a call or does not, and answers it, rightly or wrongly.
LEMMA SysServeKeeps ==
  ASSUME SystemIInv, NEW c \in SysCalls,
         ServeSystem(c) \/ SwallowSystem(c) \/ RefuseSystem(c) \/ LoseAnswer(c)
  PROVE  SystemIInv'
<1>1. PICK how \in {"ok", "refused"} :
        /\ Answered(c, how)
        /\ IF how = "ok" THEN ServeSystem(c) \/ SwallowSystem(c) ELSE RefuseSystem(c) \/ LoseAnswer(c)
  BY DEF ServeSystem, SwallowSystem, RefuseSystem, LoseAnswer
<1>2. scall[c].at = "sent" /\ UNCHANGED <<spage, loaded, sread, saveall, gone, muddled>>
  BY <1>1 DEF Answered
<1>3. sys \in Kept /\ scall \in [SysCalls -> SysCall] /\ scall[c] \in SysCall /\ untrue \in SUBSET Displayed
  BY DEF SystemIInv, SystemTypeOK
<1> DEFINE new == [scall[c] EXCEPT !.at = how]
           thing == scall[c].what
<1>4. new \in SysCall /\ new.at = how /\ new.what = thing /\ new.val = scall[c].val /\ new.ups = scall[c].ups
  BY <1>3 DEF SysCall
<1>5. scall' = [scall EXCEPT ![c] = new]
  BY <1>1 DEF Answered
<1> HIDE DEF new
<1>6. scall' \in [SysCalls -> SysCall] /\ scall'[c] = new /\ \A x \in SysCalls \ {c} : scall'[x] = scall[x]
  BY <1>3, <1>4, <1>5
<1>7. \* what storing the call makes of the server
      /\ SysStored(c) \in Kept
      /\ SysStored(c).ups = IF thing = "table" THEN scall[c].ups ELSE sys.ups
      /\ SysStored(c).flag = IF thing = "flag" THEN scall[c].val ELSE sys.flag
      /\ SysStored(c).mode = IF thing = "mode" THEN scall[c].val ELSE sys.mode
  <2>1. CASE thing = "table"
    <3>1. SysStored(c) = [sys EXCEPT !.ups = scall[c].ups]
      BY <2>1 DEF SysStored
    <3> QED BY <1>3, <2>1, <3>1 DEF Kept, SysCall
  <2>2. CASE thing = "flag"
    <3>1. SysStored(c) = [sys EXCEPT !.flag = scall[c].val]
      BY <2>2 DEF SysStored
    <3> QED BY <1>3, <2>2, <3>1 DEF Kept, SysCall
  <2>3. CASE thing = "mode"
    <3>1. SysStored(c) = [sys EXCEPT !.mode = scall[c].val]
      BY <2>3 DEF SysStored
    <3> QED BY <1>3, <2>3, <3>1 DEF Kept, SysCall
  <2>4. CASE thing \notin {"table", "flag", "mode"}
    <3>1. SysStored(c) = sys
      BY <2>4 DEF SysStored
    <3> QED BY <1>3, <2>4, <3>1
  <2> QED BY <2>1, <2>2, <2>3, <2>4
<1>8. /\ sys' \in {sys, SysStored(c)} /\ untrue' \in SUBSET Displayed
      /\ \A k \in Displayed : k # thing => (k \in untrue' <=> k \in untrue)
      /\ thing \in Displayed /\ thing \notin untrue' =>
           IF how = "ok" THEN sys' = SysStored(c) ELSE sys' = sys /\ thing \notin untrue
  <2>1. CASE how = "ok" /\ ServeSystem(c)
    BY <1>3, <2>1 DEF ServeSystem
  <2>2. CASE SwallowSystem(c) \/ LoseAnswer(c)
    BY <1>3, <2>2 DEF SwallowSystem, LoseAnswer
  <2>3. CASE how = "refused" /\ RefuseSystem(c)
    BY <1>3, <2>3 DEF RefuseSystem
  <2> QED BY <1>1, <2>1, <2>2, <2>3
<1>9. /\ sys' \in Kept
      /\ sys'.ups = sys.ups \/ (thing = "table" /\ sys'.ups = scall[c].ups)
      /\ thing # "flag" => sys'.flag = sys.flag
      /\ thing # "mode" => sys'.mode = sys.mode
  BY <1>3, <1>7, <1>8
<1>10. SystemTypeOK'
  BY <1>2, <1>6, <1>8, <1>9 DEF SystemIInv, SystemTypeOK
<1>11. ASSUME ~muddled' PROVE InStep'
  <2>1. InStep /\ \A x \in SysCalls : (OnItsWay(x)' <=> OnItsWay(x)) /\ scall'[x].what = scall[x].what
    BY <1>1, <1>2, <1>4, <1>6, <1>11 DEF SystemIInv, OnItsWay
  <2>2. OnItsWay(c) /\ CallSays(c) /\ ~SysReading /\ \A l \in SysReads : sread[l].at = "idle"
    BY <1>2, <2>1 DEF InStep, OnItsWay, SysReading
  <2>3. \A k \in {"table", "flag", "mode"} : NoCallFor(k)' => NoCallFor(k) /\ thing # k
    BY <2>1, <2>2 DEF NoCallFor
  <2>4. CallSays(c)'
    <3>1. CASE thing = "table"
      BY <1>2, <1>4, <1>6, <1>7, <1>8, <2>2, <3>1 DEF CallSays, OnItsWay, Displayed
    <3>2. CASE thing = "flag"
      BY <1>2, <1>4, <1>6, <1>7, <1>8, <2>2, <3>2 DEF CallSays, OnItsWay, Displayed
    <3>3. CASE thing = "mode"
      BY <1>2, <1>4, <1>6, <1>7, <1>8, <2>2, <3>3 DEF CallSays, OnItsWay, Displayed
    <3>4. CASE thing \notin {"table", "flag", "mode"}
      BY <1>4, <1>6, <3>4 DEF CallSays
    <3> QED BY <3>1, <3>2, <3>3, <3>4
  <2>5. ASSUME NEW x \in SysCalls, x # c PROVE CallSays(x)'
    <3>1. CallSays(x) /\ (OnItsWay(x) => scall[x].what # thing) /\ scall'[x] = scall[x]
      BY <1>6, <2>1, <2>2, <2>5 DEF InStep
    <3>2. (OnItsWay(x)' <=> OnItsWay(x)) /\ scall[x] \in SysCall
      BY <2>1, <1>3
    <3>3. \A k \in {"table", "flag", "mode"} : k # thing => (k \in untrue' <=> k \in untrue)
      BY <1>8 DEF Displayed
    <3> QED BY <1>2, <1>9, <3>1, <3>2, <3>3 DEF CallSays
  <2>6. LacksGone(spage.ups) /\ (thing = "table" => scall[c].ups = spage.ups)
    BY <2>1, <2>2 DEF InStep, CallSays
  <2>7. LacksGone(sys.ups)' /\ LacksGone(spage.ups)'
    BY <1>2, <1>9, <2>1, <2>6 DEF InStep, LacksGone
  <2>8. /\ NoCallFor("table")' /\ "table" \notin untrue' => spage'.ups = sys'.ups
        /\ NoCallFor("flag")' /\ "flag" \notin untrue' => spage'.flag = sys'.flag
        /\ NoCallFor("mode")' /\ "mode" \notin untrue' => spage'.mode = sys'.mode
    BY <1>2, <1>8, <1>9, <2>1, <2>2, <2>3 DEF InStep, Displayed
  <2>9. \A x, y \in SysCalls : OnItsWay(x)' /\ OnItsWay(y)' /\ scall'[x].what = scall'[y].what => x = y
    BY <2>1 DEF InStep
  <2>10. ~SysReading' /\ (\A l \in SysReads : sread'[l].at = "back" => sread'[l].got = sys')
    BY <1>2, <2>2 DEF SysReading
  <2> QED BY <1>2, <2>1, <2>4, <2>5, <2>7, <2>8, <2>9, <2>10 DEF InStep
<1> QED BY <1>10, <1>11 DEF SystemIInv

\* A load is sent.
LEMMA SysLoadBegins ==
  ASSUME SystemIInv, NEW l \in SysReads, NEW all \in BOOLEAN, LoadSystem(l, all)
  PROVE  sread' \in [SysReads -> SysRead] /\ SysReading'
         /\ \A x \in SysReads : sread'[x].at = "back" => sread[x].at = "back" /\ sread'[x] = sread[x]
<1> DEFINE new == [NoSysRead EXCEPT !.at = "sent", !.all = all]
<1>1. new \in SysRead /\ new.at = "sent" /\ sread' = [sread EXCEPT ![l] = new]
  BY BlankTyped DEF SysRead, LoadSystem
<1> HIDE DEF new
<1> QED BY <1>1 DEF SystemIInv, SystemTypeOK, SysReading

\* A call is over, and the others go on.
LEMMA CallEnds ==
  ASSUME SystemIInv, NEW c \in SysCalls, Settle(c)
  PROVE  /\ scall' \in [SysCalls -> SysCall] /\ ~OnItsWay(c)'
         /\ \A x \in SysCalls : x # c => scall'[x] = scall[x] /\ (OnItsWay(x)' <=> OnItsWay(x))
  BY BlankTyped DEF SystemIInv, SystemTypeOK, Settle, OnItsWay

LEMMA ReloadKeeps ==
  ASSUME SystemIInv, NEW c \in SysCalls, Reloads(c), scall[c].at # "idle"
  PROVE  SystemIInv'
<1>1. /\ scall' \in [SysCalls -> SysCall] /\ ~OnItsWay(c)'
      /\ \A x \in SysCalls : x # c => scall'[x] = scall[x] /\ (OnItsWay(x)' <=> OnItsWay(x))
  BY CallEnds DEF Reloads
<1>2. PICK l \in SysReads : LoadSystem(l, FALSE)
  BY DEF Reloads
<1>3. sread' \in [SysReads -> SysRead] /\ SysReading'
      /\ \A x \in SysReads : sread'[x].at = "back" => sread[x].at = "back" /\ sread'[x] = sread[x]
  BY <1>2, SysLoadBegins
<1>4. /\ muddled' = (muddled \/ saveall # NoBatch \/ \E d \in SysCalls \ {c} : scall[d].at # "idle")
      /\ UNCHANGED <<sys, spage, loaded, saveall, gone, untrue>>
  BY DEF Reloads
<1>5. muddled' \in BOOLEAN
  BY <1>4 DEF SystemIInv, SystemTypeOK
<1>6. SystemTypeOK'
  BY <1>1, <1>3, <1>4, <1>5 DEF SystemIInv, SystemTypeOK
<1>7. ASSUME ~muddled' PROVE InStep'
  <2>1. InStep /\ saveall.out = {} /\ \A x \in SysCalls : ~OnItsWay(x)'
    BY <1>1, <1>4, <1>7, BlankTyped DEF SystemIInv, OnItsWay
  <2>2. (\A x \in SysReads : sread'[x].at = "back" => sread'[x].got = sys') /\ LacksGone(sys.ups)'
    BY <1>3, <1>4, <2>1 DEF InStep, LacksGone
  <2> QED BY <1>3, <1>4, <2>1, <2>2 DEF InStep, CallSays
<1> QED BY <1>6, <1>7 DEF SystemIInv


\* A call is over and nothing is loaded: the page goes back to what the server has.
LEMMA SysSavedKeeps ==
  ASSUME SystemIInv, NEW c \in SysCalls, SystemSaved(c) \/ SystemRefused(c)
  PROVE  SystemIInv'
<1>1. scall[c].at \in {"ok", "refused"} /\ OnItsWay(c)
  BY DEF SystemSaved, SystemRefused, OnItsWay
<1>2. CASE Reloads(c)
  BY <1>1, <1>2, ReloadKeeps
<1>3. CASE ~Reloads(c)
  <2>1. /\ Settle(c) /\ UNCHANGED <<sys, loaded, sread, saveall, gone>>
        /\ muddled' = muddled
        /\ scall[c].at = "ok" => spage' = spage /\ untrue' = untrue /\ scall[c].what # "task"
        /\ scall[c].at = "refused" =>
             /\ scall[c].what # "table"
             /\ spage' = CASE scall[c].what = "flag" -> [spage EXCEPT !.flag = ~scall[c].val]
                           [] scall[c].what = "mode" -> [spage EXCEPT !.mode = ~@]
                           [] OTHER -> spage
             /\ untrue' = IF scall[c].what = "mode" /\ scall[c].val = sys.mode
                          THEN untrue \cup {"mode"} ELSE untrue
    BY <1>1, <1>3 DEF SystemSaved, SystemRefused
  <2>2. /\ scall' \in [SysCalls -> SysCall] /\ ~OnItsWay(c)'
        /\ \A x \in SysCalls : x # c => scall'[x] = scall[x] /\ (OnItsWay(x)' <=> OnItsWay(x))
    BY <2>1, CallEnds
  <2>3. sys \in Kept /\ spage \in Kept /\ scall[c] \in SysCall /\ muddled \in BOOLEAN /\ untrue \in SUBSET Displayed
    BY DEF SystemIInv, SystemTypeOK
  <2> DEFINE back == scall[c].at = "refused"
  <2>4. /\ spage' \in Kept /\ spage'.ups = spage.ups
        /\ back /\ scall[c].what = "flag" => spage'.flag = ~scall[c].val
        /\ ~(back /\ scall[c].what = "flag") => spage'.flag = spage.flag
        /\ back /\ scall[c].what = "mode" => spage'.mode = ~spage.mode
        /\ ~(back /\ scall[c].what = "mode") => spage'.mode = spage.mode
    <3>1. CASE back /\ scall[c].what = "flag"
      <4> DEFINE b == ~scall[c].val
      <4>1. b \in BOOLEAN /\ spage' = [spage EXCEPT !.flag = b]
        BY <2>1, <3>1
      <4> QED BY <2>3, <3>1, <4>1 DEF Kept
    <3>2. CASE back /\ scall[c].what = "mode"
      <4> DEFINE b == ~spage.mode
      <4>1. b \in BOOLEAN /\ spage' = [spage EXCEPT !.mode = b]
        BY <2>1, <3>2
      <4> QED BY <2>3, <3>2, <4>1 DEF Kept
    <3>3. CASE ~back \/ scall[c].what \notin {"flag", "mode"}
      <4>1. spage' = spage
        BY <1>1, <2>1, <3>3
      <4> QED BY <2>3, <3>3, <4>1
    <3> QED BY <3>1, <3>2, <3>3
  <2>5. /\ untrue' \in SUBSET Displayed /\ untrue \subseteq untrue'
        /\ "mode" \notin untrue' /\ scall[c].at = "refused" /\ scall[c].what = "mode" => scall[c].val # sys.mode
        /\ \A k \in {"table", "flag", "mode"} : k \in untrue' /\ k \notin untrue => k = "mode" /\ scall[c].what = "mode"
    BY <1>1, <2>1, <2>3 DEF Displayed
  <2>6. SystemTypeOK'
    BY <2>1, <2>2, <2>4, <2>5 DEF SystemIInv, SystemTypeOK
  <2>7. ASSUME ~muddled' PROVE InStep'
    <3>1. InStep /\ CallSays(c) /\ ~SysReading /\ ~SysReading'
      BY <1>1, <2>1, <2>5, <2>7 DEF SystemIInv, InStep, SysReading
    <3>2. \A l \in SysReads : sread'[l].at # "back"
      BY <3>1 DEF SysReading
    <3>3. \A x, y \in SysCalls : OnItsWay(x)' /\ OnItsWay(y)' /\ scall'[x].what = scall'[y].what => x = y
      BY <2>2, <3>1 DEF InStep
    <3>4. ASSUME NEW x \in SysCalls PROVE CallSays(x)'
      <4>1. CASE x = c
        BY <2>2, <4>1 DEF CallSays
      <4>2. CASE x # c
        <5>1. CallSays(x) /\ (OnItsWay(x) => scall[x].what # scall[c].what) /\ scall'[x] = scall[x]
          BY <1>1, <2>2, <3>1, <4>2 DEF InStep
        <5>2. OnItsWay(x)' <=> OnItsWay(x)
          BY <2>2, <4>2
        <5>3. \A k \in {"table", "flag", "mode"} : k # scall[c].what => (k \in untrue' <=> k \in untrue)
          BY <2>5
        <5> QED BY <2>1, <2>4, <5>1, <5>2, <5>3 DEF CallSays
      <4> QED BY <4>1, <4>2
    <3>5. ASSUME NEW k \in {"table", "flag", "mode"}, NoCallFor(k)', scall[c].what # k PROVE NoCallFor(k)
      BY <2>2, <3>5 DEF NoCallFor
    <3>6. ASSUME NoCallFor("table")', "table" \notin untrue' PROVE spage'.ups = sys'.ups
      <4>1. CASE scall[c].what = "table"
        BY <1>1, <2>1, <2>4, <2>5, <3>1, <3>6, <4>1 DEF CallSays
      <4>2. CASE scall[c].what # "table"
        BY <2>1, <2>4, <2>5, <3>1, <3>5, <3>6, <4>2 DEF InStep
      <4> QED BY <4>1, <4>2
    <3>7. ASSUME NoCallFor("flag")', "flag" \notin untrue' PROVE spage'.flag = sys'.flag
      <4>1. CASE scall[c].what = "flag"
        BY <1>1, <2>1, <2>4, <2>5, <3>1, <3>7, <4>1 DEF CallSays
      <4>2. CASE scall[c].what # "flag"
        BY <2>1, <2>4, <2>5, <3>1, <3>5, <3>7, <4>2 DEF InStep
      <4> QED BY <4>1, <4>2
    <3>8. ASSUME NoCallFor("mode")', "mode" \notin untrue' PROVE spage'.mode = sys'.mode
      <4>1. CASE scall[c].what = "mode" /\ scall[c].at = "ok"
        BY <1>1, <2>1, <2>4, <2>5, <3>1, <3>8, <4>1 DEF CallSays
      <4>2. CASE scall[c].what = "mode" /\ scall[c].at = "refused"
        <5>1. spage'.mode = ~spage.mode /\ scall[c].val # sys.mode /\ spage.mode = scall[c].val
          BY <1>1, <2>1, <2>4, <2>5, <3>1, <3>8, <4>2 DEF CallSays
        <5>2. spage.mode \in BOOLEAN /\ sys.mode \in BOOLEAN
          BY <2>3 DEF Kept
        <5> QED BY <2>1, <5>1, <5>2
      <4>3. CASE scall[c].what # "mode"
        BY <2>1, <2>4, <2>5, <3>1, <3>5, <3>8, <4>3 DEF InStep
      <4> QED BY <1>1, <4>1, <4>2, <4>3
    <3>9. /\ LacksGone(sys.ups)' /\ LacksGone(spage.ups)'
          /\ saveall'.at \in {"restart", "load"} => saveall'.out = {}
          /\ "table" \in saveall'.out => saveall'.ups = spage'.ups
      BY <2>1, <2>4, <3>1 DEF InStep, LacksGone
    <3> QED BY <3>1, <3>2, <3>3, <3>4, <3>6, <3>7, <3>8, <3>9 DEF InStep
  <2> QED BY <2>6, <2>7 DEF SystemIInv
<1> QED BY <1>2, <1>3

\* saveAndRestart begins.
LEMMA BatchBegins ==
  ASSUME SystemIInv, SaveAll
  PROVE  SystemIInv'
<1> DEFINE new == [at |-> "parts", out |-> BatchParts, ups |-> spage.ups]
<1>1. new \in Batch /\ new.at = "parts" /\ new.ups = spage.ups
  BY DEF SystemIInv, SystemTypeOK, Kept, Batch
<1>2. /\ saveall' = new /\ muddled' = (muddled \/ SysReading \/ Sent("table"))
      /\ UNCHANGED <<sys, spage, loaded, sread, scall, gone, untrue>>
  BY DEF SaveAll
<1> HIDE DEF new
<1>3. muddled' \in BOOLEAN
  BY <1>2 DEF SystemIInv, SystemTypeOK
<1>4. SystemTypeOK'
  BY <1>1, <1>2, <1>3 DEF SystemIInv, SystemTypeOK
<1>5. ASSUME ~muddled' PROVE InStep'
  <2>1. InStep /\ ~SysReading /\ ~SysReading' /\ \A x \in SysCalls : OnItsWay(x) => scall[x].what # "table"
    BY <1>2, <1>5 DEF SystemIInv, Sent, SysReading, OnItsWay
  <2>2. ASSUME NEW x \in SysCalls PROVE CallSays(x)'
    <3>1. CallSays(x) /\ (OnItsWay(x) => scall[x].what # "table")
      BY <2>1 DEF InStep
    <3> QED BY <1>2, <3>1 DEF CallSays, OnItsWay
  <2>3. (\A k \in {"table", "flag", "mode"} : NoCallFor(k)' <=> NoCallFor(k)) /\ LacksGone(sys.ups)' /\ LacksGone(spage.ups)'
    BY <1>2, <2>1 DEF NoCallFor, OnItsWay, InStep, LacksGone
  <2>4. \A l \in SysReads : sread'[l].at = "back" => sread'[l].got = sys'
    BY <1>2, <2>1 DEF InStep
  <2>5. \A x, y \in SysCalls : OnItsWay(x)' /\ OnItsWay(y)' /\ scall'[x].what = scall'[y].what => x = y
    BY <1>2, <2>1 DEF InStep, OnItsWay
  <2>6. /\ NoCallFor("table")' /\ "table" \notin untrue' => spage'.ups = sys'.ups
        /\ NoCallFor("flag")' /\ "flag" \notin untrue' => spage'.flag = sys'.flag
        /\ NoCallFor("mode")' /\ "mode" \notin untrue' => spage'.mode = sys'.mode
    BY <1>2, <2>1, <2>3 DEF InStep
  <2> QED BY <1>1, <1>2, <2>1, <2>2, <2>3, <2>4, <2>5, <2>6 DEF InStep
<1> QED BY <1>4, <1>5 DEF SystemIInv


\* One of its three calls is answered.
LEMMA PartKeeps ==
  ASSUME SystemIInv, NEW part \in BatchParts, ServePart(part)
  PROVE  SystemIInv'
<1>1. part \in saveall.out /\ UNCHANGED <<spage, loaded, sread, scall, gone, muddled>>
  BY DEF ServePart
<1>2. sys \in Kept /\ saveall \in Batch /\ saveall.ups \in UpstreamTable
  BY DEF SystemIInv, SystemTypeOK, Batch
<1> DEFINE left == saveall.out \ {part}
           without == BatchWithout(part)
<1>3. /\ without \in Batch /\ without.out = left
      /\ "table" \in left => without.ups = saveall.ups
      /\ without.at = (IF saveall.at = "parts" /\ left = {} THEN "restart" ELSE saveall.at)
  BY <1>2, BlankTyped DEF BatchWithout, Batch
<1> HIDE DEF without
<1>4. /\ saveall' \in Batch /\ saveall'.out = left
      /\ "table" \in left => saveall'.ups = saveall.ups
      /\ saveall'.at \in {"restart", "load"} => left = {} \/ saveall.at \in {"restart", "load"}
  <2>1. CASE saveall' = without
    BY <1>3, <2>1
  <2>2. CASE saveall' = BatchFails(part)
    <3>1. saveall' = [without EXCEPT !.at = "idle"]
      BY <2>2 DEF BatchFails, without
    <3> QED BY <1>3, <3>1 DEF Batch
  <2> QED BY <2>1, <2>2 DEF ServePart, without
<1>5. /\ sys' \in Kept /\ sys'.flag = sys.flag /\ sys'.mode = sys.mode
      /\ \/ sys'.ups = sys.ups /\ untrue' = untrue
         \/ part = "table" /\ sys'.ups = saveall.ups /\ untrue' = untrue \ {"table"}
  <2>1. CASE sys' = [sys EXCEPT !.ups = saveall.ups] /\ part = "table" /\ untrue' = untrue \ {"table"}
    BY <1>2, <2>1 DEF Kept
  <2>2. CASE sys' = sys /\ untrue' = untrue
    BY <1>2, <2>2
  <2> QED BY <2>1, <2>2 DEF ServePart
<1>6. SystemTypeOK'
  BY <1>1, <1>4, <1>5 DEF SystemIInv, SystemTypeOK
<1>7. ASSUME ~muddled' PROVE InStep'
  <2>1. InStep /\ ~SysReading /\ ~SysReading'
    BY <1>1, <1>7 DEF SystemIInv, InStep, SysReading
  <2>2. \A x \in SysCalls : OnItsWay(x)' <=> OnItsWay(x)
    BY <1>1 DEF OnItsWay
  <2>3. LacksGone(spage.ups) /\ (part = "table" => saveall.ups = spage.ups)
    BY <1>1, <2>1 DEF InStep
  <2>4. ASSUME NEW x \in SysCalls PROVE CallSays(x)'
    <3>1. CallSays(x) /\ (part = "table" /\ OnItsWay(x) => scall[x].what # "table")
      BY <1>1, <2>1 DEF InStep, CallSays
    <3> QED BY <1>1, <1>4, <1>5, <2>2, <3>1 DEF CallSays
  <2>5. (\A k \in {"table", "flag", "mode"} : NoCallFor(k)' <=> NoCallFor(k)) /\ LacksGone(sys.ups)' /\ LacksGone(spage.ups)'
    BY <1>1, <1>5, <2>1, <2>2, <2>3 DEF NoCallFor, InStep, LacksGone
  <2>6. \A l \in SysReads : sread'[l].at # "back"
    BY <1>1, <2>1 DEF SysReading
  <2>7. \A x, y \in SysCalls : OnItsWay(x)' /\ OnItsWay(y)' /\ scall'[x].what = scall'[y].what => x = y
    BY <1>1, <2>1, <2>2 DEF InStep
  <2>8. /\ NoCallFor("table")' /\ "table" \notin untrue' => spage'.ups = sys'.ups
        /\ NoCallFor("flag")' /\ "flag" \notin untrue' => spage'.flag = sys'.flag
        /\ NoCallFor("mode")' /\ "mode" \notin untrue' => spage'.mode = sys'.mode
    BY <1>1, <1>5, <2>1, <2>3, <2>5 DEF InStep
  <2>9. /\ saveall'.at \in {"restart", "load"} => saveall'.out = {}
        /\ "table" \in saveall'.out => saveall'.ups = spage'.ups
    BY <1>1, <1>4, <2>1 DEF InStep
  <2> QED BY <2>1, <2>4, <2>5, <2>6, <2>7, <2>8, <2>9 DEF InStep
<1> QED BY <1>6, <1>7 DEF SystemIInv

\* The three are done: the load that ends it is sent, or the restart failed.
LEMMA RestartKeeps ==
  ASSUME SystemIInv, Restarted
  PROVE  SystemIInv'
<1>1. saveall.at = "restart" /\ UNCHANGED <<sys, spage, loaded, scall, gone, untrue>>
  BY DEF Restarted
<1>2. CASE saveall' = NoBatch /\ UNCHANGED <<sread, muddled>>
  <2>1. SystemTypeOK'
    BY <1>1, <1>2, BlankTyped DEF SystemIInv, SystemTypeOK
  <2>2. ASSUME ~muddled' PROVE InStep'
    <3>1. InStep /\ saveall.out = {}
      BY <1>1, <1>2, <2>2 DEF SystemIInv, InStep
    <3>2. \A x \in SysCalls : CallSays(x)' /\ (OnItsWay(x)' <=> OnItsWay(x))
      BY <1>1, <1>2, <3>1, BlankTyped DEF InStep, CallSays, OnItsWay
    <3>3. \A k \in {"table", "flag", "mode"} : NoCallFor(k)' <=> NoCallFor(k)
      BY <1>1, <3>2 DEF NoCallFor
    <3> QED BY <1>1, <1>2, <3>1, <3>2, <3>3, BlankTyped DEF InStep, LacksGone, SysReading
  <2> QED BY <2>1, <2>2 DEF SystemIInv
<1>3. CASE /\ \E l \in SysReads : LoadSystem(l, TRUE)
           /\ saveall' = [NoBatch EXCEPT !.at = "load"]
           /\ muddled' = (muddled \/ \E c \in SysCalls : scall[c].at # "idle")
  <2>1. PICK l \in SysReads : LoadSystem(l, TRUE)
    BY <1>3
  <2>2. sread' \in [SysReads -> SysRead] /\ SysReading'
        /\ \A x \in SysReads : sread'[x].at = "back" => sread[x].at = "back" /\ sread'[x] = sread[x]
    BY <2>1, SysLoadBegins
  <2>3. saveall' \in Batch /\ saveall'.out = {} /\ muddled' \in BOOLEAN
    BY <1>3, BlankTyped DEF Batch, SystemIInv, SystemTypeOK
  <2>4. SystemTypeOK'
    BY <1>1, <2>2, <2>3 DEF SystemIInv, SystemTypeOK
  <2>5. ASSUME ~muddled' PROVE InStep'
    <3>1. InStep /\ \A x \in SysCalls : ~OnItsWay(x)'
      BY <1>1, <1>3, <2>5 DEF SystemIInv, OnItsWay
    <3>2. (\A x \in SysReads : sread'[x].at = "back" => sread'[x].got = sys') /\ LacksGone(sys.ups)'
      BY <1>1, <2>2, <3>1 DEF InStep, LacksGone
    <3> QED BY <2>2, <2>3, <3>1, <3>2 DEF InStep, CallSays
  <2> QED BY <2>4, <2>5 DEF SystemIInv
<1> QED BY <1>2, <1>3 DEF Restarted

\* A load ends, with or without what the server has.
LEMMA LoadedKeeps ==
  ASSUME SystemIInv, NEW l \in SysReads, SystemRead(l) \/ SystemShown(l) \/ SystemNotRead(l)
  PROVE  SystemIInv'
<1>1. sread \in [SysReads -> SysRead] /\ saveall \in Batch /\ sys \in Kept /\ sread[l] \in SysRead
  BY DEF SystemIInv, SystemTypeOK
<1>2. CASE SystemRead(l)
  <2> DEFINE new == [sread[l] EXCEPT !.at = "back", !.got = sys]
  <2>1. new \in SysRead /\ new.got = sys /\ new.at = "back"
    BY <1>1 DEF SysRead
  <2>2. /\ sread' = [sread EXCEPT ![l] = new] /\ sread[l].at = "sent"
        /\ UNCHANGED <<sys, spage, loaded, scall, saveall, gone, untrue, muddled>>
    BY <1>2, <1>1 DEF SystemRead
  <2> HIDE DEF new
  <2>3. sread' \in [SysReads -> SysRead] /\ sread'[l] = new /\ \A x \in SysReads \ {l} : sread'[x] = sread[x]
    BY <1>1, <2>1, <2>2
  <2>4. SysReading' /\ SysReading
    BY <2>1, <2>2, <2>3 DEF SysReading
  <2>5. SystemTypeOK'
    BY <2>2, <2>3 DEF SystemIInv, SystemTypeOK
  <2>6. ASSUME ~muddled' PROVE InStep'
    <3>1. InStep /\ \A x \in SysCalls : ~OnItsWay(x)'
      BY <2>2, <2>4, <2>6 DEF SystemIInv, InStep, OnItsWay
    <3>2. (\A x \in SysReads : sread'[x].at = "back" => sread'[x].got = sys') /\ LacksGone(sys.ups)' /\ saveall'.out = {}
      BY <2>1, <2>2, <2>3, <2>4, <3>1 DEF InStep, LacksGone
    <3> QED BY <2>4, <3>1, <3>2 DEF InStep, CallSays
  <2> QED BY <2>5, <2>6 DEF SystemIInv
<1>3. CASE LoadEnds(l)
  <2>1. /\ sread' \in [SysReads -> SysRead] /\ sread'[l].at = "idle" /\ \A x \in SysReads \ {l} : sread'[x] = sread[x]
    BY <1>1, <1>3, BlankTyped DEF LoadEnds
  <2>2. saveall' \in Batch /\ saveall'.out = saveall.out /\ saveall'.ups = saveall.ups
        /\ (saveall'.at = saveall.at \/ saveall'.at = "idle")
    BY <1>1, <1>3 DEF LoadEnds, Batch
  <2>3. CASE SystemNotRead(l)
    BY <2>1, <2>2, <2>3 DEF SystemNotRead, SystemIInv, SystemTypeOK
  <2>4. CASE SystemShown(l)
    <3>1. /\ sread[l].at = "back" /\ spage' = sread[l].got /\ loaded' = TRUE /\ untrue' = {}
          /\ UNCHANGED <<sys, scall, gone, muddled>>
      BY <2>4 DEF SystemShown
    <3>2. SystemTypeOK'
      BY <1>1, <2>1, <2>2, <3>1 DEF SystemIInv, SystemTypeOK, SysRead
    <3>3. ASSUME ~muddled' PROVE InStep'
      <4>1. InStep /\ SysReading /\ spage' = sys'
        BY <3>1, <3>3 DEF SystemIInv, InStep, SysReading
      <4>2. saveall'.out = {} /\ \A x \in SysCalls : ~OnItsWay(x)'
        BY <2>2, <3>1, <4>1 DEF InStep, OnItsWay
      <4>3. (\A x \in SysReads : sread'[x].at = "back" => sread'[x].got = sys') /\ LacksGone(sys.ups)' /\ LacksGone(spage.ups)'
        BY <2>1, <3>1, <4>1 DEF InStep, LacksGone
      <4> QED BY <4>1, <4>2, <4>3 DEF InStep, CallSays
    <3> QED BY <3>2, <3>3 DEF SystemIInv
  <2> QED BY <1>3, <2>3, <2>4, <1>2 DEF SystemShown, SystemNotRead, LoadEnds
<1> QED BY <1>2, <1>3 DEF SystemShown, SystemNotRead

\* The inductive invariant of the system page.
THEOREM SystemInductive == SystemSpec => []SystemIInv
<1>1. SystemIInv /\ [SystemNext]_sysvars => SystemIInv'
  <2> SUFFICES ASSUME SystemIInv, [SystemNext]_sysvars PROVE SystemIInv'
    OBVIOUS
  <2>1. CASE UNCHANGED sysvars
    BY <2>1 DEF sysvars, SystemIInv, SystemTypeOK, InStep, LacksGone, CallSays, NoCallFor, OnItsWay, SysReading
  <2>2. CASE SystemNext
    BY <2>2, ServersKeep, SwitchesKeep, AllKeeps, SysServeKeeps, SysSavedKeeps, BatchBegins, PartKeeps,
       RestartKeeps, LoadedKeeps DEF SystemNext
  <2> QED BY <2>1, <2>2
<1> QED BY <1>1, SystemBegins, PTL DEF SystemSpec

\* The system page at rest shows what the server keeps, whichever of its calls
\* were refused, but for what an answer told wrongly and no load has shown since;
\* and no upstream is lost that was not taken out, for any upstreams and any calls
\* at a time (system/page.tsx:337-409, 498-507, handlers_mosdns.go:1284-1315).
THEOREM SystemIsShown == SystemSpec => []SystemAgrees
<1>1. SystemIInv => SystemAgrees
  BY DEF SystemIInv, InStep, SystemAgrees, SysQuiet, NoCallFor, OnItsWay, LacksGone
<1> QED BY <1>1, SystemInductive, PTL


-----------------------------------------------------------------------------
(***************************************************************************)
(* ProxySources.  What a dialog read and no longer shows, the user took.   *)
(***************************************************************************)
DialogIInv == DialogTypeOK /\ Deleted(dialog) \subseteq taken

LEMMA WritesTyped ==
  /\ NoWrite \in Write /\ NoWrite.at = "idle"
  /\ \A how \in {"put", "delete", "set"}, which \in SUBSET Entries :
       /\ Sends(how, which) \in Write /\ Sends(how, which).at = "sent"
       /\ Sends(how, which).op = how /\ Sends(how, which).names = which
  BY DEF Sends, NoWrite, Write

LEMMA DialogBegins == DialogInit => DialogIInv
  BY WritesTyped DEF DialogInit, DialogIInv, DialogTypeOK, Dialog, Deleted, NotAsked

\* The steps of the dialog alone.
LEMMA RowsKeep ==
  ASSUME DialogIInv,
         OpenDialog \/ CloseDialog \/ ListArrives \/ \E n \in Entries : AddRow(n) \/ RemoveRow(n)
  PROVE  DialogIInv' /\ write' = write
<1> USE DEF DialogIInv, DialogTypeOK
<1>1. dialog \in Dialog /\ yaml \subseteq Entries /\ taken \subseteq Entries /\ Deleted(dialog) \subseteq taken
  OBVIOUS
<1>2. CASE OpenDialog
  <2>1. dialog' = [dialog EXCEPT !.open = TRUE]
    BY <1>2 DEF OpenDialog
  <2>2. dialog' \in Dialog /\ Deleted(dialog)' = Deleted(dialog)
    BY <1>1, <2>1 DEF Dialog, Deleted
  <2> QED BY <1>2, <2>2 DEF OpenDialog
<1>3. CASE CloseDialog
  <2>1. dialog' = [dialog EXCEPT !.open = FALSE]
    BY <1>3 DEF CloseDialog
  <2>2. dialog' \in Dialog /\ Deleted(dialog)' = Deleted(dialog)
    BY <1>1, <2>1 DEF Dialog, Deleted
  <2> QED BY <1>3, <2>2 DEF CloseDialog
<1>4. CASE ListArrives
  <2>1. CASE dialog' = [dialog EXCEPT !.rows = asked, !.loaded = asked] /\ taken' = {}
    <3>1. asked \subseteq Entries
      BY <1>4 DEF ListArrives
    <3>2. dialog' \in Dialog /\ Deleted(dialog)' = {}
      BY <1>1, <2>1, <3>1 DEF Dialog, Deleted
    <3> QED BY <1>4, <2>1, <3>2 DEF ListArrives
  <2>2. CASE dialog' = dialog /\ taken' = taken
    BY <1>4, <2>2 DEF ListArrives, Deleted
  <2> QED BY <1>4, <2>1, <2>2 DEF ListArrives, AfterFailure
<1>5. ASSUME NEW n \in Entries, AddRow(n) PROVE DialogIInv' /\ write' = write
  <2>1. dialog' = [dialog EXCEPT !.rows = dialog.rows \cup {n}]
    BY <1>5 DEF AddRow
  <2>2. dialog' \in Dialog /\ Deleted(dialog)' = Deleted(dialog) \ {n}
    BY <1>1, <2>1 DEF Dialog, Deleted
  <2> QED BY <1>5, <2>2 DEF AddRow
<1>6. ASSUME NEW n \in Entries, RemoveRow(n) PROVE DialogIInv' /\ write' = write
  <2>1. dialog' = [dialog EXCEPT !.rows = dialog.rows \ {n}]
    BY <1>6 DEF RemoveRow
  <2>2. dialog' \in Dialog /\ Deleted(dialog)' \subseteq Deleted(dialog) \cup {n}
    BY <1>1, <2>1 DEF Dialog, Deleted
  <2> QED BY <1>6, <2>2 DEF RemoveRow
<1> QED BY <1>2, <1>3, <1>4, <1>5, <1>6

\* Saving sends what the rows say.
LEMMA SourcesSendKeeps ==
  ASSUME DialogIInv, SaveSources
  PROVE  /\ DialogIInv'
         /\ \A w \in Savers : write'[w] # write[w] =>
              /\ write'[w].op # "set"
              /\ write'[w].op = "delete" => write'[w].names \subseteq Deleted(dialog)
<1> DEFINE asks == { Sends("put", {n}) : n \in dialog.rows } \cup { Sends("delete", {n}) : n \in Deleted(dialog) }
           slots == Injection(asks, Spare)
           to == CHOOSE i \in slots : TRUE
<1>1. /\ write' = [w \in Savers |-> IF \E c \in asks : to[c] = w THEN CHOOSE c \in asks : to[c] = w ELSE write[w]]
      /\ batch' = "running" /\ UNCHANGED <<section, yaml, dialog, asked, taken>>
  BY DEF SaveSources
<1>2. dialog.rows \subseteq Entries /\ Deleted(dialog) \subseteq Entries
  BY DEF DialogIInv, DialogTypeOK, Dialog, Deleted
<1>3. ASSUME NEW n \in Entries, NEW how \in {"put", "delete"}
      PROVE  /\ Sends(how, {n}) \in Write /\ Sends(how, {n}).op = how
             /\ Sends(how, {n}).names = {n}
  <2>1. {n} \in SUBSET Entries
    OBVIOUS
  <2> QED BY <2>1, WritesTyped
<1>4. ASSUME NEW c \in asks
      PROVE  c \in Write /\ c.op # "set" /\ (c.op = "delete" => c.names \subseteq Deleted(dialog))
  <2>1. CASE \E n \in dialog.rows : c = Sends("put", {n})
    BY <1>2, <1>3, <2>1
  <2>2. CASE \E n \in Deleted(dialog) : c = Sends("delete", {n})
    <3>1. PICK n \in Deleted(dialog) : c = Sends("delete", {n})
      BY <2>2
    <3>2. c \in Write /\ c.op = "delete" /\ c.names = {n}
      BY <1>2, <1>3, <3>1
    <3> QED BY <3>1, <3>2
  <2> QED BY <2>1, <2>2
<1> HIDE DEF asks, to
<1>5. ASSUME NEW w \in Savers PROVE write'[w] = write[w] \/ write'[w] \in asks
  <2>1. CASE \E c \in asks : to[c] = w
    <3>1. (CHOOSE c \in asks : to[c] = w) \in asks
      BY <2>1
    <3>2. write'[w] = CHOOSE c \in asks : to[c] = w
      BY <1>1, <2>1
    <3> QED BY <3>1, <3>2
  <2>2. CASE ~\E c \in asks : to[c] = w
    BY <1>1, <2>2
  <2> QED BY <2>1, <2>2
<1>6. write' \in [Savers -> Write]
  BY <1>1, <1>4, <1>5 DEF DialogIInv, DialogTypeOK
<1> QED BY <1>1, <1>4, <1>5, <1>6 DEF DialogIInv, DialogTypeOK

\* One call or one list goes on.
LEMMA WriterKeeps ==
  ASSUME DialogIInv, NEW w \in Savers, WriterStep(w)
  PROVE  /\ DialogIInv'
         /\ \A x \in Savers : write'[x] # write[x] /\ write'[x].at = "sent" =>
              write'[x].op = "set" /\ write'[x].names = dialog.rows
<1>1. /\ write \in [Savers -> Write] /\ write[w] \in Write /\ yaml \subseteq Entries /\ dialog \in Dialog
      /\ batch \in {"none", "running", "failed"} /\ Deleted(dialog) \subseteq taken
  BY DEF DialogIInv, DialogTypeOK
<1>2. \A c, b : b \in {"none", "running", "failed"} => StillRuns(c, b) \in {"none", "running", "failed"}
  BY DEF StillRuns
<1>3. CASE SaveGroups(w)
  <2> DEFINE new == Sends("set", dialog.rows)
  <2>1. new \in Write /\ new.op = "set" /\ new.names = dialog.rows
    BY <1>1, WritesTyped DEF Dialog
  <2>2. write' = [write EXCEPT ![w] = new] /\ UNCHANGED <<section, yaml, dialog, asked, batch, taken>>
    BY <1>3 DEF SaveGroups
  <2> HIDE DEF new
  <2> QED BY <1>1, <2>1, <2>2 DEF DialogIInv, DialogTypeOK
<1>4. CASE ReadYaml(w)
  <2> DEFINE new == [write[w] EXCEPT !.at = "read", !.base = yaml]
  <2>1. new \in Write /\ new.at = "read"
    BY <1>1 DEF Write
  <2>2. write' = [write EXCEPT ![w] = new] /\ UNCHANGED <<section, yaml, dialog, asked, batch, taken>>
    BY <1>1, <1>4 DEF ReadYaml
  <2> HIDE DEF new
  <2> QED BY <1>1, <2>1, <2>2 DEF DialogIInv, DialogTypeOK
<1>5. CASE WriteYaml(w)
  <2> DEFINE done == [write[w] EXCEPT !.at = "written", !.base = {}]
             new == IF write[w].op # "set" /\ batch = "failed" THEN NoWrite ELSE done
  <2>1. done \in Write /\ done.at = "written"
    BY <1>1 DEF Write
  <2>2. write' = [write EXCEPT ![w] = new] /\ batch' = StillRuns(write', batch)
        /\ yaml' = Changed(write[w]) /\ UNCHANGED <<section, dialog, asked, taken>>
    BY <1>1, <1>5 DEF WriteYaml
  <2> HIDE DEF done
  <2>3. new \in Write /\ new.at # "sent"
    BY <2>1, WritesTyped
  <2> HIDE DEF new
  <2>4. yaml' \subseteq Entries
    BY <1>1, <2>2 DEF Changed, Write
  <2>5. batch' \in {"none", "running", "failed"}
    BY <1>1, <1>2, <2>2
  <2> QED BY <1>1, <2>2, <2>3, <2>4, <2>5 DEF DialogIInv, DialogTypeOK
<1>6. CASE CallFails(w)
  <2>1. UNCHANGED <<section, yaml, dialog, asked, taken>>
    BY <1>6 DEF CallFails
  <2>2. batch' \in {"none", "running", "failed"}
    BY <1>1, <1>2, <1>6 DEF CallFails
  <2>3. write' \in [Savers -> Write] /\ \A x \in Savers : write'[x] = write[x] \/ write'[x] = NoWrite
    BY <1>1, <1>6, WritesTyped DEF CallFails
  <2> QED BY <1>1, <2>1, <2>2, <2>3, WritesTyped DEF DialogIInv, DialogTypeOK
<1>7. CASE GroupsSaved(w)
  <2>1. write' = [write EXCEPT ![w] = NoWrite] /\ dialog' = [dialog EXCEPT !.open = FALSE]
        /\ UNCHANGED <<section, yaml, asked, batch, taken>>
    BY <1>7 DEF GroupsSaved
  <2>2. dialog' \in Dialog /\ Deleted(dialog)' = Deleted(dialog)
    BY <1>1, <2>1 DEF Dialog, Deleted
  <2> QED BY <1>1, <2>1, <2>2, WritesTyped DEF DialogIInv, DialogTypeOK
<1> QED BY <1>3, <1>4, <1>5, <1>6, <1>7 DEF WriterStep

\* All calls are answered.
LEMMA AllSavedKeeps ==
  ASSUME DialogIInv, SourcesSaved
  PROVE  DialogIInv' /\ \A x \in Savers : write'[x] # write[x] => write'[x].at # "sent"
<1>1. /\ write' = [w \in Savers |-> IF w \in SourceCalls(write) THEN NoWrite ELSE write[w]]
      /\ batch' = "none" /\ dialog' = [dialog EXCEPT !.open = FALSE] /\ UNCHANGED <<section, yaml, asked, taken>>
  BY DEF SourcesSaved
<1>2. dialog' \in Dialog /\ Deleted(dialog)' = Deleted(dialog)
  BY <1>1 DEF DialogIInv, DialogTypeOK, Dialog, Deleted
<1>3. write' \in [Savers -> Write] /\ \A x \in Savers : write'[x] # write[x] => write'[x].at # "sent"
  BY <1>1, WritesTyped DEF DialogIInv, DialogTypeOK
<1> QED BY <1>1, <1>2, <1>3 DEF DialogIInv, DialogTypeOK

\* The inductive invariant of the two dialogs, and what a step of them sends.
LEMMA DialogStep ==
  ASSUME DialogIInv, [DialogNext]_yvars
  PROVE  /\ DialogIInv'
         /\ \A w \in Savers : write[w].at = "idle" /\ write'[w].at = "sent" =>
              /\ write'[w].op = "delete" => write'[w].names \subseteq taken
              /\ write'[w].op = "set" => dialog.loaded \ write'[w].names \subseteq taken
<1>1. Deleted(dialog) \subseteq taken
  BY DEF DialogIInv
<1>2. CASE UNCHANGED yvars
  BY <1>2 DEF yvars, DialogIInv, DialogTypeOK, Deleted
<1>3. CASE OpenDialog \/ CloseDialog \/ ListArrives \/ \E n \in Entries : AddRow(n) \/ RemoveRow(n)
  BY <1>3, RowsKeep
<1>4. CASE SaveSources
  BY <1>1, <1>4, SourcesSendKeeps
<1>5. CASE SourcesSaved
  BY <1>5, AllSavedKeeps
<1>6. ASSUME NEW x \in Savers, WriterStep(x)
      PROVE  /\ DialogIInv'
             /\ \A w \in Savers : write[w].at = "idle" /\ write'[w].at = "sent" =>
                  /\ write'[w].op = "delete" => write'[w].names \subseteq taken
                  /\ write'[w].op = "set" => dialog.loaded \ write'[w].names \subseteq taken
  <2>1. /\ DialogIInv'
        /\ \A w \in Savers : write'[w] # write[w] /\ write'[w].at = "sent" =>
             write'[w].op = "set" /\ write'[w].names = dialog.rows
    BY <1>6, WriterKeeps
  <2> QED BY <1>1, <2>1 DEF Deleted
<1> QED BY <1>2, <1>3, <1>4, <1>5, <1>6 DEF DialogNext

THEOREM DialogInductive == DialogSpec => []DialogIInv
<1>1. DialogIInv /\ [DialogNext]_yvars => DialogIInv'
  BY DialogStep
<1> QED BY <1>1, DialogBegins, PTL DEF DialogSpec

\* A save takes nothing away that the dialog read and the user did not remove,
\* for any providers or groups, any calls in flight and whatever replies arrived
\* late or failed (proxies/page.tsx:884-902, 1200-1232).
THEOREM NoRemovalUnasked == DialogSpec => RemovalsAreAsked
<1> DEFINE Asked == \A w \in Savers : write[w].at = "idle" /\ write'[w].at = "sent" =>
                      /\ write'[w].op = "delete" => write'[w].names \subseteq taken
                      /\ write'[w].op = "set" => dialog.loaded \ write'[w].names \subseteq taken
<1>1. DialogIInv /\ [DialogNext]_yvars => Asked
  BY DialogStep
<1>2. DialogIInv /\ [DialogNext]_yvars => [Asked]_yvars
  BY <1>1
<1>3. DialogSpec => [][Asked]_yvars
  BY <1>2, DialogInductive, PTL DEF DialogSpec
<1> QED BY <1>3 DEF RemovalsAreAsked


-----------------------------------------------------------------------------
(***************************************************************************)
(* Induction over numbers is done through the least one for which a claim  *)
(* fails (WFMin).                                                          *)
(***************************************************************************)

\* A set of numbers has a least one.
LEMMA LeastOf ==
  ASSUME NEW T \in SUBSET Nat, T # {}
  PROVE  \E x \in T : \A y \in T : x <= y
<1>1. \E x \in T : \A y \in T : ~(<<y, x>> \in OpToRel(<, Nat))
  BY NatLessThanWellFounded, WFMin
<1>2. \A x, y \in T : <<y, x>> \in OpToRel(<, Nat) <=> y < x
  BY DEF OpToRel
<1>3. \A x, y \in T : ~(y < x) => x <= y
  OBVIOUS
<1> QED BY <1>1, <1>2, <1>3

-----------------------------------------------------------------------------
(***************************************************************************)
(* CollectDelayTargets.  Every call it makes has fewer groups left to visit*)
(* than the call it is made by, so that the function exists, and what one  *)
(* call finds follows from what the calls it makes find.                   *)
(***************************************************************************)

\* What a call of Collected works out with the function f for the calls it makes.
Gathered == [added : SUBSET ProxyNames, visited : SUBSET ProxyGroups]
Begun(call) == [added |-> call.added \cup {call.name}, visited |-> call.visited \cup {call.name}]
Asking(call, n, r) ==
  [name |-> n, depth |-> call.depth + 1, added |-> r.added \cup {n}, visited |-> r.visited]
Opened(call) == call.name \in ProxyGroups /\ call.name \notin call.visited /\ call.depth <= DepthLimit
IsUpto(u, f, nodes, call, n) ==
  u = [i \in 0..n |-> IF i = 0 THEN Begun(call) ELSE f[Asking(call, nodes[i], u[i - 1])]]
Body(f, call) ==
  IF call.name \notin ProxyGroups \/ call.name \in call.visited \/ call.depth > DepthLimit
  THEN [added |-> call.added \cup {call.name}, visited |-> call.visited]
  ELSE LET nodes == SetToSeq(members[call.name])
           u == CHOOSE u : IsUpto(u, f, nodes, call, Len(nodes))
       IN u[Len(nodes)]

LEMMA CollectedIs ==
  Collected = CHOOSE f : f = [call \in Visit |-> Body(f, call)]
BY DEF Collected, Body, IsUpto, Begun, Asking

\* A finite set is listed with each element once.
LEMMA ListedOnce ==
  ASSUME NEW S, IsFiniteSet(S)
  PROVE  /\ SetToSeq(S) \in Seq(S) /\ IsInjective(SetToSeq(S))
         /\ Len(SetToSeq(S)) = Cardinality(S) /\ Cardinality(S) \in Nat
         /\ \A x \in S : \E i \in 1..Cardinality(S) : SetToSeq(S)[i] = x
<1> DEFINE n == Cardinality(S)
           s == SetToSeq(S)
<1>1. n \in Nat
  BY FS_CardinalityType
<1>2. \E g \in [1..n -> S] : IsInjective(g)
  <2>1. PICK m \in Nat : ExistsBijection(1..m, S)
    BY FS_NatBijection
  <2>2. n = m
    BY <2>1, FS_CountingElements
  <2> QED BY <2>1, <2>2 DEF ExistsBijection, Bijection, Injection
<1>3. s \in [1..n -> S] /\ IsInjective(s)
  BY <1>2 DEF SetToSeq
<1> HIDE DEF s, n
<1>4. s \in Seq(S) /\ DOMAIN s = 1..n
  BY <1>1, <1>3, SeqDef
<1>5. Len(s) = n
  BY <1>1, <1>4, LenProperties
<1>6. s \in Surjection(1..n, S)
  <2>1. IsFiniteSet(1..n) /\ Cardinality(1..n) = n
    <3>1. 1 \in Int /\ n \in Int
      BY <1>1
    <3>2. IsFiniteSet(1..n) /\ Cardinality(1..n) = IF 1 > n THEN 0 ELSE n - 1 + 1
      BY <3>1, FS_Interval
    <3> QED BY <1>1, <3>2
  <2>2. s \in Injection(1..n, S)
    BY <1>3 DEF Injection
  <2>3. Cardinality(S) = n
    BY DEF n
  <2> QED BY <2>1, <2>2, <2>3, FS_Injection
<1> QED BY <1>1, <1>3, <1>4, <1>5, <1>6 DEF Surjection, s, n

\* Groups that are left to visit.
LEMMA LeftTyped ==
  \A seen : IsFiniteSet(ProxyGroups \ seen) /\ Cardinality(ProxyGroups \ seen) \in Nat
<1>1. IsFiniteSet(ProxyGroups)
  <2>1. IsFiniteSet(ProxyGroups \cup ProxyLeaves) /\ ProxyGroups \in SUBSET (ProxyGroups \cup ProxyLeaves)
    BY LatencyAssumption
  <2> QED BY <2>1, FS_Subset
<1> QED BY <1>1, FS_Difference, FS_CardinalityType

LEMMA FewerLeft ==
  ASSUME NEW k \in Nat, NEW seen, Cardinality(ProxyGroups \ seen) <= k,
         NEW g \in ProxyGroups, g \notin seen, NEW more, seen \cup {g} \subseteq more
  PROVE  k # 0 /\ Cardinality(ProxyGroups \ more) <= k - 1
<1> DEFINE L == ProxyGroups \ seen
           M == ProxyGroups \ more
<1>1. IsFiniteSet(L) /\ M \in SUBSET (L \ {g}) /\ g \in L /\ Cardinality(L) <= k
  BY LeftTyped
<1>2. Cardinality(L) \in Nat /\ Cardinality(M) \in Nat
  BY LeftTyped
<1> HIDE DEF L, M
<1>3. IsFiniteSet(L \ {g}) /\ Cardinality(L \ {g}) = Cardinality(L) - 1
  <2>1. Cardinality(L \ {g}) = (IF g \in L THEN Cardinality(L) - 1 ELSE Cardinality(L))
    BY <1>1, FS_RemoveElement
  <2> QED BY <1>1, <2>1, FS_RemoveElement
<1>4. Cardinality(M) <= Cardinality(L \ {g})
  BY <1>1, <1>3, FS_Subset
<1>5. k # 0 /\ Cardinality(M) <= k - 1
  BY <1>1, <1>2, <1>3, <1>4
<1> QED BY <1>5 DEF M

\* The nodes of a group.
LEMMA NodesListed ==
  ASSUME members \in [ProxyGroups -> SUBSET ProxyNames], NEW g \in ProxyGroups
  PROVE  /\ Len(SetToSeq(members[g])) \in Nat
         /\ \A i \in 1..Len(SetToSeq(members[g])) :
              SetToSeq(members[g])[i] \in members[g] /\ SetToSeq(members[g])[i] \in ProxyNames
         /\ \A x \in members[g] : \E i \in 1..Len(SetToSeq(members[g])) : SetToSeq(members[g])[i] = x
<1> DEFINE nodes == SetToSeq(members[g])
<1>1. members[g] \in SUBSET ProxyNames /\ IsFiniteSet(ProxyNames)
  BY LatencyAssumption DEF ProxyNames
<1>2. IsFiniteSet(members[g])
  BY <1>1, FS_Subset
<1>3. /\ nodes \in Seq(members[g]) /\ Len(nodes) = Cardinality(members[g]) /\ Len(nodes) \in Nat
      /\ \A x \in members[g] : \E i \in 1..Cardinality(members[g]) : nodes[i] = x
  BY <1>2, ListedOnce
<1> HIDE DEF nodes
<1>4. \A i \in 1..Len(nodes) : nodes[i] \in members[g]
  BY <1>3
<1> QED BY <1>1, <1>3, <1>4 DEF nodes

\* The walk over the nodes of a group exists, whatever the calls find.
LEMMA UptoExists ==
  ASSUME NEW f, NEW nodes, NEW call, NEW n \in Nat
  PROVE  \E u : IsUpto(u, f, nodes, call, n)
<1> DEFINE T == { k \in Nat : ~ \E u : IsUpto(u, f, nodes, call, k) }
<1> SUFFICES ASSUME T # {} PROVE FALSE
  OBVIOUS
<1>1. PICK k \in T : \A y \in T : k <= y
  <2>1. T \in SUBSET Nat
    OBVIOUS
  <2> HIDE DEF T
  <2> QED BY <2>1, LeastOf
<1>2. k \in Nat /\ ~ \E u : IsUpto(u, f, nodes, call, k)
  OBVIOUS
<1>3. k # 0
  <2> DEFINE none == [i \in 0..0 |-> Begun(call)]
  <2>1. none = [i \in 0..0 |-> IF i = 0 THEN Begun(call) ELSE f[Asking(call, nodes[i], none[i - 1])]]
    OBVIOUS
  <2> HIDE DEF none
  <2>2. IsUpto(none, f, nodes, call, 0)
    BY <2>1 DEF IsUpto
  <2> QED BY <1>2, <2>2
<1>4. PICK u : IsUpto(u, f, nodes, call, k - 1)
  <2>1. k - 1 \in Nat /\ ~(k <= k - 1)
    BY <1>2, <1>3
  <2>2. k - 1 \notin T
    BY <1>1, <2>1
  <2> QED BY <2>1, <2>2
<1> DEFINE last == f[Asking(call, nodes[k], u[k - 1])]
           v == [i \in 0..k |-> IF i = k THEN last ELSE u[i]]
<1>5. ASSUME NEW i \in 0..k PROVE v[i] = IF i = 0 THEN Begun(call) ELSE f[Asking(call, nodes[i], v[i - 1])]
  <2>1. CASE i = k
    <3>1. k - 1 \in 0..k /\ k - 1 # k
      BY <1>2, <1>3
    <3>2. v[k - 1] = u[k - 1] /\ v[k] = last
      BY <1>2, <3>1
    <3> HIDE DEF v
    <3> QED BY <1>3, <2>1, <3>2
  <2>2. CASE i # k
    <3>1. i \in 0..(k - 1)
      BY <1>2, <2>2
    <3>2. u[i] = IF i = 0 THEN Begun(call) ELSE f[Asking(call, nodes[i], u[i - 1])]
      BY <1>4, <3>1 DEF IsUpto
    <3>3. v[i] = u[i]
      BY <2>2
    <3>4. i # 0 => i - 1 \in 0..k /\ i - 1 # k
      BY <1>2, <3>1
    <3>5. i # 0 => v[i - 1] = u[i - 1]
      BY <3>4
    <3> HIDE DEF v
    <3> QED BY <3>2, <3>3, <3>5
  <2> QED BY <2>1, <2>2
<1>6. v = [i \in 0..k |-> v[i]]
  OBVIOUS
<1> HIDE DEF v
<1>7. IsUpto(v, f, nodes, call, k)
  BY <1>5, <1>6 DEF IsUpto
<1> QED BY <1>2, <1>7

\* The nodes of every group have names.
MembersOK == members \in [ProxyGroups -> SUBSET ProxyNames]

\* Calls that have at most k groups left to visit.
Within(k) == { call \in Visit : Cardinality(ProxyGroups \ call.visited) <= k }

\* No call that is made below this one is too deep: the groups below it are few
\* levels, or on each level above it a group has been visited and there are few.
Below(rank, call) ==
  /\ rank \in [ProxyGroups -> 0..DepthLimit] /\ Ranked(rank)
  /\ call.name \in ProxyGroups => call.depth + rank[call.name] <= DepthLimit
InDepth(call) ==
  \/ \E rank : Below(rank, call)
  \/ Cardinality(ProxyGroups) <= DepthLimit + 1 /\ call.depth <= Cardinality(call.visited)

\* What a call finds: more than it was given, and nothing that it does not reach; of
\* a group that was visited on the way all nodes were added; and if no call is too
\* deep, a group that was added on the way has been visited.
Finds(call, r) ==
  /\ r \in Gathered
  /\ call.added \cup {call.name} \subseteq r.added /\ call.visited \subseteq r.visited
  /\ InDepth(call) => r.added \cap ProxyGroups \subseteq r.visited \cup (call.added \ {call.name})
  /\ \A g \in r.visited : g \in call.visited \/ members[g] \subseteq r.added
  /\ \A S \in SUBSET ProxyNames : call.added \cup {call.name} \subseteq S /\ Whole(S) => r.added \subseteq S

\* The same on the way through the nodes of a group, after i of them.
Walked(call, nodes, i, r) ==
  /\ r \in Gathered
  /\ Begun(call).added \subseteq r.added /\ Begun(call).visited \subseteq r.visited
  /\ \A j \in 1..i : nodes[j] \in r.added
  /\ InDepth(call) => r.added \cap ProxyGroups \subseteq r.visited \cup call.added
  /\ \A g \in r.visited : g \in Begun(call).visited \/ members[g] \subseteq r.added
  /\ \A S \in SUBSET ProxyNames : call.added \cup {call.name} \subseteq S /\ Whole(S) => r.added \subseteq S

\* A group that fits and was not visited is opened, and what it asks for fits.
LEMMA InDepthOpened ==
  ASSUME NEW call \in Visit, InDepth(call), call.name \in ProxyGroups, call.name \notin call.visited
  PROVE  call.depth <= DepthLimit
<1>1. call.depth \in Nat /\ call.visited \in SUBSET ProxyGroups /\ DepthLimit \in Nat
  BY LimitsAssumption DEF Visit
<1>2. ASSUME NEW rank, Below(rank, call) PROVE call.depth <= DepthLimit
  <2>1. rank[call.name] \in 0..DepthLimit /\ call.depth + rank[call.name] <= DepthLimit
    BY <1>2 DEF Below
  <2> QED BY <1>1, <2>1
<1>3. ASSUME Cardinality(ProxyGroups) <= DepthLimit + 1, call.depth <= Cardinality(call.visited)
      PROVE  call.depth <= DepthLimit
  <2>1. IsFiniteSet(ProxyGroups \ {}) /\ Cardinality(ProxyGroups \ {}) \in Nat /\ ProxyGroups \ {} = ProxyGroups
    BY LeftTyped
  <2>2. IsFiniteSet(ProxyGroups) /\ Cardinality(ProxyGroups) \in Nat
    BY <2>1
  <2>3. /\ IsFiniteSet(ProxyGroups \ {call.name})
        /\ Cardinality(ProxyGroups \ {call.name}) = (IF call.name \in ProxyGroups THEN Cardinality(ProxyGroups) - 1
                                                      ELSE Cardinality(ProxyGroups))
    BY <2>2, FS_RemoveElement
  <2>4. call.visited \in SUBSET (ProxyGroups \ {call.name})
    BY <1>1
  <2>5. IsFiniteSet(call.visited) /\ Cardinality(call.visited) <= Cardinality(ProxyGroups \ {call.name})
    BY <2>3, <2>4, FS_Subset
  <2>6. Cardinality(call.visited) \in Nat
    BY <2>5, FS_CardinalityType
  <2> QED BY <1>1, <1>3, <2>2, <2>3, <2>5, <2>6
<1> QED BY <1>2, <1>3 DEF InDepth

LEMMA InDepthOn ==
  ASSUME MembersOK, NEW call \in Visit, Opened(call), InDepth(call),
         NEW n \in members[call.name],
         NEW r, r.visited \in SUBSET ProxyGroups, call.visited \cup {call.name} \subseteq r.visited
  PROVE  InDepth(Asking(call, n, r))
<1> DEFINE c == Asking(call, n, r)
<1>1. c.name = n /\ c.depth = call.depth + 1 /\ c.visited = r.visited
  BY DEF Asking
<1>2. /\ call.depth \in Nat /\ DepthLimit \in Nat /\ call.visited \in SUBSET ProxyGroups
      /\ call.name \in ProxyGroups /\ call.name \notin call.visited
  BY LimitsAssumption DEF Visit, Opened
<1> HIDE DEF c
<1>3. ASSUME NEW rank, Below(rank, call) PROVE Below(rank, c)
  <2>1. /\ rank \in [ProxyGroups -> 0..DepthLimit] /\ Ranked(rank)
        /\ rank[call.name] \in Nat /\ call.depth + rank[call.name] <= DepthLimit
    BY <1>2, <1>3 DEF Below
  <2>2. n \in ProxyGroups => rank[n] \in Nat /\ rank[n] < rank[call.name]
    BY <1>2, <2>1 DEF Ranked
  <2>3. n \in ProxyGroups => c.depth + rank[n] <= DepthLimit
    BY <1>1, <1>2, <2>1, <2>2
  <2> QED BY <1>1, <2>1, <2>3 DEF Below
<1>4. ASSUME call.depth <= Cardinality(call.visited) PROVE c.depth <= Cardinality(c.visited)
  <2>1. IsFiniteSet(ProxyGroups \ {}) /\ ProxyGroups \ {} = ProxyGroups
    BY LeftTyped
  <2>2. IsFiniteSet(call.visited) /\ IsFiniteSet(r.visited)
    BY <1>2, <2>1, FS_Subset
  <2>3. /\ IsFiniteSet(call.visited \cup {call.name})
        /\ Cardinality(call.visited \cup {call.name}) = (IF call.name \in call.visited THEN Cardinality(call.visited)
                                                          ELSE Cardinality(call.visited) + 1)
    BY <2>2, FS_AddElement
  <2>4. call.visited \cup {call.name} \in SUBSET r.visited
    OBVIOUS
  <2>5. Cardinality(call.visited \cup {call.name}) <= Cardinality(r.visited)
    BY <2>2, <2>4, FS_Subset
  <2>6. Cardinality(call.visited) \in Nat /\ Cardinality(r.visited) \in Nat
    BY <2>2, FS_CardinalityType
  <2> QED BY <1>1, <1>2, <1>4, <2>3, <2>5, <2>6
<1>5. InDepth(c)
  BY <1>3, <1>4 DEF InDepth
<1> QED BY <1>5 DEF c

\* A call that is made on the way has fewer groups left: its group was visited.
LEMMA CallsMade ==
  ASSUME NEW k \in Nat, NEW call \in Within(k), Opened(call),
         NEW nodes, NEW i, NEW r, Walked(call, nodes, i, r), NEW n \in ProxyNames
  PROVE  k # 0 /\ Asking(call, n, r) \in Within(k - 1)
<1>1. /\ r.added \in SUBSET ProxyNames /\ r.visited \in SUBSET ProxyGroups
      /\ call.visited \cup {call.name} \subseteq r.visited
  BY DEF Walked, Gathered, Begun
<1>2. Asking(call, n, r) \in Visit /\ Asking(call, n, r).visited = r.visited
  <2>1. call.depth + 1 \in 0..(DepthLimit + 1)
    BY LimitsAssumption DEF Opened, Within, Visit
  <2> QED BY <1>1, <2>1 DEF Asking, Visit
<1>3. Cardinality(ProxyGroups \ call.visited) <= k /\ call.name \in ProxyGroups /\ call.name \notin call.visited
  BY DEF Within, Opened
<1>4. k # 0 /\ Cardinality(ProxyGroups \ r.visited) <= k - 1
  BY <1>1, <1>3, FewerLeft
<1> QED BY <1>2, <1>4 DEF Within

\* One more node.
LEMMA WalkedOn ==
  ASSUME MembersOK, NEW call \in Visit, Opened(call), NEW nodes, NEW i \in Nat, i # 0,
         nodes[i] \in members[call.name],
         NEW r, Walked(call, nodes, i - 1, r),
         NEW q, Finds(Asking(call, nodes[i], r), q)
  PROVE  Walked(call, nodes, i, q)
<1> DEFINE c == Asking(call, nodes[i], r)
<1>0. InDepth(call) => InDepth(c)
  <2>1. r.visited \in SUBSET ProxyGroups /\ call.visited \cup {call.name} \subseteq r.visited
    BY DEF Walked, Gathered, Begun
  <2> QED BY <2>1, InDepthOn
<1>1. c.name = nodes[i] /\ c.added = r.added \cup {nodes[i]} /\ c.visited = r.visited
  BY DEF Asking
<1>2. /\ q \in Gathered /\ r.added \cup {nodes[i]} \subseteq q.added /\ r.visited \subseteq q.visited
      /\ InDepth(c) => q.added \cap ProxyGroups \subseteq q.visited \cup ((r.added \cup {nodes[i]}) \ {nodes[i]})
      /\ \A g \in q.visited : g \in r.visited \/ members[g] \subseteq q.added
      /\ \A S \in SUBSET ProxyNames : r.added \cup {nodes[i]} \subseteq S /\ Whole(S) => q.added \subseteq S
  BY <1>1 DEF Finds
<1> HIDE DEF c
<1>3. /\ Begun(call).added \subseteq r.added /\ Begun(call).visited \subseteq r.visited
      /\ \A j \in 1..(i - 1) : nodes[j] \in r.added
      /\ InDepth(call) => r.added \cap ProxyGroups \subseteq r.visited \cup call.added
      /\ \A g \in r.visited : g \in Begun(call).visited \/ members[g] \subseteq r.added
  BY DEF Walked
<1>4. \A j \in 1..i : nodes[j] \in q.added
  <2>1. \A j \in 1..i : j = i \/ j \in 1..(i - 1)
    OBVIOUS
  <2> QED BY <1>2, <1>3, <2>1
<1>5. InDepth(call) => q.added \cap ProxyGroups \subseteq q.visited \cup call.added
  BY <1>0, <1>2, <1>3
<1>6. \A g \in q.visited : g \in Begun(call).visited \/ members[g] \subseteq q.added
  <2> TAKE g \in q.visited
  <2>1. CASE g \in r.visited
    BY <1>2, <1>3, <2>1
  <2>2. CASE g \notin r.visited
    BY <1>2, <2>2
  <2> QED BY <2>1, <2>2
<1>7. ASSUME NEW S \in SUBSET ProxyNames, call.added \cup {call.name} \subseteq S, Whole(S) PROVE q.added \subseteq S
  <2>1. call.name \in S \cap ProxyGroups
    BY <1>7 DEF Opened
  <2>2. nodes[i] \in S
    BY <1>7, <2>1 DEF Whole
  <2>3. r.added \subseteq S
    BY <1>7 DEF Walked
  <2> QED BY <1>2, <1>7, <2>2, <2>3
<1>8. q \in Gathered /\ Begun(call).added \subseteq q.added /\ Begun(call).visited \subseteq q.visited
  BY <1>2, <1>3
<1> QED BY <1>4, <1>5, <1>6, <1>7, <1>8 DEF Walked

\* The walk keeps it, and the calls it makes have fewer groups left.
LEMMA WalkedUpto ==
  ASSUME MembersOK, NEW k \in Nat, NEW call \in Within(k), Opened(call),
         NEW nodes, NEW n \in Nat, \A i \in 1..n : nodes[i] \in members[call.name],
         NEW f, k # 0 => \A c \in Within(k - 1) : Finds(c, f[c]),
         NEW u, IsUpto(u, f, nodes, call, n)
  PROVE  /\ \A i \in 0..n : Walked(call, nodes, i, u[i])
         /\ \A i \in 1..n : Asking(call, nodes[i], u[i - 1]) \in Within(k - 1)
<1> DEFINE T == { i \in 0..n : ~Walked(call, nodes, i, u[i]) }
<1>1. \A i \in 0..n : u[i] = IF i = 0 THEN Begun(call) ELSE f[Asking(call, nodes[i], u[i - 1])]
  BY DEF IsUpto
<1>2. call \in Visit
  BY DEF Within
<1>3. \A i \in 1..n : nodes[i] \in ProxyNames
  BY DEF MembersOK, Opened
<1>4. T = {}
  <2> SUFFICES ASSUME T # {} PROVE FALSE
    OBVIOUS
  <2>1. PICK i \in T : \A y \in T : i <= y
    <3>1. T \in SUBSET Nat
      OBVIOUS
    <3> HIDE DEF T
    <3> QED BY <3>1, LeastOf
  <2>2. i \in 0..n /\ ~Walked(call, nodes, i, u[i])
    OBVIOUS
  <2>3. CASE i = 0
    <3>1. u[i] = Begun(call)
      BY <1>1, <2>2, <2>3
    <3>2. Walked(call, nodes, 0, Begun(call))
      BY <1>2 DEF Walked, Begun, Gathered, Visit, Opened
    <3> QED BY <2>2, <2>3, <3>1, <3>2
  <2>4. CASE i # 0
    <3>1. i - 1 \in 0..n /\ ~(i <= i - 1) /\ i \in 1..n /\ i \in Nat
      BY <2>2, <2>4
    <3>2. i - 1 \notin T
      BY <2>1, <3>1
    <3>3. Walked(call, nodes, i - 1, u[i - 1])
      BY <3>1, <3>2
    <3>4. k # 0 /\ Asking(call, nodes[i], u[i - 1]) \in Within(k - 1)
      BY <1>3, <3>1, <3>3, CallsMade
    <3>5. u[i] = f[Asking(call, nodes[i], u[i - 1])]
      BY <1>1, <2>2, <2>4
    <3>6. Finds(Asking(call, nodes[i], u[i - 1]), u[i])
      BY <3>4, <3>5
    <3>7. nodes[i] \in members[call.name]
      BY <3>1
    <3> HIDE DEF T
    <3>8. Walked(call, nodes, i, u[i])
      BY <1>2, <2>4, <3>1, <3>3, <3>6, <3>7, WalkedOn
    <3> QED BY <2>2, <3>8
  <2> QED BY <2>3, <2>4
<1>5. ASSUME NEW i \in 1..n PROVE Asking(call, nodes[i], u[i - 1]) \in Within(k - 1)
  <2>1. i - 1 \in 0..n
    OBVIOUS
  <2>2. Walked(call, nodes, i - 1, u[i - 1])
    BY <1>4, <2>1
  <2> QED BY <1>3, <2>2, CallsMade
<1> QED BY <1>4, <1>5

\* A call finds what it should if the calls it makes do.
LEMMA BodyFinds ==
  ASSUME MembersOK, NEW k \in Nat, NEW call \in Within(k),
         NEW f, k # 0 => \A c \in Within(k - 1) : Finds(c, f[c])
  PROVE  Finds(call, Body(f, call))
<1>1. call \in Visit /\ call.name \in ProxyNames /\ call.added \in SUBSET ProxyNames /\ call.visited \in SUBSET ProxyGroups
  BY DEF Within, Visit
<1>2. CASE ~Opened(call)
  <2>0. call.depth \in Int /\ DepthLimit \in Int
    BY <1>1, LimitsAssumption DEF Visit
  <2>1. Body(f, call) = [added |-> call.added \cup {call.name}, visited |-> call.visited]
    BY <1>2, <2>0 DEF Body, Opened
  <2>2. InDepth(call) => call.name \notin ProxyGroups \/ call.name \in call.visited
    BY <1>1, <1>2, InDepthOpened DEF Opened
  <2> QED BY <1>1, <2>1, <2>2 DEF Finds, Gathered
<1>3. CASE Opened(call)
  <2> DEFINE nodes == SetToSeq(members[call.name])
             u == CHOOSE u : IsUpto(u, f, nodes, call, Len(nodes))
  <2>0. call.name \in ProxyGroups /\ call.name \notin call.visited /\ ~(call.depth > DepthLimit)
    BY <1>1, <1>3, LimitsAssumption DEF Opened, Visit
  <2>1. Body(f, call) = u[Len(nodes)]
    BY <2>0 DEF Body
  <2>2. /\ Len(nodes) \in Nat /\ \A i \in 1..Len(nodes) : nodes[i] \in members[call.name]
        /\ \A x \in members[call.name] : \E i \in 1..Len(nodes) : nodes[i] = x
    BY <2>0, NodesListed DEF MembersOK
  <2> HIDE DEF nodes
  <2>3. IsUpto(u, f, nodes, call, Len(nodes))
    BY <2>2, UptoExists
  <2> HIDE DEF u
  <2>4. Walked(call, nodes, Len(nodes), u[Len(nodes)])
    <3>1. Len(nodes) \in 0..Len(nodes)
      BY <2>2
    <3>2. \A i \in 0..Len(nodes) : Walked(call, nodes, i, u[i])
      BY <1>3, <2>2, <2>3, WalkedUpto
    <3> QED BY <3>1, <3>2
  <2> DEFINE r == u[Len(nodes)]
  <2>5. /\ r \in Gathered /\ call.added \cup {call.name} \subseteq r.added /\ call.visited \cup {call.name} \subseteq r.visited
        /\ \A j \in 1..Len(nodes) : nodes[j] \in r.added
        /\ InDepth(call) => r.added \cap ProxyGroups \subseteq r.visited \cup call.added
        /\ \A g \in r.visited : g \in call.visited \cup {call.name} \/ members[g] \subseteq r.added
        /\ \A S \in SUBSET ProxyNames : call.added \cup {call.name} \subseteq S /\ Whole(S) => r.added \subseteq S
    BY <2>4 DEF Walked, Begun
  <2> HIDE DEF r
  <2>6. members[call.name] \subseteq r.added
    BY <2>2, <2>5
  <2>7. \A g \in r.visited : g \in call.visited \/ members[g] \subseteq r.added
    BY <2>5, <2>6
  <2>8. InDepth(call) => r.added \cap ProxyGroups \subseteq r.visited \cup (call.added \ {call.name})
    BY <2>5
  <2>9. Finds(call, r)
    BY <2>5, <2>7, <2>8 DEF Finds
  <2> QED BY <2>1, <2>9 DEF r
<1> QED BY <1>2, <1>3

\* f finds what it should for calls with fewer groups left than k; the first n
\* nodes are nodes of the group.
Told(f, k) == k # 0 => \A c \in Within(k - 1) : Finds(c, f[c])
Named(call, nodes, n) == \A i \in 1..n : nodes[i] \in members[call.name]

\* Two functions that are one for calls with fewer groups left.
Alike(f, h, k) == k # 0 => \A c \in Within(k - 1) : h[c] = f[c]

\* A walk depends on the calls it makes alone.
LEMMA SameWalk ==
  ASSUME MembersOK, NEW k \in Nat, NEW call \in Within(k), Opened(call),
         NEW nodes, NEW n \in Nat, Named(call, nodes, n),
         NEW f, Told(f, k),
         NEW h, Alike(f, h, k),
         NEW u, IsUpto(u, f, nodes, call, n),
         NEW v, IsUpto(v, h, nodes, call, n)
  PROVE  u[n] = v[n]
<1> DEFINE T == { i \in 0..n : u[i] # v[i] }
<1>1. \A i \in 0..n : u[i] = IF i = 0 THEN Begun(call) ELSE f[Asking(call, nodes[i], u[i - 1])]
  BY DEF IsUpto
<1>2. \A i \in 0..n : v[i] = IF i = 0 THEN Begun(call) ELSE h[Asking(call, nodes[i], v[i - 1])]
  BY DEF IsUpto
<1>3. \A i \in 1..n : k # 0 /\ Asking(call, nodes[i], u[i - 1]) \in Within(k - 1)
  <2>0. \A i \in 1..n : nodes[i] \in members[call.name] /\ nodes[i] \in ProxyNames
    BY DEF Named, MembersOK, Opened
  <2>1. \A i \in 0..n : Walked(call, nodes, i, u[i])
    BY <2>0, WalkedUpto DEF Told
  <2> TAKE i \in 1..n
  <2>2. i - 1 \in 0..n
    OBVIOUS
  <2>3. Walked(call, nodes, i - 1, u[i - 1]) /\ nodes[i] \in ProxyNames
    BY <2>0, <2>1, <2>2
  <2> QED BY <2>3, CallsMade
<1>4. T = {}
  <2> SUFFICES ASSUME T # {} PROVE FALSE
    OBVIOUS
  <2>1. PICK i \in T : \A y \in T : i <= y
    <3>1. T \in SUBSET Nat
      OBVIOUS
    <3> HIDE DEF T
    <3> QED BY <3>1, LeastOf
  <2>2. i \in 0..n /\ u[i] # v[i]
    OBVIOUS
  <2>3. i # 0
    BY <1>1, <1>2, <2>2
  <2>4. i - 1 \in 0..n /\ ~(i <= i - 1) /\ i \in 1..n
    BY <2>2, <2>3
  <2>5. i - 1 \notin T
    BY <2>1, <2>4
  <2>6. u[i - 1] = v[i - 1]
    BY <2>4, <2>5
  <2> HIDE DEF T
  <2>7. f[Asking(call, nodes[i], u[i - 1])] = h[Asking(call, nodes[i], u[i - 1])]
    BY <1>3, <2>4 DEF Alike
  <2> QED BY <1>1, <1>2, <2>2, <2>3, <2>6, <2>7
<1> QED BY <1>4

\* What a call works out depends on the calls it makes alone.
LEMMA BodySame ==
  ASSUME MembersOK, NEW k \in Nat, NEW call \in Within(k),
         NEW f, k # 0 => \A c \in Within(k - 1) : Finds(c, f[c]),
         NEW h, Alike(f, h, k)
  PROVE  Body(f, call) = Body(h, call)
<1>0. call.depth \in Int /\ DepthLimit \in Int
  BY LimitsAssumption DEF Within, Visit
<1>1. CASE ~Opened(call)
  BY <1>0, <1>1 DEF Body, Opened
<1>2. CASE Opened(call)
  <2> DEFINE nodes == SetToSeq(members[call.name])
             u == CHOOSE u : IsUpto(u, f, nodes, call, Len(nodes))
             v == CHOOSE v : IsUpto(v, h, nodes, call, Len(nodes))
  <2>0. call.name \in ProxyGroups /\ call.name \notin call.visited /\ ~(call.depth > DepthLimit)
    BY <1>0, <1>2 DEF Opened
  <2>1. Body(f, call) = u[Len(nodes)] /\ Body(h, call) = v[Len(nodes)]
    BY <2>0 DEF Body
  <2>2. Len(nodes) \in Nat /\ \A i \in 1..Len(nodes) : nodes[i] \in members[call.name]
    BY <2>0, NodesListed DEF MembersOK
  <2> HIDE DEF nodes
  <2>3. IsUpto(u, f, nodes, call, Len(nodes)) /\ IsUpto(v, h, nodes, call, Len(nodes))
    BY <2>2, UptoExists
  <2> HIDE DEF u, v
  <2> DEFINE n == Len(nodes)
  <2>4. n \in Nat /\ Named(call, nodes, n) /\ Told(f, k)
        /\ IsUpto(u, f, nodes, call, n) /\ IsUpto(v, h, nodes, call, n)
    BY <2>2, <2>3 DEF Named, Told
  <2>5. Body(f, call) = u[n] /\ Body(h, call) = v[n]
    BY <2>1
  <2> HIDE DEF n
  <2>6. u[n] = v[n]
    BY <1>2, <2>4, SameWalk
  <2> QED BY <2>5, <2>6
<1> QED BY <1>1, <1>2

\* A function that is what the calls work out, for calls that have at most k
\* groups left.
Solves(f, k) == f = [call \in Within(k) |-> Body(f, call)]

\* Fewer groups left is within more.
LEMMA WithinLess ==
  ASSUME NEW i \in Nat, NEW k \in Nat, i <= k
  PROVE  Within(i) \subseteq Within(k)
BY LeftTyped DEF Within

\* Whatever works it out, finds what it should.
LEMMA SolvedFinds ==
  ASSUME MembersOK, NEW k \in Nat, NEW D, Within(k) \subseteq D,
         NEW f, \A call \in D : f[call] = Body(f, call)
  PROVE  \A call \in Within(k) : Finds(call, f[call])
<1> DEFINE T == { j \in 0..k : ~ \A call \in Within(j) : Finds(call, f[call]) }
<1>1. T = {}
  <2> SUFFICES ASSUME T # {} PROVE FALSE
    OBVIOUS
  <2>1. PICK j \in T : \A y \in T : j <= y
    <3>1. T \in SUBSET Nat
      OBVIOUS
    <3> HIDE DEF T
    <3> QED BY <3>1, LeastOf
  <2>2. j \in 0..k /\ j \in Nat /\ ~ \A call \in Within(j) : Finds(call, f[call])
    OBVIOUS
  <2>3. j # 0 => \A c \in Within(j - 1) : Finds(c, f[c])
    <3> SUFFICES ASSUME j # 0 PROVE \A c \in Within(j - 1) : Finds(c, f[c])
      OBVIOUS
    <3>1. j - 1 \in 0..k /\ ~(j <= j - 1)
      BY <2>2
    <3>2. j - 1 \notin T
      BY <2>1, <3>1
    <3> QED BY <3>1, <3>2
  <2> HIDE DEF T
  <2>4. Within(j) \subseteq D
    BY <2>2, WithinLess
  <2>5. ASSUME NEW call \in Within(j) PROVE Finds(call, f[call])
    <3>1. Finds(call, Body(f, call))
      BY <2>2, <2>3, BodyFinds
    <3>2. f[call] = Body(f, call)
      BY <2>4
    <3> QED BY <3>1, <3>2
  <2> QED BY <2>2, <2>5
<1> QED BY <1>1

\* Such a function exists: the one for fewer groups is carried on.
LEMMA SolutionExists ==
  ASSUME MembersOK, NEW n \in Nat
  PROVE  \E f : Solves(f, n)
<1> DEFINE T == { k \in Nat : ~ \E f : Solves(f, k) }
<1> SUFFICES ASSUME T # {} PROVE FALSE
  OBVIOUS
<1>1. PICK k \in T : \A y \in T : k <= y
  <2>1. T \in SUBSET Nat
    OBVIOUS
  <2> HIDE DEF T
  <2> QED BY <2>1, LeastOf
<1>2. k \in Nat /\ ~ \E f : Solves(f, k)
  OBVIOUS
<1>3. \E f : k # 0 => Solves(f, k - 1)
  <2>1. CASE k = 0
    BY <2>1
  <2>2. CASE k # 0
    <3>1. k - 1 \in Nat /\ ~(k <= k - 1)
      BY <1>2, <2>2
    <3>2. k - 1 \notin T
      BY <1>1, <3>1
    <3> QED BY <3>1, <3>2
  <2> QED BY <2>1, <2>2
<1> HIDE DEF T
<1>4. PICK f : k # 0 => Solves(f, k - 1)
  BY <1>3
<1>5. k # 0 => \A c \in Within(k - 1) : Finds(c, f[c]) /\ f[c] = Body(f, c)
  <2> SUFFICES ASSUME k # 0 PROVE \A c \in Within(k - 1) : Finds(c, f[c]) /\ f[c] = Body(f, c)
    OBVIOUS
  <2>1. k - 1 \in Nat
    BY <1>2
  <2>2. \A c \in Within(k - 1) : f[c] = Body(f, c)
    BY <1>4 DEF Solves
  <2>3. \A c \in Within(k - 1) : Finds(c, f[c])
    BY <2>1, <2>2, SolvedFinds
  <2> QED BY <2>2, <2>3
<1> DEFINE h == [call \in Within(k) |-> Body(f, call)]
<1>6. k # 0 => \A c \in Within(k - 1) : h[c] = f[c]
  <2> SUFFICES ASSUME k # 0, NEW c \in Within(k - 1) PROVE h[c] = f[c]
    OBVIOUS
  <2>1. k - 1 \in Nat /\ k - 1 <= k
    BY <1>2
  <2>2. c \in Within(k)
    BY <1>2, <2>1, WithinLess
  <2> QED BY <1>5, <2>2
<1>7. \A call \in Within(k) : h[call] = Body(f, call)
  OBVIOUS
<1>8. h = [call \in Within(k) |-> h[call]]
  OBVIOUS
<1> HIDE DEF h
<1>9. \A call \in Within(k) : Body(f, call) = Body(h, call)
  BY <1>2, <1>5, <1>6, BodySame DEF Alike
<1>10. Solves(h, k)
  BY <1>7, <1>8, <1>9 DEF Solves
<1> QED BY <1>2, <1>10

\* What collectDelayTargets finds, whatever the groups contain.
LEMMA CollectedFinds ==
  ASSUME MembersOK, NEW call \in Visit
  PROVE  Finds(call, Collected[call])
<1> DEFINE K == Cardinality(ProxyGroups)
<1>1. IsFiniteSet(ProxyGroups) /\ K \in Nat
  <2>1. IsFiniteSet(ProxyGroups \cup ProxyLeaves) /\ ProxyGroups \in SUBSET (ProxyGroups \cup ProxyLeaves)
    BY LatencyAssumption
  <2> QED BY <2>1, FS_Subset, FS_CardinalityType
<1>2. Within(K) = Visit
  <2> SUFFICES ASSUME NEW c \in Visit PROVE Cardinality(ProxyGroups \ c.visited) <= K
    BY DEF Within
  <2>1. ProxyGroups \ c.visited \in SUBSET ProxyGroups
    OBVIOUS
  <2> QED BY <1>1, <2>1, FS_Subset
<1> HIDE DEF K
<1>3. \E f : f = [c \in Visit |-> Body(f, c)]
  BY <1>1, <1>2, SolutionExists DEF Solves
<1>4. Collected = [c \in Visit |-> Body(Collected, c)]
  BY <1>3, CollectedIs
<1>5. \A c \in Visit : Collected[c] = Body(Collected, c)
  BY <1>4
<1> QED BY <1>1, <1>2, <1>5, SolvedFinds

\* What is found for a group: the group, nothing it does not reach, and all it
\* reaches if no group is too deep.
LEMMA TargetsFound ==
  ASSUME MembersOK, NEW name \in ProxyNames, NEW names, names = CollectDelayTargets(name)
  PROVE  /\ names \in SUBSET ProxyNames /\ name \in names
         /\ Shallow => Whole(names)
         /\ \A S \in SUBSET ProxyNames : name \in S /\ Whole(S) => names \subseteq S
<1> DEFINE call == [name |-> name, depth |-> 0, added |-> {}, visited |-> {}]
           r == Collected[call]
<1>1. call \in Visit /\ call.name = name /\ call.depth = 0 /\ call.added = {} /\ call.visited = {}
  BY LimitsAssumption DEF Visit
<1>2. names = r.added
  BY DEF CollectDelayTargets
<1> HIDE DEF call
<1>3. Finds(call, r)
  BY <1>1, CollectedFinds
<1> HIDE DEF r
<1>4. Shallow => InDepth(call)
  <2>1. ASSUME NEW rank \in [ProxyGroups -> 0..DepthLimit], Ranked(rank) PROVE Below(rank, call)
    <3>1. name \in ProxyGroups => 0 + rank[name] <= DepthLimit
      BY LimitsAssumption
    <3> QED BY <1>1, <2>1, <3>1 DEF Below
  <2>2. Cardinality(call.visited) = 0
    BY <1>1, FS_EmptySet
  <2>3. call.depth <= Cardinality(call.visited)
    BY <1>1, <2>2
  <2> QED BY <2>1, <2>3 DEF Shallow, InDepth
<1>5. r.added \in SUBSET ProxyNames /\ name \in r.added
  BY <1>1, <1>3 DEF Finds, Gathered
<1>6. \A g \in r.visited : members[g] \subseteq r.added
  BY <1>1, <1>3 DEF Finds
<1>7. InDepth(call) => r.added \cap ProxyGroups \subseteq r.visited
  BY <1>1, <1>3 DEF Finds
<1>8. Shallow => Whole(r.added)
  BY <1>4, <1>6, <1>7 DEF Whole
<1>9. \A S \in SUBSET ProxyNames : name \in S /\ Whole(S) => r.added \subseteq S
  BY <1>1, <1>3 DEF Finds
<1> QED BY <1>2, <1>5, <1>8, <1>9

\* A set of names as it is listed.
LEMMA NamesListed ==
  ASSUME NEW some \in SUBSET ProxyNames, NEW list, list = SetToSeq(some)
  PROVE  list \in Seq(ProxyNames) /\ IsInjective(list) /\ ToSet(list) = some
<1>1. IsFiniteSet(some)
  <2>1. IsFiniteSet(ProxyNames)
    BY LatencyAssumption DEF ProxyNames
  <2> QED BY <2>1, FS_Subset
<1>2. /\ list \in Seq(some) /\ IsInjective(list) /\ Len(list) = Cardinality(some) /\ Len(list) \in Nat
      /\ \A x \in some : \E i \in 1..Len(list) : list[i] = x
  BY <1>1, ListedOnce
<1>3. \A i \in 1..Len(list) : list[i] \in some
  BY <1>2
<1>4. ToSet(list) = some
  BY <1>2, <1>3 DEF ToSet
<1>5. list \in Seq(ProxyNames)
  <2>1. list \in [1..Len(list) -> ProxyNames]
    BY <1>2, <1>3
  <2> QED BY <1>2, <2>1, SeqDef
<1> QED BY <1>2, <1>4, <1>5

\* What is listed of it: the group, no more than TargetLimit, and all of it if that
\* is no more.
LEMMA TargetsSliced ==
  ASSUME NEW names \in SUBSET ProxyNames, NEW name \in names, NEW some \in Sliced(names, name)
  PROVE  /\ some \in SUBSET names /\ name \in some /\ Cardinality(some) <= TargetLimit
         /\ Cardinality(names) <= TargetLimit => some = names
<1>1. TargetLimit \in Nat
  BY LimitsAssumption
<1>2. CASE Cardinality(names) <= TargetLimit
  BY <1>2 DEF Sliced
<1>3. CASE ~(Cardinality(names) <= TargetLimit)
  BY <1>1, <1>3 DEF Sliced
<1> QED BY <1>2, <1>3

-----------------------------------------------------------------------------
(***************************************************************************)
(* AggregateGroupDelays, by the same induction.  What is remembered is     *)
(* reached; what answers nothing is in a set of names without a delay that *)
(* is left only through groups that wait; and as long as no loop leads back*)
(* to one of these, what is remembered and what is answered is the best.   *)
(***************************************************************************)

\* What a call of Resolve works out with the function f for the calls it makes.
Answer == [delay : Nat, next : Delays]
Resolving(n, next, waiting) == [name |-> n, next |-> next, visiting |-> waiting]
NoneYet(query) == [delays |-> {}, next |-> query.next]
Onwards(f, query, n, all) ==
  LET child == f[Resolving(n, all.next, query.visiting \cup {query.name})]
  IN [delays |-> all.delays \cup {child.delay}, next |-> child.next]
IsAll(u, f, nodes, query, n) ==
  u = [i \in 0..n |-> IF i = 0 THEN NoneYet(query) ELSE Onwards(f, query, nodes[i], u[i - 1])]
Ends(query, all) ==
  LET direct == query.next[query.name]
      delay == IF direct > 0 THEN direct ELSE MinOrZero(Positive(all.delays))
  IN [delay |-> delay, next |-> IF delay > 0 THEN [all.next EXCEPT ![query.name] = delay] ELSE all.next]
Works(f, query) ==
  IF query.name \notin ProxyGroups
  THEN [delay |-> LeafDelay(query.name, query.next), next |-> query.next]
  ELSE IF query.name \in query.visiting
  THEN [delay |-> query.next[query.name], next |-> query.next]
  ELSE LET nodes == SetToSeq(members[query.name])
           u == CHOOSE u : IsAll(u, f, nodes, query, Len(nodes))
       IN Ends(query, u[Len(nodes)])

LEMMA ResolveIs ==
  Resolve = CHOOSE f : f = [query \in Query |-> Works(f, query)]
BY DEF Resolve, Works, IsAll, Resolving, Ends, NoneYet, Onwards

\* The walk over the nodes of a group exists, whatever the calls answer.
LEMMA AllExists ==
  ASSUME NEW f, NEW nodes, NEW query, NEW n \in Nat
  PROVE  \E u : IsAll(u, f, nodes, query, n)
<1> DEFINE T == { k \in Nat : ~ \E u : IsAll(u, f, nodes, query, k) }
<1> SUFFICES ASSUME T # {} PROVE FALSE
  OBVIOUS
<1>1. PICK k \in T : \A y \in T : k <= y
  <2>1. T \in SUBSET Nat
    OBVIOUS
  <2> HIDE DEF T
  <2> QED BY <2>1, LeastOf
<1>2. k \in Nat /\ ~ \E u : IsAll(u, f, nodes, query, k)
  OBVIOUS
<1>3. k # 0
  <2> DEFINE first == [i \in 0..0 |-> NoneYet(query)]
  <2>1. first = [i \in 0..0 |-> IF i = 0 THEN NoneYet(query) ELSE Onwards(f, query, nodes[i], first[i - 1])]
    OBVIOUS
  <2> HIDE DEF first
  <2>2. IsAll(first, f, nodes, query, 0)
    BY <2>1 DEF IsAll
  <2> QED BY <1>2, <2>2
<1>4. PICK u : IsAll(u, f, nodes, query, k - 1)
  <2>1. k - 1 \in Nat /\ ~(k <= k - 1)
    BY <1>2, <1>3
  <2>2. k - 1 \notin T
    BY <1>1, <2>1
  <2> QED BY <2>1, <2>2
<1> DEFINE last == Onwards(f, query, nodes[k], u[k - 1])
           v == [i \in 0..k |-> IF i = k THEN last ELSE u[i]]
<1>5. ASSUME NEW i \in 0..k PROVE v[i] = IF i = 0 THEN NoneYet(query) ELSE Onwards(f, query, nodes[i], v[i - 1])
  <2>1. CASE i = k
    <3>1. k - 1 \in 0..k /\ k - 1 # k
      BY <1>2, <1>3
    <3>2. v[k - 1] = u[k - 1] /\ v[k] = last
      BY <1>2, <3>1
    <3> HIDE DEF v
    <3> QED BY <1>3, <2>1, <3>2
  <2>2. CASE i # k
    <3>1. i \in 0..(k - 1)
      BY <1>2, <2>2
    <3>2. u[i] = IF i = 0 THEN NoneYet(query) ELSE Onwards(f, query, nodes[i], u[i - 1])
      BY <1>4, <3>1 DEF IsAll
    <3>3. v[i] = u[i]
      BY <2>2
    <3>4. i # 0 => i - 1 \in 0..k /\ i - 1 # k
      BY <1>2, <3>1
    <3>5. i # 0 => v[i - 1] = u[i - 1]
      BY <3>4
    <3> HIDE DEF v
    <3> QED BY <3>2, <3>3, <3>5
  <2> QED BY <2>1, <2>2
<1>6. v = [i \in 0..k |-> v[i]]
  OBVIOUS
<1> HIDE DEF v
<1>7. IsAll(v, f, nodes, query, k)
  BY <1>5, <1>6 DEF IsAll
<1> QED BY <1>2, <1>7

\* What a group goes by is what its nodes go by.
LEMMA FrontierClosed ==
  ASSUME MembersOK, NEW n \in ProxyNames
  PROVE  Frontier(n) \in SUBSET ProxyNames /\ n \in Frontier(n) /\ Closed(Frontier(n))
<1>1. Frontier(n) \in SUBSET ProxyNames /\ n \in Frontier(n)
  BY DEF Frontier
<1>2. ASSUME NEW g \in Frontier(n), g \in ProxyGroups, results[g] = 0, NEW m \in members[g]
      PROVE  m \in Frontier(n)
  <2>1. m \in ProxyNames
    BY <1>2 DEF MembersOK
  <2>2. ASSUME NEW F \in SUBSET ProxyNames, n \in F, Closed(F) PROVE m \in F
    <3>1. g \in F
      BY <2>2, <1>2 DEF Frontier
    <3> QED BY <1>2, <2>2, <3>1 DEF Closed
  <2> QED BY <2>1, <2>2 DEF Frontier
<1> QED BY <1>1, <1>2 DEF Closed

LEMMA FrontierWithin ==
  ASSUME NEW n \in ProxyNames, NEW F \in SUBSET ProxyNames, n \in F, Closed(F)
  PROVE  Frontier(n) \subseteq F
BY DEF Frontier

LEMMA FrontierOne ==
  ASSUME MembersOK, NEW n \in ProxyNames, n \in ProxyGroups => results[n] # 0
  PROVE  Frontier(n) = {n}
<1>1. Closed({n})
  BY DEF Closed
<1> QED BY <1>1, FrontierWithin, FrontierClosed

LEMMA FrontierOf ==
  ASSUME MembersOK, NEW g \in ProxyGroups, results[g] = 0
  PROVE  Frontier(g) = {g} \cup UNION { Frontier(n) : n \in members[g] }
<1> DEFINE F == {g} \cup UNION { Frontier(n) : n \in members[g] }
<1>1. g \in ProxyNames /\ members[g] \subseteq ProxyNames
  BY DEF ProxyNames, MembersOK
<1>2. \A n \in members[g] : Frontier(n) \in SUBSET ProxyNames /\ n \in Frontier(n) /\ Closed(Frontier(n))
  BY <1>1, FrontierClosed
<1>3. F \in SUBSET ProxyNames /\ g \in F
  BY <1>1, <1>2
<1>4. Closed(F)
  <2> SUFFICES ASSUME NEW h \in F \cap ProxyGroups, results[h] = 0, NEW m \in members[h] PROVE m \in F
    BY DEF Closed
  <2>1. CASE h = g
    BY <1>2, <2>1
  <2>2. CASE h # g
    <3>1. PICK n \in members[g] : h \in Frontier(n)
      BY <2>2
    <3>2. m \in Frontier(n)
      BY <1>2, <3>1 DEF Closed
    <3> QED BY <3>2
  <2> QED BY <2>1, <2>2
<1>5. Frontier(g) \subseteq F
  BY <1>1, <1>3, <1>4, FrontierWithin
<1>6. Closed(Frontier(g)) /\ g \in Frontier(g) /\ Frontier(g) \in SUBSET ProxyNames
  BY <1>1, FrontierClosed
<1>7. \A n \in members[g] : n \in Frontier(g)
  BY <1>6 DEF Closed
<1>8. \A n \in members[g] : Frontier(n) \subseteq Frontier(g)
  BY <1>1, <1>6, <1>7, FrontierWithin
<1>9. F \subseteq Frontier(g)
  BY <1>6, <1>8
<1> QED BY <1>5, <1>9

\* The delay at a name.
At(n) == IF n \in ProxyGroups THEN results[n] ELSE LeafDelay(n, results)

LEMMA ReachedIs ==
  \A n, d : d \in Reached(n) <=> d # 0 /\ \E m \in Frontier(n) : d = At(m)
BY DEF Reached, At, Positive

LEMMA AtTyped ==
  ASSUME results \in Delays, NEW n \in ProxyNames
  PROVE  At(n) \in Nat
<1>1. n \in ProxyGroups => results[n] \in Nat
  BY DEF Delays
<1>2. n \notin ProxyGroups => results[n] \in Nat /\ Older[n] \in Nat
  BY LatencyAssumption DEF Delays, ProxyNames
<1> QED BY <1>1, <1>2 DEF At, LeafDelay

LEMMA ReachedFacts ==
  ASSUME MembersOK, results \in Delays, NEW n \in ProxyNames
  PROVE  /\ Reached(n) \subseteq Nat \ {0}
         /\ (n \in ProxyGroups => results[n] # 0) => Reached(n) = {At(n)} \ {0}
         /\ n \in ProxyGroups /\ results[n] = 0
              => \A d : d \in Reached(n) <=> \E m \in members[n] : d \in Reached(m)
<1>1. Frontier(n) \in SUBSET ProxyNames
  BY FrontierClosed
<1>2. Reached(n) \subseteq Nat \ {0}
  BY <1>1, AtTyped, ReachedIs
<1>3. ASSUME n \in ProxyGroups => results[n] # 0 PROVE Reached(n) = {At(n)} \ {0}
  <2>1. Frontier(n) = {n}
    BY <1>3, FrontierOne
  <2> QED BY <2>1, ReachedIs
<1>4. ASSUME n \in ProxyGroups, results[n] = 0, NEW d
      PROVE  d \in Reached(n) <=> \E m \in members[n] : d \in Reached(m)
  <2>1. Frontier(n) = {n} \cup UNION { Frontier(m) : m \in members[n] }
    BY <1>4, FrontierOf
  <2>2. At(n) = 0
    BY <1>4 DEF At
  <2>3. d \in Reached(n) <=> d # 0 /\ \E m \in members[n] : \E x \in Frontier(m) : d = At(x)
    BY <2>1, <2>2, ReachedIs
  <2> QED BY <2>3, ReachedIs
<1> QED BY <1>2, <1>3, <1>4

\* Delays that are known: what was measured, and otherwise one that is reached.
Known(next) ==
  /\ next \in Delays
  /\ \A n \in ProxyNames : (n \in ProxyGroups => results[n] > 0) => next[n] = results[n]
  /\ \A g \in ProxyGroups : next[g] > 0 => next[g] \in Reached(g)
BestIn(next) == \A g \in ProxyGroups : next[g] > 0 => \A d \in Reached(g) : next[g] <= d

\* Names that have no delay, and reach only such, but for what the groups that
\* wait reach.
Bare(F, waiting) ==
  /\ F \in SUBSET ProxyNames
  /\ \A n \in F : At(n) = 0 /\ (n \in ProxyGroups => n \in waiting \/ members[n] \subseteq F)

\* No loop leads back to a group that waits.
Under(rank, query) ==
  /\ rank \in Ranks /\ Ranked(rank) /\ BestIn(query.next)
  /\ query.name \in ProxyGroups => \A g \in query.visiting : rank[query.name] < rank[g]

\* What a call of Resolve answers.
AnswersWell(query, r, rank) ==
  /\ r \in Answer
  /\ Known(query.next) =>
       /\ Known(r.next)
       /\ r.delay > 0 => r.delay \in Reached(query.name)
       /\ r.delay = 0 => \E F : query.name \in F /\ Bare(F, query.visiting)
       /\ r.delay > 0 /\ query.name \in ProxyGroups \ query.visiting => r.next[query.name] = r.delay
       /\ Under(rank, query) => BestIn(r.next) /\ \A d \in Reached(query.name) : r.delay # 0 /\ r.delay <= d

\* The same of the first i nodes of a group.
Child(query, n, c, rank) ==
  /\ c = 0 => \E F : n \in F /\ Bare(F, query.visiting \cup {query.name})
  /\ Under(rank, query) => \A d \in Reached(n) : c # 0 /\ c <= d
AllOf(query, nodes, i, all, rank) ==
  /\ all \in [delays : SUBSET Nat, next : Delays]
  /\ Known(query.next) =>
       /\ Known(all.next)
       /\ \A c \in all.delays : c > 0 => \E j \in 1..i : c \in Reached(nodes[j])
       /\ \A j \in 1..i : \E c \in all.delays : Child(query, nodes[j], c, rank)
       /\ Under(rank, query) => BestIn(all.next)

\* A call for one node: fewer groups are left, and no loop leads back if none did.
WithinQ(k) == { query \in Query : Cardinality(ProxyGroups \ query.visiting) <= k }

LEMMA ChildAsked ==
  ASSUME NEW k \in Nat, NEW query \in WithinQ(k), query.name \in ProxyGroups, query.name \notin query.visiting,
         NEW next \in Delays, NEW n \in ProxyNames
  PROVE  k # 0 /\ Resolving(n, next, query.visiting \cup {query.name}) \in WithinQ(k - 1)
<1> DEFINE w == query.visiting \cup {query.name}
           q == Resolving(n, next, w)
<1>1. Cardinality(ProxyGroups \ query.visiting) <= k /\ query.visiting \in SUBSET ProxyGroups
  BY DEF WithinQ, Query
<1>2. k # 0 /\ Cardinality(ProxyGroups \ w) <= k - 1
  BY <1>1, FewerLeft
<1>3. q \in Query /\ q.visiting = w
  BY <1>1 DEF Resolving, Query
<1> HIDE DEF q, w
<1> QED BY <1>2, <1>3 DEF WithinQ, q, w

LEMMA ChildUnder ==
  ASSUME MembersOK, NEW rank, NEW query \in Query, Under(rank, query), query.name \in ProxyGroups,
         NEW n \in members[query.name], NEW next, BestIn(next)
  PROVE  Under(rank, Resolving(n, next, query.visiting \cup {query.name}))
<1> DEFINE q == Resolving(n, next, query.visiting \cup {query.name})
<1>1. q.name = n /\ q.next = next /\ q.visiting = query.visiting \cup {query.name}
  BY DEF Resolving
<1>2. /\ rank \in [ProxyGroups -> 1..Cardinality(ProxyGroups)] /\ query.visiting \in SUBSET ProxyGroups
      /\ \A g \in query.visiting : rank[query.name] < rank[g]
      /\ n \in ProxyGroups => rank[n] < rank[query.name]
  BY DEF Under, Ranks, Ranked, Query
<1>3. n \in ProxyGroups => \A g \in q.visiting : rank[n] < rank[g]
  <2> SUFFICES ASSUME n \in ProxyGroups, NEW g \in q.visiting PROVE rank[n] < rank[g]
    OBVIOUS
  <2>1. \A h \in ProxyGroups : rank[h] \in Int
    BY <1>2
  <2>2. g \in ProxyGroups /\ (g = query.name \/ rank[query.name] < rank[g])
    BY <1>1, <1>2
  <2> QED BY <1>2, <2>1, <2>2
<1> HIDE DEF q
<1> QED BY <1>1, <1>3 DEF Under, q

\* One more node.
LEMMA OneMoreNode ==
  ASSUME MembersOK, results \in Delays, NEW rank, NEW query \in Query, query.name \in ProxyGroups,
         NEW nodes, NEW i \in Nat, i # 0, nodes[i] \in members[query.name],
         NEW all, AllOf(query, nodes, i - 1, all, rank),
         NEW f, AnswersWell(Resolving(nodes[i], all.next, query.visiting \cup {query.name}),
                        f[Resolving(nodes[i], all.next, query.visiting \cup {query.name})], rank)
  PROVE  AllOf(query, nodes, i, Onwards(f, query, nodes[i], all), rank)
<1> DEFINE q == Resolving(nodes[i], all.next, query.visiting \cup {query.name})
           r == f[q]
           one == Onwards(f, query, nodes[i], all)
<1>1. q.name = nodes[i] /\ q.next = all.next /\ q.visiting = query.visiting \cup {query.name}
  BY DEF Resolving
<1>2. AnswersWell(q, r, rank)
  OBVIOUS
<1>3. one.delays = all.delays \cup {r.delay} /\ one.next = r.next
      /\ one = [delays |-> all.delays \cup {r.delay}, next |-> r.next]
  BY DEF Onwards
<1>4. all.delays \in SUBSET Nat /\ r \in Answer /\ r.delay \in Nat /\ r.next \in Delays
  BY <1>2 DEF AllOf, AnswersWell, Answer
<1>5. one \in [delays : SUBSET Nat, next : Delays]
  BY <1>3, <1>4
<1>6. Under(rank, query) /\ BestIn(all.next) => Under(rank, q)
  BY ChildUnder
<1> HIDE DEF q, r, one
<1>7. ASSUME Known(query.next)
      PROVE  /\ Known(one.next)
             /\ \A c \in one.delays : c > 0 => \E j \in 1..i : c \in Reached(nodes[j])
             /\ \A j \in 1..i : \E c \in one.delays : Child(query, nodes[j], c, rank)
             /\ Under(rank, query) => BestIn(one.next)
  <2>1. /\ Known(all.next)
        /\ \A c \in all.delays : c > 0 => \E j \in 1..(i - 1) : c \in Reached(nodes[j])
        /\ \A j \in 1..(i - 1) : \E c \in all.delays : Child(query, nodes[j], c, rank)
        /\ Under(rank, query) => BestIn(all.next)
    BY <1>7 DEF AllOf
  <2>2. /\ Known(r.next)
        /\ r.delay > 0 => r.delay \in Reached(nodes[i])
        /\ r.delay = 0 => \E F : nodes[i] \in F /\ Bare(F, query.visiting \cup {query.name})
        /\ Under(rank, q) => BestIn(r.next) /\ \A d \in Reached(nodes[i]) : r.delay # 0 /\ r.delay <= d
    BY <1>1, <1>2, <2>1 DEF AnswersWell
  <2>3. Under(rank, query) => Under(rank, q)
    BY <1>6, <2>1
  <2>4. i \in 1..i /\ \A j \in 1..i : j = i \/ j \in 1..(i - 1)
    OBVIOUS
  <2>5. \A j \in 1..(i - 1) : j \in 1..i
    OBVIOUS
  <2>6. ASSUME NEW c \in one.delays, c > 0 PROVE \E j \in 1..i : c \in Reached(nodes[j])
    <3>1. c = r.delay \/ c \in all.delays
      BY <1>3
    <3> QED BY <2>1, <2>2, <2>4, <2>5, <2>6, <3>1
  <2>7. Child(query, nodes[i], r.delay, rank)
    BY <2>2, <2>3 DEF Child
  <2>8. ASSUME NEW j \in 1..i PROVE \E c \in one.delays : Child(query, nodes[j], c, rank)
    <3>1. CASE j = i
      BY <1>3, <2>7, <3>1
    <3>2. CASE j # i
      <4>1. PICK c \in all.delays : Child(query, nodes[j], c, rank)
        BY <2>1, <2>4, <3>2
      <4> QED BY <1>3, <4>1
    <3> QED BY <3>1, <3>2
  <2> QED BY <1>3, <2>2, <2>3, <2>6, <2>8
<1> QED BY <1>5, <1>7 DEF AllOf, one

\* The nodes of a group, listed.
Lists(nodes, n, query) ==
  /\ n \in Nat /\ \A i \in 1..n : nodes[i] \in members[query.name]
  /\ \A m \in members[query.name] : \E i \in 1..n : nodes[i] = m
\* f answers what it should for calls with fewer groups left than k.
AnswersBelow(f, k, rank) == k # 0 => \A q \in WithinQ(k - 1) : AnswersWell(q, f[q], rank)

\* The nodes of the group that is asked for.
LEMMA NodesLists ==
  ASSUME members \in [ProxyGroups -> SUBSET ProxyNames], NEW query, query.name \in ProxyGroups
  PROVE  LET nodes == SetToSeq(members[query.name])
         IN  Len(nodes) \in Nat /\ Lists(nodes, Len(nodes), query)
BY NodesListed DEF Lists

\* Before the first node.
LEMMA NothingYet ==
  ASSUME NEW query \in Query, NEW nodes, NEW rank
  PROVE  AllOf(query, nodes, 0, NoneYet(query), rank)
<1>1. query.next \in Delays
  BY DEF Query
<1> QED BY <1>1 DEF AllOf, NoneYet, Under

LEMMA AllWalked ==
  ASSUME MembersOK, results \in Delays, NEW rank, NEW k \in Nat, NEW query \in WithinQ(k),
         query.name \in ProxyGroups, query.name \notin query.visiting,
         NEW nodes, NEW n, Lists(nodes, n, query), NEW f, AnswersBelow(f, k, rank),
         NEW u, IsAll(u, f, nodes, query, n)
  PROVE  \A i \in 0..n : AllOf(query, nodes, i, u[i], rank)
<1> DEFINE T == { i \in 0..n : ~AllOf(query, nodes, i, u[i], rank) }
<1>1. \A i \in 0..n : u[i] = IF i = 0 THEN NoneYet(query) ELSE Onwards(f, query, nodes[i], u[i - 1])
  BY DEF IsAll
<1>2. query \in Query /\ n \in Nat
  BY DEF WithinQ, Lists
<1> SUFFICES ASSUME T # {} PROVE FALSE
  OBVIOUS
<1>3. PICK i \in T : \A y \in T : i <= y
  <2>1. T \in SUBSET Nat
    BY <1>2
  <2> HIDE DEF T
  <2> QED BY <2>1, LeastOf
<1>4. i \in 0..n /\ ~AllOf(query, nodes, i, u[i], rank)
  OBVIOUS
<1>5. i # 0
  <2>1. CASE i = 0
    <3>1. u[i] = NoneYet(query)
      BY <1>1, <1>4, <2>1
    <3> QED BY <1>2, <1>4, <2>1, <3>1, NothingYet
  <2> QED BY <2>1
<1>6. i - 1 \in 0..n /\ ~(i <= i - 1) /\ i \in 1..n /\ i \in Nat
  BY <1>2, <1>4, <1>5
<1>7. i - 1 \notin T
  BY <1>3, <1>6
<1>8. AllOf(query, nodes, i - 1, u[i - 1], rank)
  BY <1>6, <1>7
<1> HIDE DEF T
<1>9. nodes[i] \in members[query.name] /\ nodes[i] \in ProxyNames
  BY <1>6 DEF Lists, MembersOK
<1> DEFINE q == Resolving(nodes[i], u[i - 1].next, query.visiting \cup {query.name})
<1>10. u[i - 1].next \in Delays
  BY <1>8 DEF AllOf
<1>11. k # 0 /\ q \in WithinQ(k - 1)
  BY <1>9, <1>10, ChildAsked
<1>12. AnswersWell(q, f[q], rank)
  BY <1>11 DEF AnswersBelow
<1>13. AllOf(query, nodes, i, Onwards(f, query, nodes[i], u[i - 1]), rank)
  BY <1>2, <1>5, <1>6, <1>8, <1>9, <1>12, OneMoreNode
<1> QED BY <1>1, <1>4, <1>5, <1>13

\* The least delay.
LEMMA LeastDelay ==
  ASSUME NEW D \in SUBSET Nat
  PROVE  /\ Positive(D) = {} => MinOrZero(Positive(D)) = 0
         /\ Positive(D) # {} => /\ MinOrZero(Positive(D)) \in D /\ MinOrZero(Positive(D)) > 0
                                /\ \A c \in D : c # 0 => MinOrZero(Positive(D)) <= c
<1> DEFINE P == Positive(D)
<1>1. P \in SUBSET Nat /\ \A c : c \in P <=> c \in D /\ c # 0
  BY DEF Positive
<1> HIDE DEF P
<1>2. ASSUME P # {} PROVE MinOrZero(P) \in P /\ \A c \in P : MinOrZero(P) <= c
  <2>1. \E x \in P : \A y \in P : x <= y
    BY <1>1, <1>2, LeastOf
  <2>2. MinOrZero(P) = CHOOSE x \in P : \A y \in P : x <= y
    BY <1>2 DEF MinOrZero, Min
  <2> QED BY <2>1, <2>2
<1>3. P = {} => MinOrZero(P) = 0
  BY DEF MinOrZero
<1>4. MinOrZero(P) \in P => MinOrZero(P) > 0
  <2>1. \A c \in P : c > 0
    BY <1>1
  <2> QED BY <2>1
<1> QED BY <1>1, <1>2, <1>3, <1>4 DEF P

\* What a group works out from what its nodes answer.
LEMMA EndsAnswer ==
  ASSUME MembersOK, results \in Delays, NEW rank, NEW query \in Query,
         query.name \in ProxyGroups, query.name \notin query.visiting,
         NEW nodes, NEW n, Lists(nodes, n, query),
         NEW all, AllOf(query, nodes, n, all, rank)
  PROVE  AnswersWell(query, Ends(query, all), rank)
<1> DEFINE name == query.name
           direct == query.next[name]
           best == MinOrZero(Positive(all.delays))
           delay == IF direct > 0 THEN direct ELSE best
           next == IF delay > 0 THEN [all.next EXCEPT ![name] = delay] ELSE all.next
           r == Ends(query, all)
<1>1. r = [delay |-> delay, next |-> next] /\ r.delay = delay /\ r.next = next
  BY DEF Ends
<1>2. /\ name \in ProxyNames /\ name \in ProxyGroups /\ direct \in Nat /\ query.next \in Delays
      /\ all.delays \in SUBSET Nat /\ all.next \in Delays /\ members[name] \subseteq ProxyNames
      /\ query.visiting \in SUBSET ProxyGroups
  BY DEF Query, Delays, AllOf, ProxyNames, MembersOK
<1>3. /\ Positive(all.delays) = {} => best = 0
      /\ Positive(all.delays) # {} => best \in all.delays /\ best > 0 /\ \A c \in all.delays : c # 0 => best <= c
  BY <1>2, LeastDelay
<1>4. \A c : c \in Positive(all.delays) <=> c \in all.delays /\ c # 0
  BY DEF Positive
<1> HIDE DEF best
<1>5. best \in Nat /\ delay \in Nat
  BY <1>2, <1>3
<1>6. next \in Delays /\ (delay > 0 => next[name] = delay) /\ \A m \in ProxyNames : m # name => next[m] = all.next[m]
  BY <1>2, <1>5 DEF Delays
<1>7. r \in Answer
  BY <1>1, <1>5, <1>6 DEF Answer
<1> HIDE DEF r
<1>8. ASSUME Known(query.next)
      PROVE  /\ Known(next)
             /\ delay > 0 => delay \in Reached(name)
             /\ delay = 0 => \E F : name \in F /\ Bare(F, query.visiting)
             /\ delay > 0 => next[name] = delay
             /\ Under(rank, query) => BestIn(next) /\ \A d \in Reached(name) : delay # 0 /\ delay <= d
  <2>1. /\ Known(all.next)
        /\ \A c \in all.delays : c > 0 => \E j \in 1..n : c \in Reached(nodes[j])
        /\ \A j \in 1..n : \E c \in all.delays : Child(query, nodes[j], c, rank)
        /\ Under(rank, query) => BestIn(all.next)
    BY <1>8 DEF AllOf
  <2>2. /\ results[name] > 0 => direct = results[name]
        /\ direct > 0 => direct \in Reached(name)
        /\ results[name] \in Nat
    BY <1>2, <1>8 DEF Known, Delays
  <2>3. ASSUME results[name] = 0, NEW d
        PROVE  d \in Reached(name) <=> \E j \in 1..n : d \in Reached(nodes[j])
    <3>1. d \in Reached(name) <=> \E m \in members[name] : d \in Reached(m)
      BY <1>2, <2>3, ReachedFacts
    <3> QED BY <3>1 DEF Lists
  <2>4. delay > 0 => delay \in Reached(name)
    <3>1. CASE direct > 0
      BY <2>2, <3>1
    <3>2. CASE ~(direct > 0)
      <4>1. results[name] = 0 /\ delay = best
        BY <1>2, <2>2, <3>2
      <4>2. ASSUME best > 0 PROVE best \in Reached(name)
        <5>1. best \in all.delays
          BY <1>3, <4>2
        <5> QED BY <2>1, <2>3, <4>1, <4>2, <5>1
      <4> QED BY <4>1, <4>2
    <3> QED BY <3>1, <3>2
  <2>5. ASSUME delay = 0
        PROVE  direct = 0 /\ results[name] = 0 /\ \A c \in all.delays : c = 0
    <3>1. direct = 0 /\ best = 0
      BY <1>2, <1>5, <2>5
    <3>2. results[name] = 0
      BY <2>2, <3>1
    <3> QED BY <1>3, <1>4, <3>1, <3>2
  <2>6. ASSUME delay = 0 PROVE \E F : name \in F /\ Bare(F, query.visiting)
    <3> DEFINE U == UNION { G \in SUBSET ProxyNames : Bare(G, query.visiting \cup {name}) }
               F == U \cup {name}
    <3>1. \A j \in 1..n : nodes[j] \in U
      <4> TAKE j \in 1..n
      <4>1. PICK c \in all.delays : Child(query, nodes[j], c, rank)
        BY <2>1
      <4>2. c = 0
        BY <2>5, <2>6
      <4>3. PICK G : nodes[j] \in G /\ Bare(G, query.visiting \cup {name})
        BY <4>1, <4>2 DEF Child
      <4> QED BY <4>3 DEF Bare
    <3>2. members[name] \subseteq U
      <4>1. \A m \in members[name] : \E j \in 1..n : nodes[j] = m
        BY DEF Lists
      <4> HIDE DEF U
      <4> QED BY <3>1, <4>1
    <3>3. ASSUME NEW m \in U
          PROVE  At(m) = 0 /\ (m \in ProxyGroups => m \in query.visiting \cup {name} \/ members[m] \subseteq U)
      <4>1. PICK G \in SUBSET ProxyNames : m \in G /\ Bare(G, query.visiting \cup {name})
        BY <3>3
      <4>2. G \subseteq U
        BY <4>1
      <4> HIDE DEF U
      <4> QED BY <4>1, <4>2 DEF Bare
    <3>4. U \in SUBSET ProxyNames
      OBVIOUS
    <3> HIDE DEF U
    <3>5. At(name) = 0
      BY <2>5, <2>6 DEF At
    <3>6. Bare(F, query.visiting)
      BY <1>2, <3>2, <3>3, <3>4, <3>5 DEF Bare
    <3>7. name \in F
      OBVIOUS
    <3> QED BY <3>6, <3>7
  <2>7. Known(next)
    <3>1. ASSUME NEW m \in ProxyNames, m \in ProxyGroups => results[m] > 0 PROVE next[m] = results[m]
      <4>1. CASE m = name
        <5>1. results[name] > 0 /\ direct = results[name]
          BY <1>2, <2>2, <3>1, <4>1
        <5>2. delay = results[name] /\ delay > 0
          BY <5>1
        <5> QED BY <1>6, <4>1, <5>2
      <4>2. CASE m # name
        <5>1. all.next[m] = results[m]
          BY <2>1, <3>1 DEF Known
        <5> QED BY <1>6, <4>2, <5>1
      <4> QED BY <4>1, <4>2
    <3>2. ASSUME NEW g \in ProxyGroups, next[g] > 0 PROVE next[g] \in Reached(g)
      <4>1. g \in ProxyNames
        BY DEF ProxyNames
      <4>2. CASE g = name /\ delay > 0
        BY <1>6, <2>4, <4>2
      <4>3. CASE ~(g = name /\ delay > 0)
        <5>1. next[g] = all.next[g]
          <6>1. CASE g # name
            BY <1>6, <4>1, <6>1
          <6>2. CASE g = name
            BY <4>3, <6>2
          <6> QED BY <6>1, <6>2
        <5> QED BY <2>1, <3>2, <5>1 DEF Known
      <4> QED BY <4>2, <4>3
    <3> QED BY <1>6, <3>1, <3>2 DEF Known
  <2>8. ASSUME Under(rank, query) PROVE \A d \in Reached(name) : delay # 0 /\ delay <= d
    <3> TAKE d \in Reached(name)
    <3>1. CASE direct > 0
      <4>1. direct <= d
        BY <1>2, <2>8, <3>1 DEF Under, BestIn
      <4> QED BY <1>2, <3>1, <4>1
    <3>2. CASE ~(direct > 0)
      <4>1. results[name] = 0 /\ delay = best
        BY <1>2, <2>2, <3>2
      <4>2. PICK j \in 1..n : d \in Reached(nodes[j])
        BY <2>3, <4>1
      <4>3. PICK c \in all.delays : Child(query, nodes[j], c, rank)
        BY <2>1
      <4>4. c # 0 /\ c <= d
        BY <2>8, <4>2, <4>3 DEF Child
      <4>5. best > 0 /\ best <= c
        BY <1>3, <1>4, <4>3, <4>4
      <4>6. nodes[j] \in ProxyNames
        BY <1>2, <4>2 DEF Lists
      <4>7. d \in Nat /\ c \in Nat
        BY <1>2, <4>2, <4>3, <4>6, ReachedFacts
      <4> QED BY <1>5, <4>1, <4>4, <4>5, <4>7
    <3> QED BY <3>1, <3>2
  <2>9. ASSUME Under(rank, query) PROVE BestIn(next)
    <3> SUFFICES ASSUME NEW g \in ProxyGroups, next[g] > 0, NEW d \in Reached(g) PROVE next[g] <= d
      BY DEF BestIn
    <3>1. g \in ProxyNames
      BY DEF ProxyNames
    <3>2. CASE g = name /\ delay > 0
      BY <1>6, <2>8, <2>9, <3>2
    <3>3. CASE ~(g = name /\ delay > 0)
      <4>1. next[g] = all.next[g]
        <5>1. CASE g # name
          BY <1>6, <3>1, <5>1
        <5>2. CASE g = name
          BY <3>3, <5>2
        <5> QED BY <5>1, <5>2
      <4> QED BY <2>1, <2>9, <4>1 DEF BestIn
    <3> QED BY <3>2, <3>3
  <2> QED BY <1>6, <2>4, <2>6, <2>7, <2>8, <2>9
<1> HIDE DEF delay, next
<1> QED BY <1>1, <1>7, <1>8 DEF AnswersWell, r

\* A call answers what it should if the calls it makes do.
LEMMA WorksAnswer ==
  ASSUME MembersOK, results \in Delays, NEW rank, NEW k \in Nat, NEW query \in WithinQ(k),
         NEW f, AnswersBelow(f, k, rank)
  PROVE  AnswersWell(query, Works(f, query), rank)
<1> DEFINE name == query.name
<1>1. query \in Query /\ name \in ProxyNames /\ query.next \in Delays /\ query.next[name] \in Nat
      /\ query.visiting \in SUBSET ProxyGroups
  BY DEF WithinQ, Query, Delays
<1>2. CASE name \notin ProxyGroups
  <2> DEFINE delay == LeafDelay(name, query.next)
             r == [delay |-> delay, next |-> query.next]
  <2>1. Works(f, query) = r
    BY <1>2 DEF Works
  <2>2. Older[name] \in Nat
    BY <1>1, <1>2, LatencyAssumption DEF ProxyNames
  <2>3. delay \in Nat
    BY <1>1, <2>2 DEF LeafDelay
  <2>4. Known(query.next) => delay = At(name)
    BY <1>1, <1>2 DEF Known, At, LeafDelay
  <2>5. Reached(name) = {At(name)} \ {0}
    BY <1>1, <1>2, ReachedFacts
  <2>6. At(name) = 0 => name \in {name} /\ Bare({name}, query.visiting)
    BY <1>1, <1>2 DEF Bare
  <2> HIDE DEF delay
  <2>7. r \in Answer /\ r.delay = delay /\ r.next = query.next
    BY <1>1, <2>3 DEF Answer
  <2> HIDE DEF r
  <2>8. delay <= delay /\ (delay # 0 => delay > 0)
    BY <2>3
  <2> QED BY <1>2, <2>1, <2>4, <2>5, <2>6, <2>7, <2>8 DEF AnswersWell, Under
<1>3. CASE name \in ProxyGroups /\ name \in query.visiting
  <2> DEFINE direct == query.next[name]
             r == [delay |-> direct, next |-> query.next]
  <2>1. Works(f, query) = r
    BY <1>3 DEF Works
  <2>2. r \in Answer /\ r.delay = direct /\ r.next = query.next
    BY <1>1 DEF Answer
  <2>3. ~Under(rank, query)
    <3> SUFFICES ASSUME Under(rank, query) PROVE FALSE
      OBVIOUS
    <3>1. rank \in [ProxyGroups -> 1..Cardinality(ProxyGroups)] /\ rank[name] < rank[name]
      BY <1>3 DEF Under, Ranks
    <3>2. rank[name] \in Int
      BY <1>3, <3>1
    <3> QED BY <3>1, <3>2
  <2>4. ASSUME Known(query.next), direct = 0 PROVE name \in {name} /\ Bare({name}, query.visiting)
    <3>1. results[name] \in Nat
      BY <1>1 DEF Delays
    <3>2. results[name] = 0
      BY <1>1, <2>4, <3>1 DEF Known
    <3> QED BY <1>1, <1>3, <3>2 DEF Bare, At
  <2>5. Known(query.next) /\ direct > 0 => direct \in Reached(name)
    BY <1>3 DEF Known
  <2> HIDE DEF direct, r
  <2> QED BY <1>3, <2>1, <2>2, <2>3, <2>4, <2>5 DEF AnswersWell
<1>4. CASE name \in ProxyGroups /\ name \notin query.visiting
  <2> DEFINE nodes == SetToSeq(members[name])
             u == CHOOSE u : IsAll(u, f, nodes, query, Len(nodes))
  <2>1. Works(f, query) = Ends(query, u[Len(nodes)])
    BY <1>4 DEF Works
  <2>2. Len(nodes) \in Nat /\ Lists(nodes, Len(nodes), query)
    BY <1>4, NodesLists DEF MembersOK
  <2> HIDE DEF nodes
  <2>3. IsAll(u, f, nodes, query, Len(nodes))
    BY <2>2, AllExists
  <2> HIDE DEF u
  <2>4. Len(nodes) \in 0..Len(nodes)
    BY <2>2
  <2>5. AllOf(query, nodes, Len(nodes), u[Len(nodes)], rank)
    BY <1>4, <2>2, <2>3, <2>4, AllWalked
  <2>6. AnswersWell(query, Ends(query, u[Len(nodes)]), rank)
    BY <1>1, <1>4, <2>2, <2>5, EndsAnswer
  <2> QED BY <2>1, <2>6
<1> QED BY <1>2, <1>3, <1>4

\* Two functions that are one for calls with fewer groups left.
SameBelow(f, h, k) == k # 0 => \A q \in WithinQ(k - 1) : h[q] = f[q]

\* A walk over the nodes depends on the calls it makes alone.
LEMMA SameAll ==
  ASSUME MembersOK, results \in Delays, NEW rank, NEW k \in Nat, NEW query \in WithinQ(k),
         query.name \in ProxyGroups, query.name \notin query.visiting,
         NEW nodes, NEW n, Lists(nodes, n, query),
         NEW f, AnswersBelow(f, k, rank), NEW h, SameBelow(f, h, k),
         NEW u, IsAll(u, f, nodes, query, n), NEW v, IsAll(v, h, nodes, query, n)
  PROVE  u[n] = v[n]
<1> DEFINE T == { i \in 0..n : u[i] # v[i] }
<1>1. /\ \A i \in 0..n : u[i] = IF i = 0 THEN NoneYet(query) ELSE Onwards(f, query, nodes[i], u[i - 1])
      /\ \A i \in 0..n : v[i] = IF i = 0 THEN NoneYet(query) ELSE Onwards(h, query, nodes[i], v[i - 1])
      /\ n \in Nat
  BY DEF IsAll, Lists
<1>2. \A i \in 0..n : AllOf(query, nodes, i, u[i], rank)
  BY AllWalked
<1>3. T = {}
  <2> SUFFICES ASSUME T # {} PROVE FALSE
    OBVIOUS
  <2>1. PICK i \in T : \A y \in T : i <= y
    <3>1. T \in SUBSET Nat
      BY <1>1
    <3> HIDE DEF T
    <3> QED BY <3>1, LeastOf
  <2>2. i \in 0..n /\ u[i] # v[i]
    OBVIOUS
  <2>3. i # 0
    BY <1>1, <2>2
  <2>4. i - 1 \in 0..n /\ ~(i <= i - 1) /\ i \in 1..n
    BY <1>1, <2>2, <2>3
  <2>5. i - 1 \notin T
    BY <2>1, <2>4
  <2>6. u[i - 1] = v[i - 1]
    BY <2>4, <2>5
  <2> HIDE DEF T
  <2> DEFINE q == Resolving(nodes[i], u[i - 1].next, query.visiting \cup {query.name})
  <2>7. nodes[i] \in ProxyNames /\ u[i - 1].next \in Delays
    BY <1>2, <2>4 DEF Lists, MembersOK, AllOf
  <2>8. k # 0 /\ q \in WithinQ(k - 1)
    BY <2>7, ChildAsked
  <2>9. h[q] = f[q]
    BY <2>8 DEF SameBelow
  <2>10. Onwards(f, query, nodes[i], u[i - 1]) = Onwards(h, query, nodes[i], u[i - 1])
    BY <2>9 DEF Onwards
  <2> QED BY <1>1, <2>2, <2>3, <2>6, <2>10
<1>4. n \in 0..n
  BY <1>1
<1> QED BY <1>3, <1>4

LEMMA WorksSame ==
  ASSUME MembersOK, results \in Delays, NEW rank, NEW k \in Nat, NEW query \in WithinQ(k),
         NEW f, AnswersBelow(f, k, rank), NEW h, SameBelow(f, h, k)
  PROVE  Works(f, query) = Works(h, query)
<1>1. CASE query.name \notin ProxyGroups \/ query.name \in query.visiting
  BY <1>1 DEF Works
<1>2. CASE query.name \in ProxyGroups /\ query.name \notin query.visiting
  <2> DEFINE nodes == SetToSeq(members[query.name])
             n == Len(nodes)
             u == CHOOSE u : IsAll(u, f, nodes, query, n)
             v == CHOOSE v : IsAll(v, h, nodes, query, n)
  <2>1. Works(f, query) = Ends(query, u[n]) /\ Works(h, query) = Ends(query, v[n])
    BY <1>2 DEF Works
  <2>2. n \in Nat /\ Lists(nodes, n, query)
    BY <1>2, NodesLists DEF MembersOK
  <2> HIDE DEF nodes, n
  <2>3. IsAll(u, f, nodes, query, n) /\ IsAll(v, h, nodes, query, n)
    BY <2>2, AllExists
  <2> HIDE DEF u, v
  <2>4. u[n] = v[n]
    BY <1>2, <2>2, <2>3, SameAll
  <2> QED BY <2>1, <2>4
<1> QED BY <1>1, <1>2

\* A function that is what the calls answer, for calls that have at most k groups left.
SolvesQ(f, k) == f = [query \in WithinQ(k) |-> Works(f, query)]

LEMMA WithinQLess ==
  ASSUME NEW i \in Nat, NEW k \in Nat, i <= k
  PROVE  WithinQ(i) \subseteq WithinQ(k)
BY LeftTyped DEF WithinQ

LEMMA SolvedAnswers ==
  ASSUME MembersOK, results \in Delays, NEW rank, NEW k \in Nat, NEW D, WithinQ(k) \subseteq D,
         NEW f, \A query \in D : f[query] = Works(f, query)
  PROVE  \A query \in WithinQ(k) : AnswersWell(query, f[query], rank)
<1> DEFINE T == { j \in 0..k : ~ \A query \in WithinQ(j) : AnswersWell(query, f[query], rank) }
<1>1. T = {}
  <2> SUFFICES ASSUME T # {} PROVE FALSE
    OBVIOUS
  <2>1. PICK j \in T : \A y \in T : j <= y
    <3>1. T \in SUBSET Nat
      OBVIOUS
    <3> HIDE DEF T
    <3> QED BY <3>1, LeastOf
  <2>2. j \in 0..k /\ j \in Nat /\ ~ \A query \in WithinQ(j) : AnswersWell(query, f[query], rank)
    OBVIOUS
  <2>3. AnswersBelow(f, j, rank)
    <3> SUFFICES ASSUME j # 0 PROVE \A q \in WithinQ(j - 1) : AnswersWell(q, f[q], rank)
      BY DEF AnswersBelow
    <3>1. j - 1 \in 0..k /\ ~(j <= j - 1)
      BY <2>2
    <3>2. j - 1 \notin T
      BY <2>1, <3>1
    <3> QED BY <3>1, <3>2
  <2> HIDE DEF T
  <2>4. WithinQ(j) \subseteq D
    BY <2>2, WithinQLess
  <2>5. ASSUME NEW query \in WithinQ(j) PROVE AnswersWell(query, f[query], rank)
    <3>1. AnswersWell(query, Works(f, query), rank)
      BY <2>2, <2>3, WorksAnswer
    <3>2. f[query] = Works(f, query)
      BY <2>4
    <3> QED BY <3>1, <3>2
  <2> QED BY <2>2, <2>5
<1>2. k \in 0..k
  OBVIOUS
<1> QED BY <1>1, <1>2

\* Such a function exists: the one for fewer groups is carried on.
LEMMA SolutionQExists ==
  ASSUME MembersOK, results \in Delays, NEW n \in Nat
  PROVE  \E f : SolvesQ(f, n)
<1> DEFINE T == { k \in Nat : ~ \E f : SolvesQ(f, k) }
           rank == <<>>
<1> SUFFICES ASSUME T # {} PROVE FALSE
  OBVIOUS
<1> HIDE DEF rank
<1>1. PICK k \in T : \A y \in T : k <= y
  <2>1. T \in SUBSET Nat
    OBVIOUS
  <2> HIDE DEF T
  <2> QED BY <2>1, LeastOf
<1>2. k \in Nat /\ ~ \E f : SolvesQ(f, k)
  OBVIOUS
<1>3. \E f : k # 0 => SolvesQ(f, k - 1)
  <2>1. CASE k = 0
    BY <2>1
  <2>2. CASE k # 0
    <3>1. k - 1 \in Nat /\ ~(k <= k - 1)
      BY <1>2, <2>2
    <3>2. k - 1 \notin T
      BY <1>1, <3>1
    <3> QED BY <3>1, <3>2
  <2> QED BY <2>1, <2>2
<1> HIDE DEF T
<1>4. PICK f : k # 0 => SolvesQ(f, k - 1)
  BY <1>3
<1>5. k # 0 => \A q \in WithinQ(k - 1) : f[q] = Works(f, q)
  BY <1>4 DEF SolvesQ
<1>6. AnswersBelow(f, k, rank)
  <2> SUFFICES ASSUME k # 0 PROVE \A q \in WithinQ(k - 1) : AnswersWell(q, f[q], rank)
    BY DEF AnswersBelow
  <2>1. k - 1 \in Nat
    BY <1>2
  <2> QED BY <1>5, <2>1, SolvedAnswers
<1> DEFINE h == [query \in WithinQ(k) |-> Works(f, query)]
<1>7. SameBelow(f, h, k)
  <2> SUFFICES ASSUME k # 0, NEW q \in WithinQ(k - 1) PROVE h[q] = f[q]
    BY DEF SameBelow
  <2>1. k - 1 \in Nat /\ k - 1 <= k
    BY <1>2
  <2>2. q \in WithinQ(k)
    BY <1>2, <2>1, WithinQLess
  <2> QED BY <1>5, <2>2
<1>8. \A query \in WithinQ(k) : h[query] = Works(f, query)
  OBVIOUS
<1>9. h = [query \in WithinQ(k) |-> h[query]]
  OBVIOUS
<1> HIDE DEF h
<1>10. \A query \in WithinQ(k) : Works(f, query) = Works(h, query)
  BY <1>2, <1>6, <1>7, WorksSame
<1>11. SolvesQ(h, k)
  BY <1>8, <1>9, <1>10 DEF SolvesQ
<1> QED BY <1>2, <1>11

\* What aggregateGroupDelays answers, whatever the groups contain.
LEMMA ResolveAnswers ==
  ASSUME MembersOK, results \in Delays, NEW rank, NEW query \in Query
  PROVE  AnswersWell(query, Resolve[query], rank)
<1> DEFINE K == Cardinality(ProxyGroups \ {})
<1>1. K \in Nat
  BY LeftTyped
<1>2. WithinQ(K) = Query
  <2> SUFFICES ASSUME NEW q \in Query PROVE Cardinality(ProxyGroups \ q.visiting) <= K
    BY DEF WithinQ
  <2>1. (ProxyGroups \ q.visiting) \in SUBSET (ProxyGroups \ {}) /\ IsFiniteSet(ProxyGroups \ {})
    BY LeftTyped
  <2> QED BY <2>1, FS_Subset
<1> HIDE DEF K
<1>3. \E f : f = [q \in Query |-> Works(f, q)]
  BY <1>1, <1>2, SolutionQExists DEF SolvesQ
<1>4. Resolve = [q \in Query |-> Works(Resolve, q)]
  BY <1>3, ResolveIs
<1>5. \A q \in Query : Resolve[q] = Works(Resolve, q)
  BY <1>4
<1> QED BY <1>1, <1>2, <1>5, SolvedAnswers

\* What is shown after a test.
LEMMA ShownIs ==
  ASSUME DelayTypeOK
  PROVE  LET shown == AggregateGroupDelays(Start)
         IN /\ \A g \in ProxyGroups : shown[g] > 0 => shown[g] \in Reached(g)
            /\ shown[Start] = 0 <=> Reached(Start) = {}
            /\ Nested => \A g \in ProxyGroups : shown[g] > 0 => \A d \in Reached(g) : shown[g] <= d
<1> DEFINE query == [name |-> Start, next |-> results, visiting |-> {}]
           r == Resolve[query]
<1>1. MembersOK /\ results \in Delays /\ Start \in ProxyGroups /\ Start \in ProxyNames
  BY LatencyAssumption DEF DelayTypeOK, MembersOK, Delays, Start, ProxyNames
<1>2. query \in Query /\ query.name = Start /\ query.next = results /\ query.visiting = {}
  BY <1>1 DEF Query
<1>3. \A rank : AnswersWell(query, r, rank)
  BY <1>1, <1>2, ResolveAnswers
<1>4. AggregateGroupDelays(Start) = r.next
  BY DEF AggregateGroupDelays
<1> HIDE DEF query, r
<1>5. Known(results) /\ BestIn(results)
  <2>1. ASSUME NEW g \in ProxyGroups, results[g] > 0 PROVE Reached(g) = {results[g]} /\ results[g] \in Nat
    <3>1. g \in ProxyNames /\ results[g] \in Nat /\ results[g] # 0
      BY <1>1, <2>1 DEF ProxyNames, Delays
    <3>2. Reached(g) = {At(g)} \ {0}
      BY <1>1, <3>1, ReachedFacts
    <3> QED BY <3>1, <3>2 DEF At
  <2> QED BY <1>1, <2>1 DEF Known, BestIn
<1>6. /\ Known(r.next) /\ r.delay \in Nat
      /\ r.delay > 0 => r.delay \in Reached(Start) /\ r.next[Start] = r.delay
      /\ r.delay = 0 => \E F : Start \in F /\ Bare(F, {})
  BY <1>1, <1>2, <1>3, <1>5 DEF AnswersWell, Answer
<1>7. \A g \in ProxyGroups : r.next[g] > 0 => r.next[g] \in Reached(g)
  BY <1>6 DEF Known
<1>8. ASSUME r.delay = 0 PROVE Reached(Start) = {}
  <2>1. PICK F : Start \in F /\ Bare(F, {})
    BY <1>6, <1>8
  <2>2. F \in SUBSET ProxyNames /\ Closed(F) /\ \A m \in F : At(m) = 0
    BY <2>1 DEF Bare, Closed
  <2>3. Frontier(Start) \subseteq F
    BY <1>1, <2>1, <2>2, FrontierWithin
  <2> QED BY <2>2, <2>3, ReachedIs
<1>9. r.next[Start] = 0 <=> Reached(Start) = {}
  <2>1. r.next[Start] \in Nat
    BY <1>1, <1>6 DEF Known, Delays
  <2>2. CASE r.delay = 0
    <3>1. ~(r.next[Start] > 0)
      BY <1>1, <1>7, <1>8, <2>2
    <3> QED BY <1>8, <2>1, <2>2, <3>1
  <2>3. CASE r.delay # 0
    BY <1>6, <2>3
  <2> QED BY <2>2, <2>3
<1>10. ASSUME Nested PROVE BestIn(r.next)
  <2>1. PICK rank \in Ranks : Ranked(rank)
    BY <1>10 DEF Nested
  <2>2. Under(rank, query)
    BY <1>2, <1>5, <2>1 DEF Under
  <2> QED BY <1>2, <1>3, <1>5, <2>2 DEF AnswersWell
<1> QED BY <1>4, <1>7, <1>9, <1>10 DEF BestIn

-----------------------------------------------------------------------------
(***************************************************************************)
(* ProxyDelay.  The workers share one index: what is before it has been    *)
(* asked for once, what is after it never.                                 *)
(***************************************************************************)

\* What the list of names was made of: what the group reaches, as far as the limits
\* let it; each name is on it once.
Listed ==
  /\ targets \in Seq(ProxyNames) /\ IsInjective(targets)
  /\ Start \in ToSet(targets) /\ Cardinality(ToSet(targets)) <= TargetLimit
  /\ \A S \in SUBSET ProxyNames : Start \in S /\ Whole(S) => ToSet(targets) \subseteq S
  /\ Shallow /\ Cardinality(found) <= TargetLimit => Whole(ToSet(targets))

DelayIInv ==
  /\ DelayTypeOK /\ Listed
  /\ \A k \in 1..Len(targets) : tested[targets[k]] = IF k < index THEN 1 ELSE 0
  /\ \A n \in ProxyNames \ ToSet(targets) : tested[n] = 0

\* Nothing of the list changes while it is measured.
LEMMA ListStays ==
  ASSUME Listed, UNCHANGED <<members, found, targets>>
  PROVE  Listed'
BY DEF Listed, Whole, Shallow, Ranked

LEMMA TakeKeeps ==
  ASSUME DelayIInv, NEW w \in DelayWorkers, Take(w)
  PROVE  DelayIInv'
<1> DEFINE here == targets[index]
<1>1. /\ targets \in Seq(ProxyNames) /\ index \in 1..Len(targets) /\ tested \in [ProxyNames -> Nat]
      /\ here \in ProxyNames /\ worker \in [DelayWorkers -> ProxyNames \cup {Nobody}]
  BY DEF DelayIInv, DelayTypeOK, Take
<1>2. /\ worker' = [worker EXCEPT ![w] = here] /\ tested' = [tested EXCEPT ![here] = tested[here] + 1]
      /\ index' = index + 1 /\ UNCHANGED <<members, found, targets, results>>
  BY DEF Take
<1>3. \A k \in 1..Len(targets) : targets[k] \in ProxyNames /\ (k # index => targets[k] # here)
  BY <1>1 DEF DelayIInv, Listed, IsInjective
<1>4. \A k \in 1..Len(targets) : tested[targets[k]] = IF k < index THEN 1 ELSE 0
  BY DEF DelayIInv
<1> HIDE DEF here
<1>5. DelayTypeOK'
  BY <1>1, <1>2 DEF DelayIInv, DelayTypeOK
<1>6. ASSUME NEW k \in 1..Len(targets) PROVE tested'[targets[k]] = IF k < index' THEN 1 ELSE 0
  <2>1. CASE k = index
    <3>1. tested'[targets[k]] = tested[targets[k]] + 1 /\ tested[targets[k]] = 0
      BY <1>1, <1>2, <1>4, <2>1 DEF here
    <3> QED BY <1>1, <1>2, <2>1, <3>1
  <2>2. CASE k # index
    <3>1. tested'[targets[k]] = tested[targets[k]]
      BY <1>1, <1>2, <1>3, <2>2
    <3> QED BY <1>1, <1>2, <1>4, <2>2, <3>1
  <2> QED BY <2>1, <2>2
<1>7. Listed'
  BY <1>2, ListStays DEF DelayIInv
<1>8. here \in ToSet(targets)
  BY <1>1 DEF ToSet, here
<1>9. \A n \in ProxyNames \ ToSet(targets) : tested'[n] = 0
  BY <1>1, <1>2, <1>8 DEF DelayIInv
<1> QED BY <1>2, <1>5, <1>6, <1>7, <1>9 DEF DelayIInv

LEMMA MeasuredKeeps ==
  ASSUME DelayIInv, NEW w \in DelayWorkers, Measured(w)
  PROVE  DelayIInv'
<1>1. worker[w] \in ProxyNames /\ results \in [ProxyNames -> Nat] /\ Latency[worker[w]] \in Nat
  BY LatencyAssumption DEF DelayIInv, DelayTypeOK, Measured, ProxyNames
<1>2. results' \in [ProxyNames -> Nat]
  BY <1>1 DEF Measured
<1>3. worker' \in [DelayWorkers -> ProxyNames \cup {Nobody}]
  BY DEF Measured, DelayIInv, DelayTypeOK
<1>4. Listed'
  BY ListStays DEF DelayIInv, Measured
<1>5. DelayTypeOK'
  BY <1>2, <1>3 DEF Measured, DelayIInv, DelayTypeOK
<1> QED BY <1>4, <1>5 DEF Measured, DelayIInv

LEMMA DelayBegins == DelayInit => DelayIInv
<1> SUFFICES ASSUME DelayInit PROVE DelayIInv
  OBVIOUS
<1>1. members \in [ProxyGroups -> SUBSET ProxyNames]
  BY DEF DelayInit
<1>2. Start \in ProxyNames
  BY LatencyAssumption DEF Start, ProxyNames
<1>3. PICK names \in Sliced(found, Start) : targets = SetToSeq(names)
  BY DEF DelayInit
<1>4. Listed /\ found \in SUBSET ProxyNames
  <2>1. /\ found \in SUBSET ProxyNames /\ Start \in found /\ (Shallow => Whole(found))
        /\ \A S \in SUBSET ProxyNames : Start \in S /\ Whole(S) => found \subseteq S
    BY <1>1, <1>2, TargetsFound DEF MembersOK, DelayInit
  <2>2. /\ names \in SUBSET found /\ Start \in names /\ Cardinality(names) <= TargetLimit
        /\ Cardinality(found) <= TargetLimit => names = found
    BY <2>1, TargetsSliced
  <2>3. targets \in Seq(ProxyNames) /\ IsInjective(targets) /\ ToSet(targets) = names
    BY <1>3, <2>1, <2>2, NamesListed
  <2> QED BY <2>1, <2>2, <2>3 DEF Listed
<1>5. targets \in Seq(ProxyNames) /\ Len(targets) \in Nat
  BY <1>4, LenProperties DEF Listed
<1>6. DelayTypeOK
  BY <1>1, <1>4, <1>5 DEF DelayInit, DelayTypeOK
<1>7. \A k \in 1..Len(targets) : targets[k] \in ProxyNames /\ ~(k < index)
  BY <1>5 DEF DelayInit
<1> QED BY <1>4, <1>6, <1>7 DEF DelayInit, DelayIInv

\* Inductive, for any number of workers and any groups.
THEOREM DelayInductive == DelaySpec => []DelayIInv
<1>1. DelayIInv /\ [DelayNext]_dvars => DelayIInv'
  <2> SUFFICES ASSUME DelayIInv, [DelayNext]_dvars PROVE DelayIInv'
    OBVIOUS
  <2>1. CASE UNCHANGED dvars
    <3>1. Listed'
      BY <2>1, ListStays DEF dvars, DelayIInv
    <3> QED BY <2>1, <3>1 DEF dvars, DelayIInv, DelayTypeOK
  <2>2. CASE DelayNext
    BY <2>2, TakeKeeps, MeasuredKeeps DEF DelayNext
  <2> QED BY <2>1, <2>2
<1> QED BY <1>1, DelayBegins, PTL DEF DelaySpec

\* However the workers take turns, for any number of them, any limits and any groups,
\* also groups that contain one another: each name on the list is asked for once and
\* no other is; the group is on it and nothing the group does not reach; and all it
\* reaches, unless groups are nested deeper than the depth limit or more was found
\* than the list takes (page.tsx:1008-1057).
THEOREM EachTargetOnce == DelaySpec => []EachMeasuredOnce
<1>1. DelayIInv => EachMeasuredOnce
  <2> SUFFICES ASSUME DelayIInv, BatchDone
               PROVE  \A n \in ProxyNames : tested[n] = IF n \in ToSet(targets) THEN 1 ELSE 0
    BY DEF EachMeasuredOnce, DelayIInv, Listed
  <2>1. targets \in Seq(ProxyNames) /\ index > Len(targets) /\ index \in Nat
    BY DEF BatchDone, DelayIInv, DelayTypeOK
  <2>2. ASSUME NEW n \in ToSet(targets) PROVE tested[n] = 1
    <3>1. PICK k \in 1..Len(targets) : n = targets[k]
      BY <2>1 DEF ToSet
    <3> QED BY <2>1, <3>1 DEF DelayIInv
  <2> QED BY <2>2 DEF DelayIInv
<1> QED BY <1>1, DelayInductive, PTL

\* The delays a test shows are reached, one is shown of the group tested if any is,
\* and without loops they are the best: for any groups, any delays, and whichever
\* calls were answered (page.tsx:1059-1122).
THEOREM BestDelay == DelaySpec => []BestDelayFound
<1>1. DelayIInv => BestDelayFound
  BY ShownIs DEF DelayIInv, BestDelayFound
<1> QED BY <1>1, DelayInductive, PTL

-----------------------------------------------------------------------------
(***************************************************************************)
(* Sequences of sequences, by LeastOf over their lengths.                  *)
(***************************************************************************)

\* The concatenations of the first sequences: f(i) is that of the first i.
Joins(f, ss, n) ==
  f = [i \in 1..n |-> IF i = 1 THEN ss[i] ELSE f[i - 1] \o ss[i]]

\* There is such a function of every length.
LEMMA JoinsExist ==
  ASSUME NEW S, NEW ss \in Seq(Seq(S)), NEW n \in 0..Len(ss)
  PROVE  \E f \in [1..n -> Seq(S)] : Joins(f, ss, n)
<1> DEFINE T == { k \in 0..Len(ss) : ~ \E f \in [1..k -> Seq(S)] : Joins(f, ss, k) }
<1>1. Len(ss) \in Nat /\ \A i \in 1..Len(ss) : ss[i] \in Seq(S) OBVIOUS
<1> SUFFICES ASSUME T # {} PROVE FALSE
  OBVIOUS
<1>2. PICK k \in T : \A y \in T : k <= y
  <2>1. T \in SUBSET Nat BY <1>1
  <2> HIDE DEF T
  <2> QED BY <2>1, LeastOf
<1>3. k \in 0..Len(ss) /\ ~ \E f \in [1..k -> Seq(S)] : Joins(f, ss, k)
  OBVIOUS
<1>4. k # 0
  <2>1. [i \in 1..0 |-> <<>>] \in [1..0 -> Seq(S)] OBVIOUS
  <2>2. Joins([i \in 1..0 |-> <<>>], ss, 0) BY DEF Joins
  <2> QED BY <1>3, <2>1, <2>2
<1>5. PICK g \in [1..(k - 1) -> Seq(S)] : Joins(g, ss, k - 1)
  <2>1. k - 1 \in 0..Len(ss) /\ ~(k <= k - 1) BY <1>1, <1>3, <1>4
  <2>2. k - 1 \notin T BY <1>2, <2>1
  <2> QED BY <2>1, <2>2
<1> DEFINE last == IF k = 1 THEN ss[k] ELSE g[k - 1] \o ss[k]
           h == [i \in 1..k |-> IF i = k THEN last ELSE g[i]]
<1>6. last \in Seq(S)
  <2>1. k \in 1..Len(ss) BY <1>3, <1>4, <1>1
  <2>2. k # 1 => g[k - 1] \in Seq(S) BY <2>1, <1>1
  <2>3. k # 1 => g[k - 1] \o ss[k] \in Seq(S) BY <2>1, <2>2, <1>1
  <2> QED BY <1>1, <2>1, <2>3
<1>7. h \in [1..k -> Seq(S)]
  <2>1. \A i \in 1..k : i # k => i \in 1..(k - 1) BY <1>3, <1>1
  <2> HIDE DEF last
  <2> QED BY <1>6, <2>1
<1>8. Joins(h, ss, k)
  <2>1. ASSUME NEW i \in 1..k PROVE h[i] = IF i = 1 THEN ss[i] ELSE h[i - 1] \o ss[i]
    <3>0. k \in Nat /\ k # 0 BY <1>1, <1>3, <1>4
    <3>1. CASE i = k /\ k = 1 BY <3>1
    <3>2. CASE i = k /\ k # 1
      <4>1. i - 1 \in 1..k /\ i - 1 # k BY <3>0, <3>2
      <4>2. h[i - 1] = g[k - 1] BY <3>2, <4>1
      <4>3. h[i] = g[k - 1] \o ss[k] BY <3>2
      <4> HIDE DEF h
      <4> QED BY <3>2, <4>2, <4>3
    <3>3. CASE i # k
      <4>1. i \in 1..(k - 1) /\ h[i] = g[i] BY <3>0, <3>3
      <4>2. g[i] = IF i = 1 THEN ss[i] ELSE g[i - 1] \o ss[i] BY <1>5, <4>1 DEF Joins
      <4>3. i # 1 => i - 1 \in 1..k /\ i - 1 # k BY <3>0, <4>1
      <4>4. i # 1 => h[i - 1] = g[i - 1] BY <4>3
      <4> HIDE DEF h
      <4> QED BY <4>1, <4>2, <4>4
    <3> QED BY <3>1, <3>2, <3>3
  <2>2. h = [i \in 1..k |-> h[i]] OBVIOUS
  <2> HIDE DEF h
  <2> QED BY <2>1, <2>2 DEF Joins
<1> QED BY <1>3, <1>7, <1>8

\* What a step of the concatenation keeps: the elements of each sequence, and
\* that there are no more of them than sequences of at most one.
HasAll(s, t) == \A j \in 1..Len(t) : \E k \in 1..Len(s) : s[k] = t[j]
Few(ss) == \A i \in 1..Len(ss) : Len(ss[i]) <= 1

\* A concatenation has the elements of both.
LEMMA HoldsMore ==
  ASSUME NEW S, NEW s \in Seq(S), NEW t \in Seq(S)
  PROVE  /\ s \o t \in Seq(S) /\ Len(s \o t) = Len(s) + Len(t)
         /\ HasAll(s \o t, t)
         /\ \A u : HasAll(s, u) => HasAll(s \o t, u)
<1> DEFINE both == s \o t
<1>1. /\ both \in Seq(S) /\ Len(both) = Len(s) + Len(t)
      /\ \A k \in 1..(Len(s) + Len(t)) : both[k] = IF k <= Len(s) THEN s[k] ELSE t[k - Len(s)]
  BY ConcatProperties
<1>2. Len(s) \in Nat /\ Len(t) \in Nat OBVIOUS
<1> HIDE DEF both
<1>3. ASSUME NEW j \in 1..Len(t) PROVE \E k \in 1..Len(both) : both[k] = t[j]
  <2>1. Len(s) + j \in 1..Len(both) /\ ~(Len(s) + j <= Len(s)) /\ (Len(s) + j) - Len(s) = j BY <1>1, <1>2
  <2>2. both[Len(s) + j] = t[j] BY <1>1, <2>1
  <2> QED BY <2>1, <2>2
<1>4. ASSUME NEW u, HasAll(s, u), NEW j \in 1..Len(u) PROVE \E k \in 1..Len(both) : both[k] = u[j]
  <2>1. PICK k \in 1..Len(s) : s[k] = u[j] BY <1>4 DEF HasAll
  <2>2. k \in 1..Len(both) /\ k <= Len(s) BY <1>1, <1>2
  <2>3. both[k] = s[k] BY <1>1, <2>2
  <2> QED BY <2>1, <2>2, <2>3
<1>5. both = s \o t BY DEF both
<1> QED BY <1>1, <1>3, <1>4, <1>5 DEF HasAll

LEMMA SameHolds == \A s : HasAll(s, s)
BY DEF HasAll

\* The concatenation of sequences is one, in which all their elements are.
LEMMA FlattenFacts ==
  ASSUME NEW S, NEW ss \in Seq(Seq(S)), Len(ss) # 0
  PROVE  /\ FlattenSeq(ss) \in Seq(S)
         /\ \A i \in 1..Len(ss) : HasAll(FlattenSeq(ss), ss[i])
         /\ Few(ss) => Len(FlattenSeq(ss)) <= Len(ss)
<1> DEFINE f == CHOOSE f : Joins(f, ss, Len(ss))
           Good(k) == /\ f[k] \in Seq(S) /\ \A i \in 1..k : HasAll(f[k], ss[i])
                      /\ Few(ss) => Len(f[k]) <= k
           T == { k \in 1..Len(ss) : ~Good(k) }
<1>1. Len(ss) \in Nat /\ Len(ss) # 0 /\ \A i \in 1..Len(ss) : ss[i] \in Seq(S) /\ Len(ss[i]) \in Nat
  OBVIOUS
<1>2. Joins(f, ss, Len(ss))
  <2>1. Len(ss) \in 0..Len(ss) BY <1>1
  <2> QED BY <2>1, JoinsExist
<1>3. FlattenSeq(ss) = f[Len(ss)] BY <1>1 DEF FlattenSeq, Joins
<1> HIDE DEF f
<1>4. \A i \in 1..Len(ss) : f[i] = IF i = 1 THEN ss[i] ELSE f[i - 1] \o ss[i]
  BY <1>2 DEF Joins
<1>5. ASSUME NEW k \in 1..Len(ss), k # 1 => Good(k - 1) PROVE Good(k)
  <2>1. CASE k = 1
    <3>0. f[k] = ss[k] BY <1>4, <2>1
    <3>1. f[k] = ss[k] /\ \A i \in 1..k : i = k
      <4> HIDE DEF Good, T
      <4> QED BY <2>1, <3>0
    <3>2. Few(ss) => Len(ss[k]) <= 1 BY Zenon DEF Few
    <3>3. Few(ss) => Len(f[k]) <= 1 BY <3>1, <3>2
    <3> QED BY <1>1, <2>1, <3>1, <3>3, SameHolds
  <2>2. CASE k # 1
    <3>1. f[k] = f[k - 1] \o ss[k] /\ Good(k - 1) /\ ss[k] \in Seq(S) BY <1>1, <1>4, <1>5, <2>2
    <3>2. f[k - 1] \in Seq(S) /\ Len(f[k - 1]) \in Nat BY <3>1
    <3>3. /\ f[k] \in Seq(S) /\ Len(f[k]) = Len(f[k - 1]) + Len(ss[k]) /\ HasAll(f[k], ss[k])
          /\ \A u : HasAll(f[k - 1], u) => HasAll(f[k], u)
      BY <3>1, <3>2, HoldsMore
    <3>4. \A i \in 1..k : HasAll(f[k], ss[i])
      <4>1. \A i \in 1..k : i = k \/ i \in 1..(k - 1) BY <1>1
      <4> QED BY <3>1, <3>3, <4>1
    <3>5. Few(ss) => Len(f[k]) <= k
      <4> SUFFICES ASSUME Few(ss) PROVE Len(f[k]) <= k OBVIOUS
      <4>1. Len(f[k - 1]) <= k - 1 /\ Len(ss[k]) <= 1 BY <3>1 DEF Few
      <4> DEFINE before == Len(f[k - 1])  added == Len(ss[k])  after == Len(f[k])
      <4>2. before \in Nat /\ added \in Nat /\ k \in Nat BY <1>1, <3>2
      <4>3. after = before + added /\ before <= k - 1 /\ added <= 1 BY <3>3, <4>1
      <4> HIDE DEF before, added, after
      <4>4. after <= k BY <4>2, <4>3
      <4> QED BY <4>4 DEF after
    <3> QED BY <3>3, <3>4, <3>5
  <2> QED BY <2>1, <2>2
<1>6. T = {}
  <2> SUFFICES ASSUME T # {} PROVE FALSE OBVIOUS
  <2>1. T \in SUBSET Nat BY <1>1
  <2>2. PICK k \in T : \A y \in T : k <= y
    <3> HIDE DEF T
    <3> QED BY <2>1, LeastOf
  <2>3. k \in 1..Len(ss) /\ ~Good(k) OBVIOUS
  <2>4. ASSUME k # 1 PROVE Good(k - 1)
    <3>1. k - 1 \in 1..Len(ss) /\ ~(k <= k - 1) BY <1>1, <2>3, <2>4
    <3>2. k - 1 \notin T BY <2>2, <3>1
    <3> HIDE DEF Good
    <3> QED BY <3>1, <3>2
  <2> HIDE DEF Good
  <2> QED BY <1>5, <2>3, <2>4
<1>7. Len(ss) \in 1..Len(ss) BY <1>1
<1>8. Good(Len(ss))
  <2> HIDE DEF Good
  <2> QED BY <1>6, <1>7
<1> QED BY <1>3, <1>8

\* The concatenation of one sequence is that sequence.
LEMMA FlattenOne ==
  ASSUME NEW S, NEW s \in Seq(S)
  PROVE  FlattenSeq(<<s>>) = s
<1> DEFINE ss == <<s>>
           f == CHOOSE f : Joins(f, ss, 1)
<1>1. ss \in Seq(Seq(S)) /\ Len(ss) = 1 /\ ss[1] = s /\ ss # <<>>
  OBVIOUS
<1> HIDE DEF ss
<1>2. Joins(f, ss, 1)
  <2>1. 1 \in 0..Len(ss)
    BY <1>1
  <2>2. \E g : Joins(g, ss, 1)
    BY <1>1, <2>1, JoinsExist
  <2> QED BY <2>2
<1>3. FlattenSeq(ss) = f[1]
  BY <1>1 DEF FlattenSeq, Joins
<1> HIDE DEF f
<1>4. f[1] = ss[1]
  BY <1>2 DEF Joins
<1> QED BY <1>1, <1>3, <1>4 DEF ss

-----------------------------------------------------------------------------
(***************************************************************************)
(* InitConfigForm.  As long as no id is used again the rows of the draft   *)
(* have each its own, so that the one that is edited or removed is found.  *)
(***************************************************************************)
FreeRow == [id : Nat, text : SubTexts]
FreeDraft == [rows : Seq(FreeRow), rest : {0, 1}]
OwnIds(rs) == \A i, j \in DOMAIN rs : rs[i].id = rs[j].id => i = j
Counted(rs) == \A i \in DOMAIN rs : rs[i].id = i

\* How many of 1..n are left up to j when i is not.
LEMMA LeftUpTo ==
  ASSUME NEW n \in Nat, NEW i \in 1..n
  PROVE  /\ Cardinality((1..n) \ {i}) = n - 1
         /\ \A j \in (1..n) \ {i} :
              Cardinality({ m \in (1..n) \ {i} : m <= j }) = IF j < i THEN j ELSE j - 1
<1>1. \A k \in 0..n : IsFiniteSet(1..k) /\ Cardinality(1..k) = k
  <2> TAKE k \in 0..n
  <2>1. 1 \in Int /\ k \in Int /\ k \in Nat
    OBVIOUS
  <2>2. IsFiniteSet(1..k) /\ Cardinality(1..k) = IF 1 > k THEN 0 ELSE k - 1 + 1
    BY <2>1, FS_Interval
  <2> QED BY <2>1, <2>2
<1>2. ASSUME NEW k \in 0..n PROVE Cardinality((1..k) \ {i}) = IF i \in 1..k THEN k - 1 ELSE k
  <2>1. IsFiniteSet(1..k) /\ Cardinality(1..k) = k
    BY <1>1
  <2>2. Cardinality((1..k) \ {i}) = IF i \in 1..k THEN Cardinality(1..k) - 1 ELSE Cardinality(1..k)
    BY <2>1, FS_RemoveElement
  <2> QED BY <2>1, <2>2
<1>3. Cardinality((1..n) \ {i}) = n - 1
  BY <1>2
<1>4. ASSUME NEW j \in (1..n) \ {i}
      PROVE  Cardinality({ m \in (1..n) \ {i} : m <= j }) = IF j < i THEN j ELSE j - 1
  <2>1. { m \in (1..n) \ {i} : m <= j } = (1..j) \ {i}
    OBVIOUS
  <2>2. Cardinality((1..j) \ {i}) = IF i \in 1..j THEN j - 1 ELSE j
    BY <1>2
  <2> QED BY <2>1, <2>2
<1> QED BY <1>3, <1>4

\* With an id of its own a row alone is taken out.
LEMMA WithoutOne ==
  ASSUME NEW rs \in Seq(FreeRow), OwnIds(rs), NEW i \in DOMAIN rs
  PROVE  LET rest == RowsWithout(rs, rs[i].id)
         IN  /\ rest \in Seq(FreeRow) /\ OwnIds(rest)
             /\ Len(rest) = Len(rs) - 1
             /\ \A k \in 1..Len(rest) : rest[k] = rs[IF k < i THEN k ELSE k + 1]
<1> DEFINE n == Len(rs)
           left == { j \in DOMAIN rs : rs[j].id # rs[i].id }
           at(k) == CHOOSE j \in left : Cardinality({ m \in left : m <= j }) = k
           new == [k \in 1..(n - 1) |-> rs[IF k < i THEN k ELSE k + 1]]
<1>1. /\ n \in Nat /\ DOMAIN rs = 1..n /\ i \in 1..n /\ \A k \in 1..n : rs[k] \in FreeRow
      /\ left = (1..n) \ {i}
  BY DEF OwnIds
<1>2. RowsWithout(rs, rs[i].id) = [k \in 1..Cardinality(left) |-> rs[at(k)]]
  BY DEF RowsWithout
<1>3. /\ Cardinality(left) = n - 1
      /\ \A j \in left : Cardinality({ m \in left : m <= j }) = IF j < i THEN j ELSE j - 1
  BY <1>1, LeftUpTo
<1>4. ASSUME NEW k \in 1..(n - 1) PROVE at(k) = IF k < i THEN k ELSE k + 1
  <2> DEFINE here == IF k < i THEN k ELSE k + 1
             upto(j) == Cardinality({ m \in left : m <= j })
  <2>1. here \in left /\ \A j \in left : (IF j < i THEN j ELSE j - 1) = k <=> j = here
    BY <1>1
  <2>2. \A j \in left : upto(j) = k <=> j = here
    BY <1>3, <2>1
  <2> HIDE DEF here, upto
  <2>3. (CHOOSE j \in left : upto(j) = k) = here
    BY <2>1, <2>2
  <2> QED BY <2>3 DEF here, upto
<1> HIDE DEF at, left
<1>5. RowsWithout(rs, rs[i].id) = new
  BY <1>1, <1>2, <1>3, <1>4
<1>6. new \in Seq(FreeRow) /\ Len(new) = n - 1
  <2>1. new \in [1..(n - 1) -> FreeRow] /\ n - 1 \in Nat
    BY <1>1
  <2> HIDE DEF new
  <2>2. new \in Seq(FreeRow)
    BY <2>1, SeqDef
  <2>3. DOMAIN new = 1..(n - 1) /\ DOMAIN new = 1..Len(new) /\ Len(new) \in Nat
    BY <2>1, <2>2, LenProperties
  <2> QED BY <2>1, <2>2, <2>3
<1>7. OwnIds(new)
  BY <1>1 DEF OwnIds
<1> QED BY <1>5, <1>6, <1>7

\* Whichever rows are left, the k-th of them is a row, and they are no more.
LEMMA WithoutTyped ==
  ASSUME NEW S, NEW rs \in Seq(S), NEW x
  PROVE  RowsWithout(rs, x) \in Seq(S) /\ Len(RowsWithout(rs, x)) <= Len(rs)
<1> DEFINE left == { j \in DOMAIN rs : rs[j].id # x }
           upto(j) == Cardinality({ m \in left : m <= j })
           rank == [j \in left |-> upto(j)]
           size == Cardinality(left)
           at(k) == CHOOSE j \in left : upto(j) = k
           new == [k \in 1..size |-> rs[at(k)]]
<1>1. /\ DOMAIN rs = 1..Len(rs) /\ Len(rs) \in Nat /\ \A j \in DOMAIN rs : rs[j] \in S
      /\ left \subseteq 1..Len(rs)
  OBVIOUS
<1>2. RowsWithout(rs, x) = new
  BY DEF RowsWithout
<1> HIDE DEF left
<1>3. IsFiniteSet(left) /\ size \in Nat /\ size <= Len(rs)
  <2>1. IsFiniteSet(1..Len(rs)) /\ Cardinality(1..Len(rs)) = Len(rs)
    <3>1. 1 \in Int /\ Len(rs) \in Int
      BY <1>1
    <3>2. IsFiniteSet(1..Len(rs)) /\ Cardinality(1..Len(rs)) = IF 1 > Len(rs) THEN 0 ELSE Len(rs) - 1 + 1
      BY <3>1, FS_Interval
    <3> QED BY <1>1, <3>2
  <2>2. left \in SUBSET (1..Len(rs))
    BY <1>1
  <2>3. IsFiniteSet(left) /\ Cardinality(left) <= Cardinality(1..Len(rs))
    BY <2>1, <2>2, FS_Subset
  <2> QED BY <2>1, <2>3, FS_CardinalityType
<1>4. ASSUME NEW j \in left PROVE upto(j) \in 1..size
  <2> DEFINE T == { m \in left : m <= j }
  <2>1. T \in SUBSET left /\ j \in T
    BY <1>1
  <2> HIDE DEF T
  <2>2. IsFiniteSet(T) /\ Cardinality(T) <= size /\ Cardinality(T) \in Nat
    BY <1>3, <2>1, FS_Subset, FS_CardinalityType
  <2>3. Cardinality(T) # 0
    BY <2>1, <2>2, FS_EmptySet
  <2> QED BY <1>3, <2>2, <2>3 DEF T
<1>5. ASSUME NEW i \in left, NEW j \in left, i < j PROVE upto(i) # upto(j)
  <2> DEFINE R == { m \in left : m <= i }
             T == { m \in left : m <= j }
  <2>0. \A m \in left : m \in Int /\ (m <= i => m <= j)
    BY <1>1, <1>5
  <2>1. R \in SUBSET T /\ T \in SUBSET left /\ j \in T /\ j \notin R
    <3>1. j <= j /\ ~(j <= i)
      BY <1>5, <2>0
    <3>2. \A m \in R : m \in T
      BY <2>0
    <3> QED BY <3>1, <3>2
  <2> HIDE DEF R, T
  <2>2. IsFiniteSet(T)
    BY <1>3, <2>1, FS_Subset
  <2>3. Cardinality(T) = Cardinality(R) => T = R
    BY <2>1, <2>2, FS_Subset
  <2> QED BY <2>1, <2>3 DEF R, T
<1>6. rank \in Surjection(left, 1..size)
  <2>1. rank \in [left -> 1..size]
    BY <1>4
  <2>2. IsInjective(rank)
    <3> SUFFICES ASSUME NEW i \in left, NEW j \in left, upto(i) = upto(j) PROVE i = j
      BY DEF IsInjective
    <3>1. i \in Int /\ j \in Int /\ ~(i < j) /\ ~(j < i)
      BY <1>1, <1>5
    <3> QED BY <3>1
  <2>3. rank \in Injection(left, 1..size)
    BY <2>1, <2>2 DEF Injection
  <2> HIDE DEF rank
  <2>4. IsFiniteSet(1..size) /\ Cardinality(1..size) = size
    <3>1. 1 \in Int /\ size \in Int
      BY <1>3
    <3>2. IsFiniteSet(1..size) /\ Cardinality(1..size) = IF 1 > size THEN 0 ELSE size - 1 + 1
      BY <3>1, FS_Interval
    <3> QED BY <1>3, <3>2
  <2> QED BY <2>3, <2>4, FS_Injection
<1>7. ASSUME NEW k \in 1..size PROVE at(k) \in left
  <2>1. \E j \in left : upto(j) = k
    BY <1>6 DEF Surjection
  <2> HIDE DEF upto
  <2> QED BY <2>1
<1> HIDE DEF at, size
<1>8. new \in [1..size -> S]
  BY <1>1, <1>7
<1> HIDE DEF new
<1>9. new \in Seq(S) /\ DOMAIN new = 1..size
  BY <1>3, <1>8, SeqDef
<1>10. Len(new) = size
  BY <1>3, <1>9, LenProperties
<1> QED BY <1>2, <1>3, <1>9, <1>10

FormShape == [editing : BOOLEAN, shown : FreeDraft, draft : FreeDraft]
FreeSave == [at : {"idle", "sent", "ok", "refused"}, draft : FreeDraft]

\* The draft that is edited, and what its rows are known by.
Tidy(draft, urls, how) ==
  /\ how = "no" => Counted(draft.rows)
  /\ how = "removed" => OwnIds(draft.rows)
  /\ how # "reused" => TextsOf(draft.rows) = urls

FormIInv ==
  /\ rushed \in BOOLEAN
  /\ ~rushed =>
       /\ form \in FormShape /\ formsaves \in [FormSaves -> FreeSave]
       /\ formload = "out" => /\ \A p \in FormSaves : formsaves[p].at = "idle"
                              /\ setupcfg \in [words : {<<>>, <<"u">>}, rest : {0, 1}]
       /\ form.editing => shuffled \in {"no", "removed", "reused"} /\ Tidy(form.draft, meant, shuffled)

LEMMA DraftTyped ==
  /\ NoDraft \in FreeDraft /\ NoFormSave \in FreeSave /\ NoFormSave.at = "idle"
  /\ \A cfg \in [words : {<<>>, <<"u">>}, rest : {0, 1}] : Parsed(cfg) \in FreeDraft
<1>1. NoDraft \in FreeDraft /\ NoFormSave \in FreeSave /\ NoFormSave.at = "idle"
  BY DEF NoDraft, NoFormSave, FreeSave, FreeDraft, FreeRow
<1>2. ASSUME NEW cfg \in [words : {<<>>, <<"u">>}, rest : {0, 1}] PROVE Parsed(cfg) \in FreeDraft
  <2> DEFINE rs == [i \in DOMAIN cfg.words |-> [id |-> i, text |-> cfg.words[i]]]
  <2>1. cfg.words = <<>> \/ cfg.words = <<"u">>
    OBVIOUS
  <2>2. DOMAIN cfg.words = 1..Len(cfg.words) /\ Len(cfg.words) \in Nat /\ \A i \in DOMAIN cfg.words : cfg.words[i] = "u"
    <3>1. CASE cfg.words = <<>>
      BY <3>1
    <3>2. CASE cfg.words = <<"u">>
      BY <3>2
    <3> QED BY <2>1, <3>1, <3>2
  <2>3. rs \in [1..Len(cfg.words) -> FreeRow]
    BY <2>2 DEF FreeRow, SubTexts
  <2> HIDE DEF rs
  <2>4. rs \in Seq(FreeRow)
    BY <2>2, <2>3, SeqDef
  <2>5. Parsed(cfg) = [rows |-> rs, rest |-> cfg.rest]
    BY DEF Parsed, rs
  <2> QED BY <2>4, <2>5 DEF FreeDraft
<1> QED BY <1>1, <1>2

LEMMA FormBegins == FormInit => FormIInv
<1> SUFFICES ASSUME FormInit PROVE FormIInv
  OBVIOUS
<1>1. setupcfg \in [words : {<<>>, <<"u">>}, rest : {0, 1}]
  BY DEF FormInit
<1>2. form \in FormShape /\ ~form.editing
  BY DraftTyped DEF FormInit, FormShape
<1> QED BY <1>1, <1>2, DraftTyped DEF FormInit, FormIInv

\* An edit, of a draft the page may show.
LEMMA EditKeeps ==
  ASSUME FormIInv, NEW draft, NEW urls, NEW how \in {"no", "removed", "reused"},
         ~rushed => draft \in FreeDraft /\ Tidy(draft, urls, how), Edits(draft, urls, how)
  PROVE  FormIInv'
<1>1. /\ form.editing /\ form' = [form EXCEPT !.draft = draft] /\ shuffled' = how
      /\ meant' = (IF rushed \/ how = "reused" THEN <<>> ELSE urls)
      /\ UNCHANGED <<setupcfg, formload, formsaves, rushed>>
  BY DEF Edits
<1>2. CASE rushed
  BY <1>1, <1>2 DEF FormIInv
<1>3. CASE ~rushed
  <2>1. form \in FormShape /\ draft \in FreeDraft /\ Tidy(draft, urls, how)
    BY <1>3 DEF FormIInv
  <2>2. form' \in FormShape /\ form'.draft = draft
    BY <1>1, <2>1 DEF FormShape
  <2>3. Tidy(draft, meant', how)
    BY <1>1, <1>3, <2>1 DEF Tidy
  <2> QED BY <1>1, <1>3, <2>2, <2>3 DEF FormIInv, Tidy
<1> QED BY <1>2, <1>3 DEF FormIInv

\* What a draft at hand is.
LEMMA DraftAtHand ==
  ASSUME FormIInv, ~rushed, form.editing
  PROVE  /\ form.draft \in FreeDraft /\ form.draft.rows \in Seq(FreeRow)
         /\ DOMAIN form.draft.rows = 1..Len(form.draft.rows) /\ Len(form.draft.rows) \in Nat
         /\ shuffled \in {"no", "removed", "reused"} /\ Tidy(form.draft, meant, shuffled)
         /\ shuffled # "reused" => OwnIds(form.draft.rows)
         /\ shuffled # "reused" => meant \in Seq(SubTexts) /\ Len(meant) = Len(form.draft.rows)
                                   /\ DOMAIN meant = DOMAIN form.draft.rows
<1> DEFINE rs == form.draft.rows
<1>1. form.draft \in FreeDraft /\ rs \in Seq(FreeRow)
  BY DEF FormIInv, FormShape, FreeDraft
<1>2. shuffled \in {"no", "removed", "reused"} /\ Tidy(form.draft, meant, shuffled)
  BY DEF FormIInv
<1>3. DOMAIN rs = 1..Len(rs) /\ Len(rs) \in Nat /\ \A i \in DOMAIN rs : rs[i] \in FreeRow
  BY <1>1
<1>4. shuffled # "reused" => OwnIds(rs)
  BY <1>2 DEF Tidy, OwnIds, Counted
<1>5. shuffled # "reused" => meant \in Seq(SubTexts) /\ DOMAIN meant = DOMAIN rs
  <2>1. TextsOf(rs) \in [1..Len(rs) -> SubTexts]
    BY <1>3 DEF TextsOf, FreeRow
  <2>2. TextsOf(rs) \in Seq(SubTexts) /\ DOMAIN TextsOf(rs) = DOMAIN rs
    BY <1>3, <2>1, SeqDef
  <2> QED BY <1>2, <2>2 DEF Tidy
<1>6. shuffled # "reused" => Len(meant) = Len(rs)
  BY <1>3, <1>5, LenProperties
<1> QED BY <1>1, <1>2, <1>3, <1>4, <1>5, <1>6

\* Two sequences of texts are one if they agree row by row.
LEMMA SameTexts ==
  ASSUME NEW rs \in Seq(FreeRow), NEW urls \in Seq(SubTexts), Len(urls) = Len(rs),
         \A k \in 1..Len(rs) : urls[k] = rs[k].text
  PROVE  TextsOf(rs) = urls
<1>1. DOMAIN rs = 1..Len(rs) /\ DOMAIN urls = 1..Len(rs) /\ urls = [k \in DOMAIN urls |-> urls[k]]
  OBVIOUS
<1> QED BY <1>1 DEF TextsOf

\* A row is added: its id is the count, which is its own as long as none was removed.
LEMMA AddKeeps ==
  ASSUME FormIInv, AddSub
  PROVE  FormIInv'
<1> DEFINE rs == form.draft.rows
           row == [id |-> SubId(rs), text |-> "blank"]
           more == Append(rs, row)
           draft == [form.draft EXCEPT !.rows = more]
           urls == Append(meant, "blank")
           how == IF shuffled = "no" THEN "no" ELSE "reused"
<1>1. Edits(draft, urls, how) /\ form.editing /\ how \in {"no", "removed", "reused"}
  BY DEF AddSub, Edits
<1>2. ASSUME ~rushed PROVE draft \in FreeDraft /\ Tidy(draft, urls, how)
  <2>1. /\ form.draft \in FreeDraft /\ rs \in Seq(FreeRow)
        /\ DOMAIN rs = 1..Len(rs) /\ Len(rs) \in Nat /\ Tidy(form.draft, meant, shuffled)
        /\ shuffled = "no" => meant \in Seq(SubTexts) /\ Len(meant) = Len(rs)
    BY <1>1, <1>2, DraftAtHand
  <2>2. row \in FreeRow /\ row.id = Len(rs) + 1 /\ row.text = "blank"
    BY <2>1 DEF FreeRow, SubTexts, SubId
  <2> HIDE DEF row
  <2>3. /\ more \in Seq(FreeRow) /\ Len(more) = Len(rs) + 1 /\ DOMAIN more = 1..(Len(rs) + 1)
        /\ \A k \in 1..(Len(rs) + 1) : more[k] = IF k <= Len(rs) THEN rs[k] ELSE row
    BY <2>1, <2>2
  <2> HIDE DEF more
  <2>4. draft \in FreeDraft /\ draft.rows = more
    BY <2>1, <2>3 DEF FreeDraft
  <2> HIDE DEF draft
  <2>5. ASSUME shuffled = "no" PROVE Counted(more) /\ TextsOf(more) = urls
    <3>1. Counted(rs) /\ TextsOf(rs) = meant /\ meant \in Seq(SubTexts) /\ Len(meant) = Len(rs)
      BY <2>1, <2>5 DEF Tidy
    <3>2. Counted(more)
      BY <2>1, <2>2, <2>3, <3>1 DEF Counted
    <3>3. \A k \in 1..Len(rs) : meant[k] = rs[k].text
      BY <2>1, <3>1 DEF TextsOf
    <3>4. "blank" \in SubTexts
      BY DEF SubTexts
    <3>5. urls \in Seq(SubTexts) /\ Len(urls) = Len(rs) + 1
          /\ \A k \in 1..(Len(rs) + 1) : urls[k] = IF k <= Len(rs) THEN meant[k] ELSE "blank"
      BY <2>1, <3>1, <3>4
    <3>6. \A k \in 1..(Len(rs) + 1) : urls[k] = more[k].text
      BY <2>1, <2>2, <2>3, <3>3, <3>5
    <3> HIDE DEF urls
    <3>7. TextsOf(more) = urls
      BY <2>3, <3>5, <3>6, SameTexts
    <3> QED BY <3>2, <3>7
  <2> QED BY <2>4, <2>5 DEF Tidy
<1> HIDE DEF draft, urls, how
<1> QED BY <1>1, <1>2, EditKeeps

\* One element leaves a sequence, the ones after it move up.
LEMMA RemovedAt ==
  ASSUME NEW S, NEW s \in Seq(S), NEW i \in 1..Len(s)
  PROVE  /\ RemoveAt(s, i) \in Seq(S) /\ Len(RemoveAt(s, i)) = Len(s) - 1
         /\ \A k \in 1..(Len(s) - 1) : RemoveAt(s, i)[k] = s[IF k < i THEN k ELSE k + 1]
<1> DEFINE head == SubSeq(s, 1, i - 1)
           tail == SubSeq(s, i + 1, Len(s))
<1>1. Len(s) \in Nat /\ \A k \in 1..Len(s) : s[k] \in S
  OBVIOUS
<1>2. head \in Seq(S) /\ Len(head) = i - 1 /\ \A k \in 1..(i - 1) : head[k] = s[k]
  <2>1. /\ 1 \in Int /\ i - 1 \in Int /\ \A k \in 1..(i - 1) : s[k] \in S
    BY <1>1
  <2>2. /\ head \in Seq(S) /\ Len(head) = IF 1 <= i - 1 THEN i - 1 - 1 + 1 ELSE 0
        /\ \A k \in 1..(i - 1 - 1 + 1) : head[k] = s[1 + k - 1]
    BY <2>1, SubSeqProperties
  <2> HIDE DEF head
  <2> QED BY <1>1, <2>2
<1>3. tail \in Seq(S) /\ Len(tail) = Len(s) - i /\ \A k \in 1..(Len(s) - i) : tail[k] = s[i + k]
  <2>1. /\ i + 1 \in Int /\ Len(s) \in Int /\ \A k \in (i + 1)..Len(s) : s[k] \in S
    BY <1>1
  <2>2. /\ tail \in Seq(S) /\ Len(tail) = IF i + 1 <= Len(s) THEN Len(s) - (i + 1) + 1 ELSE 0
        /\ \A k \in 1..(Len(s) - (i + 1) + 1) : tail[k] = s[(i + 1) + k - 1]
    BY <2>1, SubSeqProperties
  <2> HIDE DEF tail
  <2> QED BY <1>1, <2>2
<1>4. RemoveAt(s, i) = head \o tail
  BY DEF RemoveAt
<1> HIDE DEF head, tail
<1>5. /\ RemoveAt(s, i) \in Seq(S) /\ Len(RemoveAt(s, i)) = (i - 1) + (Len(s) - i)
      /\ \A k \in 1..((i - 1) + (Len(s) - i)) :
           RemoveAt(s, i)[k] = IF k <= i - 1 THEN head[k] ELSE tail[k - (i - 1)]
  <2> DEFINE both == head \o tail
  <2>1. /\ both \in Seq(S) /\ Len(both) = Len(head) + Len(tail)
        /\ \A k \in 1..(Len(head) + Len(tail)) : both[k] = IF k <= Len(head) THEN head[k] ELSE tail[k - Len(head)]
    BY <1>2, <1>3, ConcatProperties
  <2> HIDE DEF both
  <2>2. RemoveAt(s, i) = both
    BY <1>4 DEF both
  <2> QED BY <1>2, <1>3, <2>1, <2>2
<1>6. ASSUME NEW k \in 1..(Len(s) - 1)
      PROVE  RemoveAt(s, i)[k] = s[IF k < i THEN k ELSE k + 1]
  <2>1. RemoveAt(s, i)[k] = IF k <= i - 1 THEN head[k] ELSE tail[k - (i - 1)]
    BY <1>1, <1>5
  <2>2. CASE k < i
    BY <1>1, <1>2, <2>1, <2>2
  <2>3. CASE ~(k < i)
    <3>1. k - (i - 1) \in 1..(Len(s) - i) /\ i + (k - (i - 1)) = k + 1
      BY <1>1, <2>3
    <3>2. tail[k - (i - 1)] = s[i + (k - (i - 1))]
      BY <1>3, <3>1
    <3>3. ~(k <= i - 1)
      BY <1>1, <2>3
    <3> QED BY <2>1, <2>3, <3>1, <3>2, <3>3
  <2> QED BY <2>2, <2>3
<1> QED BY <1>1, <1>5, <1>6

\* A row is removed, and with an id of its own no other.
LEMMA RemoveKeeps ==
  ASSUME FormIInv, NEW i \in DOMAIN form.draft.rows, RemoveSub(i)
  PROVE  FormIInv'
<1> DEFINE rs == form.draft.rows
           fewer == RowsWithout(rs, rs[i].id)
           draft == [form.draft EXCEPT !.rows = fewer]
           urls == IF i \in DOMAIN meant THEN RemoveAt(meant, i) ELSE meant
           how == IF shuffled = "no" THEN "removed" ELSE shuffled
<1>1. Edits(draft, urls, how) /\ form.editing
  BY DEF RemoveSub, Edits
<1>2. ASSUME ~rushed PROVE draft \in FreeDraft /\ Tidy(draft, urls, how) /\ how \in {"no", "removed", "reused"}
  <2>1. /\ form.draft \in FreeDraft /\ rs \in Seq(FreeRow) /\ shuffled \in {"no", "removed", "reused"}
        /\ DOMAIN rs = 1..Len(rs) /\ Len(rs) \in Nat /\ Tidy(form.draft, meant, shuffled)
        /\ shuffled # "reused" => /\ OwnIds(rs) /\ meant \in Seq(SubTexts) /\ Len(meant) = Len(rs)
                                  /\ DOMAIN meant = DOMAIN rs
    BY <1>1, <1>2, DraftAtHand
  <2>2. fewer \in Seq(FreeRow)
    BY <2>1, WithoutTyped
  <2>3. ASSUME shuffled # "reused" PROVE OwnIds(fewer) /\ TextsOf(fewer) = urls
    <3>1. /\ OwnIds(fewer) /\ Len(fewer) = Len(rs) - 1
          /\ \A k \in 1..Len(fewer) : fewer[k] = rs[IF k < i THEN k ELSE k + 1]
      BY <2>1, <2>3, WithoutOne
    <3> HIDE DEF fewer
    <3>2. \A k \in 1..Len(rs) : meant[k] = rs[k].text
      BY <2>1, <2>3 DEF Tidy, TextsOf
    <3>3. urls = RemoveAt(meant, i) /\ i \in 1..Len(meant)
      BY <2>1, <2>3
    <3>4. /\ urls \in Seq(SubTexts) /\ Len(urls) = Len(rs) - 1
          /\ \A k \in 1..(Len(rs) - 1) : urls[k] = meant[IF k < i THEN k ELSE k + 1]
      BY <2>1, <2>3, <3>3, RemovedAt
    <3> HIDE DEF urls
    <3>5. ASSUME NEW k \in 1..Len(fewer) PROVE urls[k] = fewer[k].text
      <4> DEFINE x == IF k < i THEN k ELSE k + 1
      <4>1. k \in 1..(Len(rs) - 1) /\ x \in 1..Len(rs)
        <5>1. Len(rs) \in Nat /\ Len(fewer) = Len(rs) - 1 /\ i \in 1..Len(rs)
          BY <2>1, <2>3, <3>1, <3>3
        <5> QED BY <5>1
      <4>2. fewer[k] = rs[x] /\ urls[k] = meant[x]
        BY <3>1, <3>4, <4>1
      <4> HIDE DEF x
      <4> QED BY <3>2, <4>1, <4>2
    <3> QED BY <2>2, <3>1, <3>4, <3>5, SameTexts
  <2> HIDE DEF fewer
  <2>4. draft \in FreeDraft /\ draft.rows = fewer
    BY <2>1, <2>2 DEF FreeDraft
  <2> HIDE DEF draft
  <2> QED BY <2>1, <2>3, <2>4 DEF Tidy
<1>3. rushed => FormIInv'
  BY <1>1 DEF Edits, FormIInv
<1> HIDE DEF draft, urls, how
<1> QED BY <1>1, <1>2, <1>3, EditKeeps

\* A row is typed, and with an id of its own no other.
LEMMA TypeKeeps ==
  ASSUME FormIInv, NEW i \in DOMAIN form.draft.rows, NEW typing \in SubTexts, TypeSub(i, typing)
  PROVE  FormIInv'
<1> DEFINE rs == form.draft.rows
           now == [j \in DOMAIN rs |-> IF rs[j].id = rs[i].id THEN [rs[j] EXCEPT !.text = typing] ELSE rs[j]]
           draft == [form.draft EXCEPT !.rows = now]
           urls == IF i \in DOMAIN meant THEN [meant EXCEPT ![i] = typing] ELSE meant
<1>1. Edits(draft, urls, shuffled) /\ form.editing
  BY DEF TypeSub, Edits
<1>2. ASSUME ~rushed PROVE draft \in FreeDraft /\ Tidy(draft, urls, shuffled) /\ shuffled \in {"no", "removed", "reused"}
  <2>1. /\ form.draft \in FreeDraft /\ rs \in Seq(FreeRow) /\ shuffled \in {"no", "removed", "reused"}
        /\ DOMAIN rs = 1..Len(rs) /\ Len(rs) \in Nat /\ Tidy(form.draft, meant, shuffled)
        /\ shuffled # "reused" => /\ OwnIds(rs) /\ meant \in Seq(SubTexts) /\ Len(meant) = Len(rs)
                                  /\ DOMAIN meant = DOMAIN rs
    BY <1>1, <1>2, DraftAtHand
  <2>2. ASSUME NEW j \in DOMAIN rs
        PROVE  /\ now[j] \in FreeRow /\ now[j].id = rs[j].id
               /\ now[j].text = IF rs[j].id = rs[i].id THEN typing ELSE rs[j].text
    <3> DEFINE new == [rs[j] EXCEPT !.text = typing]
    <3>1. rs[j] \in FreeRow
      BY <2>1
    <3>2. new \in FreeRow /\ new.id = rs[j].id /\ new.text = typing
      BY <3>1 DEF FreeRow
    <3>3. now[j] = IF rs[j].id = rs[i].id THEN new ELSE rs[j]
      OBVIOUS
    <3> HIDE DEF new, now
    <3> QED BY <3>1, <3>2, <3>3
  <2>3. now \in [1..Len(rs) -> FreeRow] /\ DOMAIN now = 1..Len(rs)
    BY <2>1, <2>2
  <2> HIDE DEF now
  <2>4. now \in Seq(FreeRow)
    BY <2>1, <2>3, SeqDef
  <2>5. Len(now) = Len(rs)
    BY <2>1, <2>3, <2>4, LenProperties
  <2>6. draft \in FreeDraft /\ draft.rows = now
    BY <2>1, <2>4 DEF FreeDraft
  <2> HIDE DEF draft
  <2>7. (Counted(rs) => Counted(now)) /\ (OwnIds(rs) => OwnIds(now))
    BY <2>1, <2>2, <2>3 DEF Counted, OwnIds
  <2>8. ASSUME shuffled # "reused" PROVE TextsOf(now) = urls
    <3>1. \A k \in 1..Len(rs) : meant[k] = rs[k].text
      BY <2>1, <2>8 DEF Tidy, TextsOf
    <3>2. urls = [meant EXCEPT ![i] = typing] /\ i \in 1..Len(rs) /\ meant \in Seq(SubTexts) /\ Len(meant) = Len(rs)
      BY <2>1, <2>8
    <3>3. urls \in Seq(SubTexts) /\ Len(urls) = Len(rs) /\ \A k \in 1..Len(rs) : urls[k] = IF k = i THEN typing ELSE meant[k]
      BY <3>2, ExceptSeq
    <3> HIDE DEF urls
    <3>4. \A k \in 1..Len(rs) : urls[k] = now[k].text
      BY <2>1, <2>2, <2>8, <3>1, <3>3 DEF OwnIds
    <3> QED BY <2>4, <2>5, <3>3, <3>4, SameTexts
  <2> QED BY <2>1, <2>6, <2>7, <2>8 DEF Tidy
<1>3. rushed => FormIInv'
  BY <1>1 DEF Edits, FormIInv
<1> HIDE DEF draft, urls
<1> QED BY <1>1, <1>2, <1>3, EditKeeps

LEMMA RestKeeps ==
  ASSUME FormIInv, NEW v \in {0, 1}, TypeOther(v)
  PROVE  FormIInv'
<1> DEFINE draft == [form.draft EXCEPT !.rest = v]
<1>1. Edits(draft, meant, shuffled) /\ form.editing
  BY DEF TypeOther, Edits
<1>2. ASSUME ~rushed PROVE draft \in FreeDraft /\ Tidy(draft, meant, shuffled) /\ shuffled \in {"no", "removed", "reused"}
  <2>1. form.draft \in FreeDraft /\ Tidy(form.draft, meant, shuffled) /\ shuffled \in {"no", "removed", "reused"}
    BY <1>1, <1>2, DraftAtHand
  <2>2. draft \in FreeDraft /\ draft.rows = form.draft.rows
    BY <2>1 DEF FreeDraft
  <2> QED BY <2>1, <2>2 DEF Tidy
<1>3. rushed => FormIInv'
  BY <1>1 DEF Edits, FormIInv
<1> HIDE DEF draft
<1> QED BY <1>1, <1>2, <1>3, EditKeeps

\* The read answers, or does not; the editor opens and closes.
LEMMA OpenKeeps ==
  ASSUME FormIInv, FormLoads \/ FormLoadFails \/ OpenEditor \/ CancelEdit
  PROVE  FormIInv'
<1>1. CASE rushed
  BY <1>1 DEF FormIInv, FormLoads, FormLoadFails, OpenEditor, CancelEdit, CloseEditor
<1>2. ASSUME ~rushed, FormLoads PROVE FormIInv'
  <2>1. form \in FormShape /\ formload = "out" /\ formload' = "done" /\ UNCHANGED <<setupcfg, formsaves, meant, shuffled>>
        /\ rushed' = (rushed \/ form.editing) /\ form.editing \in BOOLEAN
    BY <1>2 DEF FormIInv, FormLoads, FormShape
  <2>2. CASE form.editing
    BY <2>1, <2>2 DEF FormIInv
  <2>3. CASE ~form.editing
    <3> DEFINE now == Parsed(setupcfg)
    <3>1. now \in FreeDraft
      BY <1>2, <2>1, DraftTyped DEF FormIInv
    <3>2. form' = [form EXCEPT !.shown = now, !.draft = form.draft]
      BY <1>2, <2>3 DEF FormLoads
    <3> HIDE DEF now
    <3>3. form' \in FormShape /\ ~form'.editing
      BY <2>1, <2>3, <3>1, <3>2 DEF FormShape
    <3> QED BY <1>2, <2>1, <2>3, <3>3 DEF FormIInv
  <2> QED BY <2>1, <2>2, <2>3
<1>3. ASSUME ~rushed, FormLoadFails PROVE FormIInv'
  BY <1>3 DEF FormIInv, FormLoadFails, Tidy
<1>4. ASSUME ~rushed, OpenEditor PROVE FormIInv'
  <2>1. /\ form \in FormShape /\ form.shown \in FreeDraft /\ form' = [form EXCEPT !.editing = TRUE, !.draft = form.shown]
        /\ meant' = TextsOf(form.shown.rows) /\ UNCHANGED <<setupcfg, formload, formsaves, rushed>>
    BY <1>4 DEF FormIInv, OpenEditor, FormShape
  <2>2. form' \in FormShape /\ form'.draft = form.shown
    BY <2>1 DEF FormShape
  <2>3. shuffled' = IF Counted(form.shown.rows) THEN "no" ELSE "reused"
    BY <1>4 DEF OpenEditor, Counted
  <2>4. Tidy(form'.draft, meant', shuffled') /\ shuffled' \in {"no", "removed", "reused"}
    BY <2>1, <2>2, <2>3 DEF Tidy
  <2> QED BY <1>4, <2>1, <2>2, <2>4 DEF FormIInv, Tidy
<1>5. ASSUME ~rushed, CancelEdit PROVE FormIInv'
  <2>1. form \in FormShape /\ form' = [editing |-> FALSE, shown |-> form.shown, draft |-> NoDraft]
        /\ UNCHANGED <<setupcfg, formload, formsaves, rushed>>
    BY <1>5 DEF FormIInv, CancelEdit, CloseEditor
  <2>2. form' \in FormShape /\ ~form'.editing
    BY <2>1, DraftTyped DEF FormShape
  <2> QED BY <1>5, <2>1, <2>2 DEF FormIInv
<1> QED BY <1>1, <1>2, <1>3, <1>4, <1>5

\* A draft is sent, stored or refused, and what was sent is shown.
LEMMA DraftsKeep ==
  ASSUME FormIInv, NEW p \in FormSaves, SaveDraft(p) \/ ServeDraft(p) \/ DraftSaved(p) \/ DraftRefused(p)
  PROVE  FormIInv'
<1>1. rushed' \in BOOLEAN /\ (rushed => rushed')
  BY DEF FormIInv, SaveDraft, ServeDraft, DraftSaved, DraftRefused
<1>2. ASSUME ~rushed' PROVE FormIInv'
  <2>1. /\ ~rushed /\ form \in FormShape /\ formsaves \in [FormSaves -> FreeSave] /\ formsaves[p] \in FreeSave
        /\ form.draft \in FreeDraft
        /\ formload = "out" => \A x \in FormSaves : formsaves[x].at = "idle"
    BY <1>1, <1>2 DEF FormIInv, FormShape
  <2>2. CASE SaveDraft(p)
    <3> DEFINE new == [at |-> "sent", draft |-> form.draft]
    <3>1. new \in FreeSave
      BY <2>1 DEF FreeSave
    <3>2. formsaves' = [formsaves EXCEPT ![p] = new] /\ formload # "out" /\ UNCHANGED <<setupcfg, form, formload, meant, shuffled>>
      BY <1>2, <2>2 DEF SaveDraft
    <3> HIDE DEF new
    <3>3. formsaves' \in [FormSaves -> FreeSave]
      BY <2>1, <3>1, <3>2
    <3> QED BY <1>1, <2>1, <3>2, <3>3 DEF FormIInv, Tidy
  <2>3. CASE ServeDraft(p)
    <3>1. formload # "out" /\ UNCHANGED <<form, formload, meant, shuffled>>
      BY <2>1, <2>3 DEF ServeDraft
    <3> DEFINE ok == [formsaves[p] EXCEPT !.at = "ok"]
               no == [at |-> "refused", draft |-> NoDraft]
    <3>2. ok \in FreeSave /\ no \in FreeSave
      BY <2>1, DraftTyped DEF FreeSave
    <3>3. formsaves' = [formsaves EXCEPT ![p] = ok] \/ formsaves' = [formsaves EXCEPT ![p] = no]
      BY <2>1, <2>3 DEF ServeDraft
    <3> HIDE DEF ok, no
    <3>4. formsaves' \in [FormSaves -> FreeSave]
      BY <2>1, <3>2, <3>3
    <3> QED BY <1>1, <2>1, <3>1, <3>4 DEF FormIInv, Tidy
  <2>4. CASE DraftSaved(p)
    <3> DEFINE kept == formsaves[p].draft
    <3>1. /\ kept \in FreeDraft /\ formload # "out" /\ formload' # "out" /\ UNCHANGED <<setupcfg, rushed>>
          /\ form' = [editing |-> FALSE, shown |-> kept, draft |-> NoDraft]
          /\ formsaves' = [formsaves EXCEPT ![p] = NoFormSave]
      BY <2>1, <2>4 DEF DraftSaved, CloseEditor, FreeSave
    <3> HIDE DEF kept
    <3>2. form' \in FormShape /\ ~form'.editing /\ formsaves' \in [FormSaves -> FreeSave]
      BY <2>1, <3>1, DraftTyped DEF FormShape
    <3> QED BY <1>1, <2>1, <3>1, <3>2 DEF FormIInv
  <2>5. CASE DraftRefused(p)
    <3>1. formsaves' = [formsaves EXCEPT ![p] = NoFormSave] /\ UNCHANGED <<setupcfg, form, formload, meant, shuffled, rushed>>
          /\ formload # "out"
      BY <2>1, <2>5 DEF DraftRefused
    <3>2. formsaves' \in [FormSaves -> FreeSave]
      BY <2>1, <3>1, DraftTyped
    <3> QED BY <1>1, <2>1, <3>1, <3>2 DEF FormIInv, Tidy
  <2> QED BY <2>2, <2>3, <2>4, <2>5
<1> QED BY <1>1, <1>2 DEF FormIInv

\* The inductive invariant of the draft.
THEOREM DraftInductive == FormSpec => []FormIInv
<1>1. FormIInv /\ [FormNext]_fvars => FormIInv'
  <2> SUFFICES ASSUME FormIInv, [FormNext]_fvars PROVE FormIInv'
    OBVIOUS
  <2>1. CASE UNCHANGED fvars
    BY <2>1 DEF fvars, FormIInv, Tidy
  <2>2. CASE FormNext
    BY <2>2, OpenKeeps, AddKeeps, RemoveKeeps, TypeKeeps, RestKeeps, DraftsKeep DEF FormNext
  <2> QED BY <2>1, <2>2
<1> QED BY <1>1, FormBegins, PTL DEF FormSpec

\* An edit of a subscription changes its own row alone, for drafts of any length
\* and any saves in flight, as long as no row is added after one was removed
\* (addSub, SettingsClient.tsx:769).
THEOREM EachRowAlone == FormSpec => []RowsEditAlone
<1>1. FormIInv => RowsEditAlone
  BY DEF FormIInv, RowsEditAlone, Tidy
<1> QED BY <1>1, DraftInductive, PTL

-----------------------------------------------------------------------------
(* What is stored.  The server takes words that are urls alone, so that no  *)
(* row of a draft it accepts has a name of two words, and the page reads    *)
(* back one row for each row that was not blank.  While nothing is rushed   *)
(* there is one save at a time: until it is answered the summary is that of *)
(* before, and the answer brings the draft that was stored.                 *)

Page == [editing : BOOLEAN, shown : Draft, draft : Draft]
Sound(cfg) == cfg \in [words : Seq({"u"}), rest : {0, 1}] /\ Len(cfg.words) <= MaxRows
StoredIInv == FormTypeOK /\ form \in Page /\ Sound(setupcfg)

Agree(draft, cfg) == GivenTexts(draft.rows) = TextsOf(Parsed(cfg).rows) /\ draft.rest = cfg.rest
SummaryIInv ==
  ~rushed =>
    /\ \A p, q \in FormSaves : formsaves[p].at # "idle" /\ formsaves[q].at # "idle" => p = q
    /\ \A p \in FormSaves : formsaves[p].at = "ok" => Agree(formsaves[p].draft, setupcfg)
    /\ formload = "done" /\ (\A p \in FormSaves : formsaves[p].at # "ok") => Agree(form.shown, setupcfg)

\* The subs of a draft are a sequence of no more subs than there may be.
LEMMA RowsBounded ==
  /\ \A subs : subs \in UNION {[1..n -> SubRow] : n \in 0..MaxRows} <=> subs \in Seq(SubRow) /\ Len(subs) <= MaxRows
  /\ NoDraft \in Draft /\ NoFormSave \in FormSave
<1>1. MaxRows \in Nat /\ MaxRows # 0
  BY RowsAssumption
<1>2. ASSUME NEW subs, subs \in UNION {[1..n -> SubRow] : n \in 0..MaxRows}
      PROVE  subs \in Seq(SubRow) /\ Len(subs) <= MaxRows
  <2>1. PICK n \in 0..MaxRows : subs \in [1..n -> SubRow]
    BY <1>2
  <2>2. subs \in Seq(SubRow) /\ n \in Nat /\ DOMAIN subs = 1..n
    BY <1>1, <2>1, SeqDef
  <2>3. Len(subs) = n
    BY <2>2, LenProperties
  <2> QED BY <1>1, <2>2, <2>3
<1>3. ASSUME NEW subs, subs \in Seq(SubRow) /\ Len(subs) <= MaxRows
      PROVE  subs \in UNION {[1..n -> SubRow] : n \in 0..MaxRows}
  <2>1. subs \in [1..Len(subs) -> SubRow] /\ Len(subs) \in 0..MaxRows
    BY <1>1, <1>3, LenProperties
  <2> QED BY <2>1
<1>4. <<>> \in Seq(SubRow) /\ Len(<<>>) <= MaxRows
  BY <1>1
<1>5. NoDraft \in Draft
  BY <1>3, <1>4 DEF NoDraft, Draft
<1> QED BY <1>2, <1>3, <1>5 DEF NoFormSave, FormSave

\* What a draft is.
LEMMA DraftsRows ==
  ASSUME NEW draft \in Draft
  PROVE  /\ draft.rows \in Seq(SubRow) /\ Len(draft.rows) <= MaxRows /\ draft.rest \in {0, 1}
         /\ DOMAIN draft.rows = 1..Len(draft.rows) /\ Len(draft.rows) \in Nat
         /\ \A subs \in Seq(SubRow) : Len(subs) <= MaxRows =>
              /\ [draft EXCEPT !.rows = subs] \in Draft /\ [draft EXCEPT !.rows = subs].rows = subs
         /\ \A v \in {0, 1} : [draft EXCEPT !.rest = v] \in Draft
<1>1. draft.rows \in UNION {[1..n -> SubRow] : n \in 0..MaxRows} /\ draft.rest \in {0, 1}
  BY DEF Draft
<1>2. draft.rows \in Seq(SubRow) /\ Len(draft.rows) <= MaxRows
  BY <1>1, RowsBounded
<1>3. ASSUME NEW subs \in Seq(SubRow), Len(subs) <= MaxRows
      PROVE  [draft EXCEPT !.rows = subs] \in Draft /\ [draft EXCEPT !.rows = subs].rows = subs
  <2>1. subs \in UNION {[1..n -> SubRow] : n \in 0..MaxRows}
    BY <1>3, RowsBounded
  <2> QED BY <2>1 DEF Draft
<1>4. \A v \in {0, 1} : [draft EXCEPT !.rest = v] \in Draft
  BY DEF Draft
<1>5. DOMAIN draft.rows = 1..Len(draft.rows) /\ Len(draft.rows) \in Nat
  BY <1>2
<1> QED BY <1>1, <1>2, <1>3, <1>4, <1>5

\* What the server accepts are urls alone, one of each row that is not blank.
LEMMA AcceptedIs ==
  ASSUME NEW draft \in Draft, Accepts(Serialized(draft))
  PROVE  Sound(Serialized(draft)) /\ Agree(draft, Serialized(draft))
<1> DEFINE subs == draft.rows
           parts == [i \in DOMAIN subs |-> WordsOf(subs[i])]
           words == FlattenSeq(parts)
           given == [i \in DOMAIN subs |-> IF subs[i].text = "blank" THEN <<>> ELSE <<subs[i].text>>]
<1>1. /\ subs \in Seq(SubRow) /\ Len(subs) <= MaxRows /\ draft.rest \in {0, 1}
      /\ DOMAIN subs = 1..Len(subs) /\ Len(subs) \in Nat
      /\ \A i \in 1..Len(subs) : subs[i] \in SubRow
  <2>1. /\ subs \in Seq(SubRow) /\ Len(subs) <= MaxRows /\ draft.rest \in {0, 1}
        /\ DOMAIN subs = 1..Len(subs) /\ Len(subs) \in Nat
    BY DraftsRows
  <2> HIDE DEF subs
  <2> QED BY <2>1
<1>2. Serialized(draft) = [words |-> words, rest |-> draft.rest]
  BY DEF Serialized
<1>3. \A i \in DOMAIN words : words[i] # "word"
  BY <1>2 DEF Accepts
<1>4. ASSUME NEW i \in 1..Len(subs)
      PROVE  /\ subs[i].text \in SubTexts /\ WordsOf(subs[i]) \in Seq({"word", "u"})
             /\ subs[i].text = "spaced" => Len(WordsOf(subs[i])) = 2 /\ WordsOf(subs[i])[1] = "word"
             /\ subs[i].text # "spaced" =>
                  /\ WordsOf(subs[i]) = IF subs[i].text = "blank" THEN <<>> ELSE <<subs[i].text>>
                  /\ Len(WordsOf(subs[i])) <= 1
  <2>1. subs[i].text \in SubTexts
    BY <1>1 DEF SubRow
  <2>2. CASE subs[i].text = "blank"
    <3>1. WordsOf(subs[i]) = <<>>
      BY <2>2 DEF WordsOf
    <3> QED BY <2>1, <2>2, <3>1
  <2>3. CASE subs[i].text = "u"
    <3>1. WordsOf(subs[i]) = <<"u">>
      BY <2>3 DEF WordsOf
    <3> QED BY <2>1, <2>3, <3>1
  <2>4. CASE subs[i].text = "spaced"
    <3>1. WordsOf(subs[i]) = <<"word", "u">>
      BY <2>4 DEF WordsOf
    <3> QED BY <2>1, <2>4, <3>1
  <2> QED BY <2>1, <2>2, <2>3, <2>4 DEF SubTexts
<1>5. /\ parts \in Seq(Seq({"word", "u"})) /\ Len(parts) = Len(subs)
      /\ \A i \in 1..Len(subs) : parts[i] = WordsOf(subs[i])
  <2>1. parts \in [1..Len(subs) -> Seq({"word", "u"})] /\ DOMAIN parts = 1..Len(subs)
    BY <1>1, <1>4
  <2>2. \A i \in 1..Len(subs) : parts[i] = WordsOf(subs[i])
    BY <1>1
  <2> HIDE DEF parts
  <2>3. parts \in Seq(Seq({"word", "u"}))
    BY <1>1, <2>1, SeqDef
  <2>4. Len(parts) = Len(subs)
    BY <1>1, <2>1, <2>3, LenProperties
  <2> QED BY <2>2, <2>3, <2>4
<1>6. CASE subs = <<>>
  <2>1. parts = <<>> /\ given = <<>> /\ Len(<<>>) = 0
    BY <1>6
  <2>2. words = <<>> /\ FlattenSeq(given) = <<>>
    BY <2>1 DEF FlattenSeq
  <2> HIDE DEF words
  <2>3. Serialized(draft) \in [words : Seq({"u"}), rest : {0, 1}] /\ Serialized(draft).words = <<>>
        /\ Serialized(draft).rest = draft.rest
    BY <1>1, <1>2, <2>2
  <2>4. TextsOf(Parsed(Serialized(draft)).rows) = <<>>
    BY <2>3 DEF TextsOf, Parsed
  <2>5. GivenTexts(subs) = <<>>
    BY <2>2 DEF GivenTexts
  <2> QED BY <1>1, <2>3, <2>4, <2>5, RowsAssumption DEF Sound, Agree
<1>7. CASE subs # <<>>
  <2>1. Len(subs) # 0
    BY <1>1, <1>7
  <2>2. /\ words \in Seq({"word", "u"})
        /\ \A i \in 1..Len(subs) : HasAll(words, parts[i])
        /\ Few(parts) => Len(words) <= Len(subs)
    <3> HIDE DEF parts
    <3> QED BY <1>5, <2>1, FlattenFacts
  <2> HIDE DEF words, parts
  <2>3. \A i \in 1..Len(words) : words[i] = "u"
    <3>1. \A i \in 1..Len(words) : words[i] \in {"word", "u"} /\ i \in DOMAIN words
      BY <2>2
    <3> QED BY <1>3, <3>1
  <2>4. words \in Seq({"u"})
    <3>1. Len(words) \in Nat /\ words \in [1..Len(words) -> {"u"}]
      BY <2>2, <2>3
    <3> QED BY <3>1, SeqDef
  <2>5. ASSUME NEW i \in 1..Len(subs) PROVE subs[i].text # "spaced"
    <3> SUFFICES ASSUME subs[i].text = "spaced" PROVE FALSE
      OBVIOUS
    <3>1. Len(parts[i]) = 2 /\ parts[i][1] = "word"
      BY <1>4, <1>5
    <3>2. 1 \in 1..Len(parts[i])
      BY <3>1
    <3>3. \E k \in 1..Len(words) : words[k] = parts[i][1]
      BY <2>2, <3>2 DEF HasAll
    <3> QED BY <2>3, <3>1, <3>3
  <2>6. Len(words) <= Len(subs)
    <3>1. \A i \in 1..Len(parts) : Len(parts[i]) <= 1
      BY <1>4, <1>5, <2>5
    <3> QED BY <2>2, <3>1 DEF Few
  <2>7. parts = given
    <3>1. \A i \in DOMAIN subs : WordsOf(subs[i]) = IF subs[i].text = "blank" THEN <<>> ELSE <<subs[i].text>>
      BY <1>1, <1>4, <2>5
    <3> QED BY <3>1 DEF parts
  <2>8. GivenTexts(subs) = words
    BY <2>7 DEF GivenTexts, words
  <2>9. TextsOf(Parsed(Serialized(draft)).rows) = words
    <3>1. words = [i \in DOMAIN words |-> words[i]]
      BY <2>2
    <3>2. Serialized(draft).words = words
      BY <1>2
    <3> QED BY <3>1, <3>2 DEF TextsOf, Parsed
  <2>10. Len(words) <= MaxRows
    <3>1. Len(words) \in Nat /\ MaxRows \in Nat
      BY <2>2, RowsAssumption
    <3> QED BY <1>1, <2>6, <3>1
  <2> QED BY <1>1, <1>2, <2>4, <2>8, <2>9, <2>10 DEF Sound, Agree
<1> QED BY <1>6, <1>7

\* What is read of a configuration is a draft.
LEMMA ParsedIs ==
  ASSUME NEW cfg, Sound(cfg)
  PROVE  Parsed(cfg) \in Draft /\ cfg \in Stored
<1> DEFINE subs == [i \in DOMAIN cfg.words |-> [id |-> i, text |-> cfg.words[i]]]
<1>1. /\ cfg.words \in Seq({"u"}) /\ cfg.rest \in {0, 1} /\ Len(cfg.words) <= MaxRows
      /\ MaxRows \in Nat /\ Len(cfg.words) \in Nat
      /\ DOMAIN cfg.words = 1..Len(cfg.words) /\ \A i \in 1..Len(cfg.words) : cfg.words[i] = "u"
  BY RowsAssumption DEF Sound
<1>2. subs \in [1..Len(cfg.words) -> SubRow]
  BY <1>1 DEF SubRow, SubTexts
<1>3. subs \in UNION {[1..n -> SubRow] : n \in 0..MaxRows}
  BY <1>1, <1>2
<1>4. Parsed(cfg) = [rows |-> subs, rest |-> cfg.rest]
  BY DEF Parsed
<1> HIDE DEF subs
<1>5. Parsed(cfg) \in Draft
  BY <1>1, <1>3, <1>4 DEF Draft
<1>6. cfg.words \in Seq({"word", "u"})
  <2>1. cfg.words \in [1..Len(cfg.words) -> {"word", "u"}]
    BY <1>1
  <2> QED BY <1>1, <2>1, SeqDef
<1> QED BY <1>5, <1>6 DEF Sound, Stored

\* The first configuration is read as it is.
LEMMA FirstDraft ==
  ASSUME NEW cfg \in [words : {<<>>, <<"u">>}, rest : {0, 1}]
  PROVE  Sound(cfg) /\ Agree(Parsed(cfg), cfg)
<1>1. MaxRows \in Nat /\ 1 <= MaxRows
  BY RowsAssumption
<1> DEFINE subs == [i \in DOMAIN cfg.words |-> [id |-> i, text |-> cfg.words[i]]]
           given == [i \in DOMAIN subs |-> IF subs[i].text = "blank" THEN <<>> ELSE <<subs[i].text>>]
<1>2. Parsed(cfg) = [rows |-> subs, rest |-> cfg.rest]
  BY DEF Parsed
<1>3. GivenTexts(subs) = FlattenSeq(given)
  BY DEF GivenTexts
<1>4. TextsOf(subs) = [i \in DOMAIN cfg.words |-> cfg.words[i]]
  BY DEF TextsOf
<1>5. CASE cfg.words = <<>>
  <2>1. given = <<>> /\ TextsOf(subs) = <<>> /\ Len(<<>>) = 0
    BY <1>4, <1>5
  <2>2. FlattenSeq(<<>>) = <<>>
    BY <2>1 DEF FlattenSeq
  <2>3. GivenTexts(subs) = TextsOf(subs)
    BY <1>3, <2>1, <2>2
  <2>4. <<>> \in Seq({"u"}) /\ 0 <= MaxRows
    BY <1>1
  <2> HIDE DEF subs, given
  <2>5. Agree(Parsed(cfg), cfg)
    BY <1>2, <2>3 DEF Agree
  <2> QED BY <1>5, <2>1, <2>4, <2>5 DEF Sound
<1>6. CASE cfg.words = <<"u">>
  <2>1. DOMAIN cfg.words = 1..1 /\ cfg.words[1] = "u" /\ Len(cfg.words) = 1
    BY <1>6
  <2>2. DOMAIN subs = 1..1 /\ subs[1].text = "u"
    BY <2>1
  <2>3. given = << <<"u">> >>
    <3>1. given = [i \in 1..1 |-> <<"u">>]
      BY <2>2
    <3>2. [i \in 1..1 |-> <<"u">>] = << <<"u">> >>
      OBVIOUS
    <3> QED BY <3>1, <3>2
  <2>4. <<"u">> \in Seq({"u"})
    OBVIOUS
  <2>5. FlattenSeq(<< <<"u">> >>) = <<"u">>
    BY <2>4, FlattenOne
  <2>6. TextsOf(subs) = <<"u">>
    <3>1. TextsOf(subs) = [i \in 1..1 |-> "u"]
      BY <1>4, <2>1
    <3>2. [i \in 1..1 |-> "u"] = <<"u">>
      OBVIOUS
    <3> QED BY <3>1, <3>2
  <2>7. GivenTexts(subs) = TextsOf(subs)
    BY <1>3, <2>3, <2>5, <2>6
  <2> HIDE DEF subs, given
  <2>8. Agree(Parsed(cfg), cfg)
    BY <1>2, <2>7 DEF Agree
  <2> QED BY <1>1, <1>6, <2>1, <2>4, <2>8 DEF Sound
<1> QED BY <1>5, <1>6

LEMMA StoredBegins == FormInit => StoredIInv /\ SummaryIInv
<1> SUFFICES ASSUME FormInit PROVE StoredIInv /\ SummaryIInv
  OBVIOUS
<1>1. setupcfg \in [words : {<<>>, <<"u">>}, rest : {0, 1}] /\ formload = "out"
      /\ form = [editing |-> FALSE, shown |-> NoDraft, draft |-> NoDraft]
      /\ formsaves = [p \in FormSaves |-> NoFormSave]
      /\ meant = <<>> /\ shuffled = "no" /\ rushed = FALSE
  BY DEF FormInit
<1>2. Sound(setupcfg) /\ setupcfg \in Stored
  BY <1>1, FirstDraft, ParsedIs
<1>3. form \in Page /\ form.editing \in BOOLEAN /\ form.shown \in Draft /\ form.draft \in Draft
      /\ formsaves \in [FormSaves -> FormSave]
  BY <1>1, RowsBounded DEF Page
<1>4. \A p \in FormSaves : formsaves[p].at = "idle"
  BY <1>1 DEF NoFormSave
<1>5. meant \in Seq(SubTexts)
  BY <1>1
<1>6. StoredIInv
  BY <1>1, <1>2, <1>3, <1>5 DEF StoredIInv, FormTypeOK
<1>7. SummaryIInv
  BY <1>1, <1>4 DEF SummaryIInv
<1> QED BY <1>6, <1>7

\* An edit stores nothing and shows nothing.
LEMMA EditTyped ==
  ASSUME StoredIInv, NEW draft \in Draft, NEW urls \in Seq(SubTexts), NEW how \in {"no", "removed", "reused"},
         Edits(draft, urls, how)
  PROVE  StoredIInv' /\ (SummaryIInv => SummaryIInv')
<1>1. /\ form' = [form EXCEPT !.draft = draft] /\ shuffled' = how
      /\ meant' = (IF rushed \/ how = "reused" THEN <<>> ELSE urls)
      /\ UNCHANGED <<setupcfg, formload, formsaves, rushed>>
  BY DEF Edits
<1>2. form' \in Page /\ form'.shown = form.shown
  BY <1>1 DEF StoredIInv, Page
<1>3. meant' \in Seq(SubTexts)
  BY <1>1
<1>4. StoredIInv'
  BY <1>1, <1>2, <1>3 DEF StoredIInv, FormTypeOK, Page, Sound
<1>5. SummaryIInv => SummaryIInv'
  BY <1>1, <1>2 DEF SummaryIInv, Agree
<1> QED BY <1>4, <1>5

\* Every edit is one of a draft.
LEMMA EditsTyped ==
  ASSUME StoredIInv,
         \/ AddSub
         \/ \E i \in DOMAIN form.draft.rows : RemoveSub(i) \/ \E typing \in SubTexts : TypeSub(i, typing)
         \/ \E v \in {0, 1} : TypeOther(v)
  PROVE  StoredIInv' /\ (SummaryIInv => SummaryIInv')
<1> DEFINE subs == form.draft.rows
<1>1. /\ form.draft \in Draft /\ meant \in Seq(SubTexts) /\ shuffled \in {"no", "removed", "reused"}
  BY DEF StoredIInv, FormTypeOK
<1>2. /\ subs \in Seq(SubRow) /\ Len(subs) <= MaxRows
      /\ DOMAIN subs = 1..Len(subs) /\ Len(subs) \in Nat /\ MaxRows \in Nat
      /\ \A more \in Seq(SubRow) : Len(more) <= MaxRows => [form.draft EXCEPT !.rows = more] \in Draft
      /\ \A v \in {0, 1} : [form.draft EXCEPT !.rest = v] \in Draft
  BY <1>1, DraftsRows, RowsAssumption
<1>3. CASE AddSub
  <2> DEFINE row == [id |-> SubId(subs), text |-> "blank"]
             more == Append(subs, row)
  <2>1. Len(subs) < MaxRows
    BY <1>3 DEF AddSub
  <2>2. row \in SubRow
    BY <1>2, <2>1 DEF SubRow, SubId, SubTexts
  <2> HIDE DEF row
  <2>3. more \in Seq(SubRow) /\ Len(more) = Len(subs) + 1
    BY <1>2, <2>2
  <2>4. Len(more) <= MaxRows
    BY <1>2, <2>1, <2>3
  <2>5. Append(meant, "blank") \in Seq(SubTexts)
    <3>1. "blank" \in SubTexts
      BY DEF SubTexts
    <3> QED BY <1>1, <3>1
  <2>6. Edits([form.draft EXCEPT !.rows = more], Append(meant, "blank"), IF shuffled = "no" THEN "no" ELSE "reused")
    BY <1>3 DEF AddSub, row
  <2> HIDE DEF more
  <2> QED BY <1>2, <2>3, <2>4, <2>5, <2>6, EditTyped
<1>4. ASSUME NEW i \in DOMAIN form.draft.rows, RemoveSub(i) PROVE StoredIInv' /\ (SummaryIInv => SummaryIInv')
  <2> DEFINE fewer == RowsWithout(subs, subs[i].id)
             urls == IF i \in DOMAIN meant THEN RemoveAt(meant, i) ELSE meant
             how == IF shuffled = "no" THEN "removed" ELSE shuffled
  <2>1. fewer \in Seq(SubRow) /\ Len(fewer) <= Len(subs)
    BY <1>2, WithoutTyped
  <2>2. Len(fewer) <= MaxRows
    <3>1. Len(fewer) \in Nat
      BY <2>1
    <3> QED BY <1>2, <2>1, <3>1
  <2>3. urls \in Seq(SubTexts)
    <3>1. CASE i \in DOMAIN meant
      <4>1. i \in 1..Len(meant)
        BY <1>1, <3>1
      <4> QED BY <1>1, <3>1, <4>1, RemovedAt
    <3>2. CASE i \notin DOMAIN meant
      BY <1>1, <3>2
    <3> QED BY <3>1, <3>2
  <2>4. Edits([form.draft EXCEPT !.rows = fewer], urls, how) /\ how \in {"no", "removed", "reused"}
    BY <1>1, <1>4 DEF RemoveSub
  <2> HIDE DEF fewer, urls, how
  <2> QED BY <1>2, <2>1, <2>2, <2>3, <2>4, EditTyped
<1>5. ASSUME NEW i \in DOMAIN form.draft.rows, NEW typing \in SubTexts, TypeSub(i, typing)
      PROVE  StoredIInv' /\ (SummaryIInv => SummaryIInv')
  <2> DEFINE now == [j \in DOMAIN subs |-> IF subs[j].id = subs[i].id THEN [subs[j] EXCEPT !.text = typing] ELSE subs[j]]
             urls == IF i \in DOMAIN meant THEN [meant EXCEPT ![i] = typing] ELSE meant
  <2>1. \A j \in 1..Len(subs) : subs[j] \in SubRow /\ [subs[j] EXCEPT !.text = typing] \in SubRow
    <3>1. \A j \in 1..Len(subs) : subs[j] \in SubRow
      <4> HIDE DEF subs
      <4> QED BY <1>2
    <3> QED BY <3>1 DEF SubRow
  <2>2. now \in [1..Len(subs) -> SubRow]
    BY <1>2, <2>1
  <2>3. urls \in Seq(SubTexts)
    <3>1. CASE i \in DOMAIN meant
      <4>1. i \in 1..Len(meant)
        BY <1>1, <3>1
      <4> QED BY <1>1, <3>1, <4>1, ExceptSeq
    <3>2. CASE i \notin DOMAIN meant
      BY <1>1, <3>2
    <3> QED BY <3>1, <3>2
  <2>4. Edits([form.draft EXCEPT !.rows = now], urls, shuffled)
    BY <1>5 DEF TypeSub
  <2> HIDE DEF now, urls
  <2>5. now \in Seq(SubRow) /\ DOMAIN now = 1..Len(subs)
    BY <1>2, <2>2, SeqDef
  <2>6. Len(now) = Len(subs)
    BY <1>2, <2>5, LenProperties
  <2> QED BY <1>1, <1>2, <2>3, <2>4, <2>5, <2>6, EditTyped
<1>6. ASSUME NEW v \in {0, 1}, TypeOther(v) PROVE StoredIInv' /\ (SummaryIInv => SummaryIInv')
  <2>1. Edits([form.draft EXCEPT !.rest = v], meant, shuffled)
    BY <1>6 DEF TypeOther
  <2> QED BY <1>1, <1>2, <1>6, <2>1, EditTyped
<1> QED BY <1>3, <1>4, <1>5, <1>6

\* The read answers with what is stored, or does not; the editor opens and closes.
LEMMA SummaryReads ==
  ASSUME StoredIInv, FormIInv, FormLoads \/ FormLoadFails \/ OpenEditor \/ CancelEdit
  PROVE  StoredIInv' /\ (SummaryIInv => SummaryIInv')
<1>1. /\ form \in Page /\ form.shown \in Draft /\ form.draft \in Draft /\ form.editing \in BOOLEAN
      /\ Sound(setupcfg) /\ setupcfg \in Stored /\ formsaves \in [FormSaves -> FormSave]
      /\ meant \in Seq(SubTexts) /\ shuffled \in {"no", "removed", "reused"} /\ rushed \in BOOLEAN
      /\ formload \in {"out", "failed", "done"}
  BY DEF StoredIInv, FormTypeOK
<1>2. ASSUME FormLoads PROVE StoredIInv' /\ SummaryIInv'
  <2> DEFINE now == Parsed(setupcfg)
             next == IF form.editing THEN now ELSE form.draft
  <2>1. /\ formload = "out" /\ formload' = "done" /\ form' = [form EXCEPT !.shown = now, !.draft = next]
        /\ rushed' = (rushed \/ form.editing) /\ UNCHANGED <<setupcfg, formsaves, meant, shuffled>>
    BY <1>2 DEF FormLoads
  <2>2. now \in Draft /\ next \in Draft
    BY <1>1, ParsedIs
  <2>3. ~rushed => Agree(now, setupcfg) /\ \A p \in FormSaves : formsaves[p].at = "idle"
    BY <2>1, FirstDraft DEF FormIInv
  <2> HIDE DEF now, next
  <2>4. form' \in Page /\ form'.shown = now
    BY <1>1, <2>1, <2>2 DEF Page
  <2>5. StoredIInv'
    BY <1>1, <2>1, <2>4 DEF StoredIInv, FormTypeOK, Page, Sound
  <2>6. SummaryIInv'
    BY <2>1, <2>3, <2>4 DEF SummaryIInv, Agree
  <2> QED BY <2>5, <2>6
<1>3. ASSUME FormLoadFails PROVE StoredIInv' /\ (SummaryIInv => SummaryIInv')
  <2>1. formload' = "failed" /\ UNCHANGED <<setupcfg, form, formsaves, meant, shuffled, rushed>>
    BY <1>3 DEF FormLoadFails
  <2>2. StoredIInv'
    BY <1>1, <2>1 DEF StoredIInv, FormTypeOK, Page, Sound
  <2>3. SummaryIInv => SummaryIInv'
    BY <2>1 DEF SummaryIInv, Agree
  <2> QED BY <2>2, <2>3
<1>4. ASSUME OpenEditor PROVE StoredIInv' /\ (SummaryIInv => SummaryIInv')
  <2>1. /\ form' = [form EXCEPT !.editing = TRUE, !.draft = form.shown] /\ UNCHANGED <<setupcfg, formload, formsaves, rushed>>
        /\ meant' = (IF rushed THEN <<>> ELSE TextsOf(form.shown.rows)) /\ shuffled' \in {"no", "reused"}
    BY <1>4 DEF OpenEditor
  <2>2. form' \in Page /\ form'.shown = form.shown
    BY <1>1, <2>1 DEF Page
  <2>3. meant' \in Seq(SubTexts)
    <3> DEFINE subs == form.shown.rows
    <3>1. subs \in Seq(SubRow) /\ DOMAIN subs = 1..Len(subs) /\ Len(subs) \in Nat
      BY <1>1, DraftsRows
    <3> HIDE DEF subs
    <3>2. \A i \in 1..Len(subs) : subs[i].text \in SubTexts
      <4>1. \A i \in 1..Len(subs) : subs[i] \in SubRow
        BY <3>1
      <4> QED BY <4>1 DEF SubRow
    <3>3. TextsOf(subs) \in [1..Len(subs) -> SubTexts]
      BY <3>1, <3>2 DEF TextsOf
    <3>4. TextsOf(subs) \in Seq(SubTexts)
      BY <3>1, <3>3, SeqDef
    <3>5. <<>> \in Seq(SubTexts)
      OBVIOUS
    <3> QED BY <2>1, <3>4, <3>5 DEF subs
  <2>4. StoredIInv'
    BY <1>1, <2>1, <2>2, <2>3 DEF StoredIInv, FormTypeOK, Page, Sound
  <2>5. SummaryIInv => SummaryIInv'
    BY <2>1, <2>2 DEF SummaryIInv, Agree
  <2> QED BY <2>4, <2>5
<1>5. ASSUME CancelEdit PROVE StoredIInv' /\ (SummaryIInv => SummaryIInv')
  <2>1. /\ form' = [editing |-> FALSE, shown |-> form.shown, draft |-> NoDraft]
        /\ meant' = <<>> /\ shuffled' = "no" /\ UNCHANGED <<setupcfg, formload, formsaves, rushed>>
    BY <1>5 DEF CancelEdit, CloseEditor
  <2>2. form' \in Page /\ form'.shown = form.shown /\ meant' \in Seq(SubTexts)
    BY <1>1, <2>1, RowsBounded DEF Page
  <2>3. StoredIInv'
    BY <1>1, <2>1, <2>2 DEF StoredIInv, FormTypeOK, Page, Sound
  <2>4. SummaryIInv => SummaryIInv'
    BY <2>1, <2>2 DEF SummaryIInv, Agree
  <2> QED BY <2>3, <2>4
<1> QED BY <1>2, <1>3, <1>4, <1>5

\* A draft is sent while no other is out, stored as it is, and then shown.
LEMMA SummarySaves ==
  ASSUME StoredIInv, FormIInv, NEW p \in FormSaves,
         SaveDraft(p) \/ ServeDraft(p) \/ DraftSaved(p) \/ DraftRefused(p)
  PROVE  StoredIInv' /\ (SummaryIInv => SummaryIInv')
<1>1. /\ form \in Page /\ form.shown \in Draft /\ form.draft \in Draft /\ form.editing \in BOOLEAN
      /\ Sound(setupcfg) /\ setupcfg \in Stored /\ formsaves \in [FormSaves -> FormSave]
      /\ meant \in Seq(SubTexts) /\ shuffled \in {"no", "removed", "reused"} /\ rushed \in BOOLEAN
      /\ formload \in {"out", "failed", "done"}
      /\ formsaves[p] \in FormSave /\ formsaves[p].draft \in Draft
  <2>1. formsaves \in [FormSaves -> FormSave]
    BY DEF StoredIInv, FormTypeOK
  <2>2. formsaves[p] \in FormSave
    BY <2>1
  <2> QED BY <2>1, <2>2 DEF StoredIInv, FormTypeOK, FormSave
<1> DEFINE Sets(new) == formsaves' = [formsaves EXCEPT ![p] = new]
<1>2. ASSUME NEW new \in FormSave, Sets(new)
      PROVE  /\ formsaves' \in [FormSaves -> FormSave] /\ formsaves'[p] = new
             /\ \A q \in FormSaves : q # p => formsaves'[q] = formsaves[q]
  BY <1>1, <1>2
<1> HIDE DEF Sets
<1>3. ASSUME SaveDraft(p) PROVE StoredIInv' /\ (SummaryIInv => SummaryIInv')
  <2> DEFINE new == [at |-> "sent", draft |-> form.draft]
  <2>1. Sets(new) /\ new \in FormSave /\ new.at = "sent"
    BY <1>1, <1>3 DEF SaveDraft, FormSave, Sets
  <2> HIDE DEF new
  <2>2. /\ UNCHANGED <<setupcfg, form, formload, meant, shuffled>>
        /\ rushed' = (rushed \/ formload = "out" \/ ~FormQuiet)
    BY <1>3 DEF SaveDraft
  <2>3. rushed' \in BOOLEAN
    BY <1>1, <2>2 DEF FormQuiet
  <2>4. StoredIInv'
    BY <1>1, <1>2, <2>1, <2>2, <2>3 DEF StoredIInv, FormTypeOK, Page, Sound
  <2>5. ASSUME SummaryIInv, ~rushed' PROVE SummaryIInv'
    <3>1. ~rushed /\ \A q \in FormSaves : formsaves[q].at = "idle"
      BY <1>1, <2>2, <2>5 DEF FormQuiet
    <3>2. \A q \in FormSaves : formsaves'[q].at # "idle" => q = p
      BY <1>2, <2>1, <3>1
    <3>3. \A q \in FormSaves : formsaves'[q].at # "ok" /\ formsaves[q].at # "ok"
      BY <1>2, <2>1, <3>1
    <3> QED BY <2>2, <2>5, <3>1, <3>2, <3>3 DEF SummaryIInv, Agree
  <2> QED BY <2>4, <2>5 DEF SummaryIInv
<1>4. ASSUME ServeDraft(p) PROVE StoredIInv' /\ (SummaryIInv => SummaryIInv')
  <2> DEFINE kept == formsaves[p].draft
             ok == [formsaves[p] EXCEPT !.at = "ok"]
             no == [at |-> "refused", draft |-> NoDraft]
  <2>1. ok \in FormSave /\ ok.at = "ok" /\ ok.draft = kept /\ no \in FormSave /\ no.at = "refused"
    BY <1>1, RowsBounded DEF FormSave
  <2>2. /\ formsaves[p].at = "sent" /\ UNCHANGED <<form, formload, meant, shuffled>>
        /\ \/ /\ Accepts(Serialized(kept)) /\ setupcfg' = Serialized(kept)
              /\ \/ Sets(ok) /\ rushed' = rushed
                 \/ Sets(no) /\ rushed' = TRUE
           \/ Sets(no) /\ UNCHANGED <<setupcfg, rushed>>
    <3>1. [formsaves EXCEPT ![p].at = "ok"] = [formsaves EXCEPT ![p] = ok]
      OBVIOUS
    <3> HIDE DEF ok
    <3> QED BY <1>4, <3>1 DEF ServeDraft, Sets
  <2>3. kept \in Draft
    BY <1>1
  <2> HIDE DEF kept, ok, no
  <2>4. Accepts(Serialized(kept)) => Sound(Serialized(kept)) /\ Serialized(kept) \in Stored /\ Agree(kept, Serialized(kept))
    BY <2>3, AcceptedIs, ParsedIs
  <2>5. Sound(setupcfg)' /\ setupcfg' \in Stored
    <3>1. Sound(setupcfg')
      BY <1>1, <2>2, <2>4
    <3> QED BY <1>1, <2>2, <2>4, <3>1 DEF Sound
  <2>6. StoredIInv'
    BY <1>1, <1>2, <2>1, <2>2, <2>5 DEF StoredIInv, FormTypeOK, Page
  <2>7. ASSUME SummaryIInv, ~rushed' PROVE SummaryIInv'
    <3>1. ~rushed /\ \A q \in FormSaves : formsaves[q].at # "idle" => q = p
      BY <1>1, <2>2, <2>7 DEF SummaryIInv
    <3>2. CASE Accepts(Serialized(kept)) /\ setupcfg' = Serialized(kept) /\ Sets(ok)
      <4>1. formsaves'[p] = ok /\ \A q \in FormSaves : q # p => formsaves'[q].at = "idle"
        BY <1>2, <2>1, <3>1, <3>2
      <4>2. Agree(kept, setupcfg')
        BY <2>4, <3>2
      <4>3. \A q \in FormSaves : formsaves'[q].at = "ok" => Agree(formsaves'[q].draft, setupcfg')
        BY <2>1, <4>1, <4>2
      <4> QED BY <2>1, <4>1, <4>3 DEF SummaryIInv, Agree
    <3>3. CASE Sets(no) /\ UNCHANGED <<setupcfg, rushed>>
      <4>1. formsaves'[p].at = "refused" /\ \A q \in FormSaves : q # p => formsaves'[q].at = "idle" /\ formsaves[q].at = "idle"
        BY <1>2, <2>1, <3>1, <3>3
      <4>2. \A q \in FormSaves : formsaves'[q].at # "ok" /\ formsaves[q].at # "ok"
        BY <2>2, <4>1
      <4> QED BY <2>2, <2>7, <3>1, <3>3, <4>1, <4>2 DEF SummaryIInv, Agree
    <3> QED BY <2>2, <2>7, <3>2, <3>3
  <2> QED BY <2>6, <2>7 DEF SummaryIInv
<1>5. ASSUME DraftSaved(p) PROVE StoredIInv' /\ (SummaryIInv => SummaryIInv')
  <2> DEFINE kept == formsaves[p].draft
  <2>1. /\ formsaves[p].at = "ok" /\ form' = [editing |-> FALSE, shown |-> kept, draft |-> NoDraft]
        /\ meant' = <<>> /\ shuffled' = "no" /\ Sets(NoFormSave) /\ UNCHANGED <<setupcfg, rushed>>
        /\ formload' = (IF formload = "failed" THEN "done" ELSE formload)
    BY <1>5 DEF DraftSaved, CloseEditor, Sets
  <2>2. kept \in Draft /\ NoDraft \in Draft /\ NoFormSave \in FormSave /\ NoFormSave.at = "idle"
    BY <1>1, RowsBounded DEF NoFormSave
  <2>3. SummaryIInv /\ ~rushed => Agree(kept, setupcfg) /\ \A q \in FormSaves : q # p => formsaves[q].at = "idle"
    BY <2>1 DEF SummaryIInv
  <2> HIDE DEF kept
  <2>4. form' \in Page /\ form'.shown = kept /\ meant' \in Seq(SubTexts)
    BY <2>1, <2>2 DEF Page
  <2>5. StoredIInv'
    BY <1>1, <1>2, <2>1, <2>2, <2>4 DEF StoredIInv, FormTypeOK, Page, Sound
  <2>6. ASSUME SummaryIInv, ~rushed' PROVE SummaryIInv'
    <3>1. \A q \in FormSaves : formsaves'[q].at = "idle"
      BY <1>2, <2>1, <2>2, <2>3, <2>6
    <3>2. Agree(form'.shown, setupcfg')
      BY <2>1, <2>3, <2>4, <2>6
    <3> QED BY <3>1, <3>2 DEF SummaryIInv, Agree
  <2> QED BY <2>5, <2>6 DEF SummaryIInv
<1>6. ASSUME DraftRefused(p) PROVE StoredIInv' /\ (SummaryIInv => SummaryIInv')
  <2>1. /\ formsaves[p].at = "refused" /\ Sets(NoFormSave)
        /\ UNCHANGED <<setupcfg, form, formload, meant, shuffled, rushed>>
    BY <1>6 DEF DraftRefused, Sets
  <2>2. NoFormSave \in FormSave /\ NoFormSave.at = "idle"
    BY RowsBounded DEF NoFormSave
  <2>3. StoredIInv'
    BY <1>1, <1>2, <2>1, <2>2 DEF StoredIInv, FormTypeOK, Page, Sound
  <2>4. ASSUME SummaryIInv, ~rushed' PROVE SummaryIInv'
    <3>1. ~rushed /\ \A q \in FormSaves : q # p => formsaves[q].at = "idle"
      BY <2>1, <2>4 DEF SummaryIInv
    <3>2. \A q \in FormSaves : formsaves'[q].at = "idle" /\ formsaves[q].at # "ok"
      BY <1>2, <2>1, <2>2, <3>1
    <3> QED BY <2>1, <2>4, <3>1, <3>2 DEF SummaryIInv, Agree
  <2> QED BY <2>3, <2>4 DEF SummaryIInv
<1> QED BY <1>3, <1>4, <1>5, <1>6

\* The inductive invariants of what is stored and what is shown.
THEOREM StoredInductive == FormSpec => []StoredIInv /\ []SummaryIInv
<1>1. FormIInv /\ StoredIInv /\ SummaryIInv /\ [FormNext]_fvars => StoredIInv' /\ SummaryIInv'
  <2> SUFFICES ASSUME FormIInv, StoredIInv, SummaryIInv, [FormNext]_fvars PROVE StoredIInv' /\ SummaryIInv'
    OBVIOUS
  <2>1. CASE UNCHANGED fvars
    <3>1. StoredIInv'
      BY <2>1 DEF fvars, StoredIInv, FormTypeOK, Page, Sound
    <3>2. SummaryIInv'
      BY <2>1 DEF fvars, SummaryIInv, Agree
    <3> QED BY <3>1, <3>2
  <2>2. CASE FormNext
    BY <2>2, SummaryReads, EditsTyped, SummarySaves DEF FormNext
  <2> QED BY <2>1, <2>2
<1> QED BY <1>1, StoredBegins, DraftInductive, PTL DEF FormSpec

\* With no save out the summary shows the subscriptions and the fields that are
\* stored, whatever rows the draft had: a row that would be read back as another
\* one is refused (SettingsClient.tsx:694-739, configgen.go).
THEOREM SummaryIsShown == FormSpec => []SummaryIsStored
<1>1. SummaryIInv => SummaryIsStored
  BY DEF SummaryIInv, SummaryIsStored, FormQuiet, Agree
<1> QED BY <1>1, StoredInductive, PTL

-----------------------------------------------------------------------------
(***************************************************************************)
(* MCWebPages.  A behaviour of the pages is a behaviour of each: the one   *)
(* that is mounted takes its steps and the others stand still, so that what*)
(* is proved of a page holds of them all.                                  *)
(***************************************************************************)
vars == <<mounted, pages>>

THEOREM EachPageRuns ==
  Spec => /\ DialogSpec /\ DelaySpec /\ UpdateSpec /\ PanelSpec /\ EditorSpec /\ MihomoEditorSpec
          /\ UsersSpec /\ RulesSpec /\ SourcesSpec /\ ClientsSpec /\ FormSpec /\ SettingsSpec
          /\ SystemSpec /\ ProcessSpec /\ MihomoRulesSpec
<1>1. Init => /\ DialogInit /\ DelayInit /\ UpdateInit /\ PanelInit /\ EditorInit /\ MihomoEditorInit
              /\ UsersInit /\ RulesInit /\ SourcesInit /\ ClientsInit /\ FormInit /\ SettingsInit
              /\ SystemInit /\ ProcessInit /\ MihomoRulesInit
  BY DEF Init
<1>2. ASSUME [Next]_vars
      PROVE  /\ [DialogNext]_yvars /\ [DelayNext]_dvars /\ [UpdateNext]_uvars /\ [PanelNext]_cvars
             /\ [EditorNext]_evars /\ [MihomoEditorNext]_medvars /\ [UsersNext]_peoplevars
             /\ [RulesNext]_rvars /\ [SourcesNext]_srcvars /\ [ClientsNext]_hvars
             /\ [FormNext]_fvars /\ [SettingsNext]_sfvars /\ [SystemNext]_sysvars
             /\ [ProcessNext]_procvars /\ [MihomoRulesNext]_mrvars
  <2>1. CASE UNCHANGED vars
    BY <2>1 DEF vars, pages
  <2>2. CASE Next
    BY <2>2 DEF Next, On
  <2> QED BY <1>2, <2>1, <2>2
<1> QED BY <1>1, <1>2, PTL
    DEF Spec, vars, DialogSpec, DelaySpec, UpdateSpec, PanelSpec, EditorSpec, MihomoEditorSpec, UsersSpec,
        RulesSpec, SourcesSpec, ClientsSpec, FormSpec, SettingsSpec, SystemSpec, ProcessSpec, MihomoRulesSpec

\* Every page keeps its type, whatever the user does on it: each of the invariants
\* above begins with that of its page.
THEOREM PagesAreTyped == Spec => []PagesTypeOK
<1>1. Spec => /\ []DialogIInv /\ []DelayIInv /\ []WatchIInv /\ []PanelIInv /\ []EditorIInv /\ []BadgeIInv
              /\ []PeopleIInv /\ []HomeIInv /\ []RecordsIInv /\ []MovesIInv /\ []StoredIInv /\ []FormsIInv
              /\ []SystemIInv /\ []ListIInv /\ []EntriesIInv
  BY EachPageRuns, DialogInductive, DelayInductive, WatchInductive, PanelInductive, EditorInductive,
     BadgeInductive, PeopleInductive, HomeInductive, RecordsInductive, MovesInductive, StoredInductive,
     FormsInductive, SystemInductive, ListInductive, EntriesInductive
<1>2. /\ DialogIInv => DialogTypeOK
      /\ DelayIInv => DelayTypeOK
      /\ WatchIInv => UpdateTypeOK
      /\ PanelIInv => PanelTypeOK
      /\ EditorIInv => EditorTypeOK
      /\ BadgeIInv => MihomoEditorTypeOK
      /\ PeopleIInv => UsersTypeOK
      /\ HomeIInv => RulesTypeOK
      /\ RecordsIInv => SourcesTypeOK
      /\ MovesIInv => ClientsTypeOK
      /\ StoredIInv => FormTypeOK
      /\ FormsIInv => SettingsTypeOK
      /\ SystemIInv => SystemTypeOK
      /\ ListIInv => ProcessTypeOK
      /\ EntriesIInv => MihomoRulesTypeOK
  <2>1. /\ DialogIInv => DialogTypeOK
        /\ DelayIInv => DelayTypeOK
        /\ WatchIInv => UpdateTypeOK
        /\ PanelIInv => PanelTypeOK
        /\ EditorIInv => EditorTypeOK
    BY DEF DialogIInv, DelayIInv, WatchIInv, PanelIInv, EditorIInv
  <2>2. /\ BadgeIInv => MihomoEditorTypeOK
        /\ PeopleIInv => UsersTypeOK
        /\ HomeIInv => RulesTypeOK
        /\ RecordsIInv => SourcesTypeOK
        /\ MovesIInv => ClientsTypeOK
    BY DEF BadgeIInv, MarkIInv, PeopleIInv, HomeIInv, RecordsIInv, MovesIInv
  <2>3. /\ StoredIInv => FormTypeOK
        /\ FormsIInv => SettingsTypeOK
        /\ SystemIInv => SystemTypeOK
        /\ ListIInv => ProcessTypeOK
        /\ EntriesIInv => MihomoRulesTypeOK
    BY DEF StoredIInv, FormsIInv, SystemIInv, ListIInv, EntriesIInv
  <2> QED BY <2>1, <2>2, <2>3
<1>3. /\ DialogIInv /\ DelayIInv /\ WatchIInv /\ PanelIInv /\ EditorIInv /\ BadgeIInv
      /\ PeopleIInv /\ HomeIInv /\ RecordsIInv /\ MovesIInv /\ StoredIInv /\ FormsIInv
      /\ SystemIInv /\ ListIInv /\ EntriesIInv
      => PagesTypeOK
  BY <1>2 DEF PagesTypeOK
<1> QED BY <1>1, <1>3, PTL

\* What the pages show and ask for is what the server has and ends up with, on
\* whichever page the user is (app/mosdns/rules/page.tsx:206-441,
\* app/mosdns/system/page.tsx:337-557, app/process/page.tsx:58-99,
\* app/mihomo/rules/page.tsx:222-258).
THEOREM PagesTellTheTruth == Spec => []PagesAgree
<1>1. Spec => []RulesStayHome /\ []SourcesAsAsked /\ []SystemAgrees /\ []ServicesAsListed /\ []EntriesKept
  BY EachPageRuns, RulesAreHome, SourcesAreAsAsked, SystemIsShown, ListTellsTheTruth, NoEntryIsLost
<1>2. RulesStayHome /\ SourcesAsAsked /\ SystemAgrees /\ ServicesAsListed /\ EntriesKept => PagesAgree
  BY DEF PagesAgree
<1> QED BY <1>1, <1>2, PTL

\* The other properties of the pages hold of them all as well: the update of msf
\* is watched to its end, the cards of the components take turns, no text strays
\* to another file, the badge of the default configuration is true, the last
\* word on a user stands, a client that was not moved stays picked, an edited
\* subscription is the only one that changes, each name a delay test lists is
\* measured once and the delays shown are right, and no removal is sent that
\* nobody asked for.
THEOREM EachPageKeepsItsWord ==
  Spec => /\ [](WatchIsAlive /\ CardsTakeTurns /\ OptionsAgree /\ ShownIsStored)
          /\ [](FilesKeepTheirText /\ BadgeIsTrue /\ LastWordStands /\ UnmovedStayPicked)
          /\ [](RowsEditAlone /\ EachMeasuredOnce /\ BestDelayFound)
          /\ RemovalsAreAsked
<1>1. Spec => /\ []WatchIsAlive /\ []CardsTakeTurns /\ []PanelIInv /\ []FormsIInv
              /\ []FilesKeepTheirText /\ []BadgeIsTrue /\ []LastWordStands /\ []UnmovedStayPicked
              /\ []RowsEditAlone /\ []EachMeasuredOnce /\ []BestDelayFound /\ RemovalsAreAsked
  BY EachPageRuns, WatchNeverLost, CardsKeepTurns, PanelInductive, FormsInductive, NoTextStrays, BadgeTellsTheTruth,
     LastWordIsKept, NoPickIsLost, NoRemovalUnasked, EachRowAlone, EachTargetOnce, BestDelay
<1>2. PanelIInv => OptionsAgree
  BY DEF PanelIInv
<1>3. FormsIInv => ShownIsStored
  BY DEF FormsIInv
<1> QED BY <1>1, <1>2, <1>3, PTL

\* What the settings page shows once its calls are over is what the server keeps,
\* on each of its tabs (SettingsClient.tsx:588-626, 1142-1172, 1714-1729).
THEOREM SettingsTellTheTruth == Spec => []SettingsAgree
<1>1. Spec => []PanelIInv /\ []SummaryIsStored /\ []FormsIInv
  BY EachPageRuns, PanelInductive, SummaryIsShown, FormsInductive
<1>2. PanelIInv /\ SummaryIsStored /\ FormsIInv => SettingsAgree
  BY DEF PanelIInv, FormsIInv, SettingsAgree
<1> QED BY <1>1, <1>2, PTL
===============================================================================
