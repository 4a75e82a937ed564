----------------------------- MODULE RuleSources -----------------------------
(***************************************************************************)
(* The online rule sources of MosDNS: the two views of them on the rules   *)
(* page (web/src/app/mosdns/rules/page.tsx, components/rules/RuleViews.tsx,*)
(* AddRuleSetModal) and the handlers of internal/server/                   *)
(* mosdns_rule_sources.go. Nothing there is locked: a request reads the    *)
(* record it is about, an update then downloads for as long as that takes, *)
(* and at the end the whole list is read, changed and written back. Of a   *)
(* record is_enabled is kept; the sources are those of one file, and an    *)
(* edit does not give one the name of another.                             *)
(***************************************************************************)
EXTENDS Naturals

CONSTANTS
  Sources,   \* rule sources
  SourceOps  \* requests in flight

VARIABLES
  sources,   \* the files of the server: the sources there are, and which are on
  srows,     \* ruleSets: the list as last read
  sdialog,   \* ruleSetModal is open
  ops,       \* requests in flight
  sasked,    \* history: what the accepted requests asked for
  mixedup    \* history: the list was changed, or being written, when another
             \* request had read from it what it was to write back

srcvars == <<sources, srows, sdialog, ops, sasked, mixedup>>

Table == [has : SUBSET Sources, on : SUBSET Sources]
NoSources == [has |-> {}, on |-> {}]
\* left: what the request is about, of an update what it has yet to download;
\* snap: which of them were on when it read their records; item: the one it
\* is about to write into list, the list as it was read.
SourceOp == [at : {"idle", "sent", "run", "write", "back", "read"},
             what : {"create", "toggle", "edit", "delete", "update"}, to : BOOLEAN,
             left : SUBSET Sources, snap : SUBSET Sources, item : SUBSET Sources, list : Table]
NoSourceOp == [at |-> "idle", what |-> "edit", to |-> FALSE,
               left |-> {}, snap |-> {}, item |-> {}, list |-> NoSources]

SourcesTypeOK ==
  /\ sources \in Table /\ srows \in Table /\ sasked \in Table
  /\ sdialog \in BOOLEAN /\ ops \in [SourceOps -> SourceOp] /\ mixedup \in BOOLEAN

SourcesInit ==
  /\ sources \in Table /\ sources.on \subseteq sources.has
  /\ srows = sources /\ sasked = sources
  /\ sdialog = FALSE /\ ops = [o \in SourceOps |-> NoSourceOp] /\ mixedup = FALSE

-----------------------------------------------------------------------------
(* The page.                                                               *)

FreeOp(o) == ops[o].at = "idle" /\ o = CHOOSE x \in SourceOps : ops[x].at = "idle"
Requests(o, what, left, to) ==
  /\ FreeOp(o)
  /\ ops' = [ops EXCEPT ![o] = [NoSourceOp EXCEPT !.at = "sent", !.what = what,
                                                  !.left = left, !.to = to]]
  /\ UNCHANGED <<sources, srows, sasked, mixedup>>

\* addRuleSet and the dialog, which sends only a name with a URL and a type.
SourceDialog ==
  /\ sdialog' = ~sdialog
  /\ UNCHANGED <<sources, srows, ops, sasked, mixedup>>

CreateSource(o) ==
  /\ sdialog /\ UNCHANGED sdialog
  /\ \E s \in Sources : Requests(o, "create", {s}, TRUE)

\* The switch, the pencil, the bin and the arrow of a row; the switch sends
\* the opposite of what the row shows.
ToggleSource(o) ==
  ~sdialog /\ UNCHANGED sdialog /\ \E s \in srows.has : Requests(o, "toggle", {s}, s \notin srows.on)
EditSource(o) ==
  ~sdialog /\ UNCHANGED sdialog /\ \E s \in srows.has : Requests(o, "edit", {s}, FALSE)
DeleteSource(o) ==
  ~sdialog /\ UNCHANGED sdialog /\ \E s \in srows.has : Requests(o, "delete", {s}, FALSE)
UpdateSource(o) ==
  ~sdialog /\ UNCHANGED sdialog /\ \E s \in srows.has : Requests(o, "update", {s}, FALSE)
\* The button above the list: every source that is on.
UpdateSources(o) == ~sdialog /\ UNCHANGED sdialog /\ Requests(o, "update", Sources, TRUE)

-----------------------------------------------------------------------------
(* The server.                                                             *)

SourceMoves(o, at) == ops' = [ops EXCEPT ![o] = [NoSourceOp EXCEPT !.at = at, !.what = ops[o].what]]

\* A list that is just being written reads as an empty one.
ReadSources == {sources} \cup {NoSources : o \in {x \in SourceOps : ops[x].at = "write"}}

\* Not found, a name that exists, an error: nothing is stored.
SourceRefused(o) ==
  /\ ops[o].at \in {"sent", "run", "write"} /\ (ops[o].what = "update" => ops[o].at = "sent")
  /\ ops' = [ops EXCEPT ![o] = NoSourceOp]
  /\ UNCHANGED <<sources, srows, sdialog, sasked, mixedup>>

\* findMosDNSRuleSource, and for an update of all the records that are on.
RecordsRead(o) ==
  /\ ops[o].at = "sent"
  /\ \E t \in ReadSources :
       LET left == IF ops[o].what = "create" THEN ops[o].left
                   ELSE IF ops[o].what = "update" /\ ops[o].to THEN t.on ELSE ops[o].left \cap t.has
       IN /\ ops[o].what = "update" \/ left # {}
          /\ ops' = [ops EXCEPT ![o] = [@ EXCEPT !.at = "run", !.left = left, !.snap = t.on \cap left]]
  /\ UNCHANGED <<sources, srows, sdialog, sasked, mixedup>>

\* The list is read, by an update when a download ended.
SourceListRead(o) ==
  /\ ops[o].at = "run"
  /\ \E s \in ops[o].left, t \in ReadSources :
       /\ ops[o].what = "create" => s \notin t.has
       /\ ops' = [ops EXCEPT ![o] = [@ EXCEPT !.at = "write", !.item = {s}, !.list = t]]
  /\ mixedup' = (mixedup \/ \E x \in SourceOps : ops[x].at = "write")
  /\ UNCHANGED <<sources, srows, sdialog, sasked>>

\* replaceMosDNSRuleSource puts back a record that is gone.
PutSource(t, s, on) == [has |-> t.has \cup {s}, on |-> IF on THEN t.on \cup {s} ELSE t.on \ {s}]
DropSource(t, s) == [has |-> t.has \ {s}, on |-> t.on \ {s}]
\* The list that a request writes, and what it was asked to do to the list.
WrittenList(c, s) ==
  CASE c.what = "create" -> PutSource(c.list, s, TRUE)
    [] c.what = "toggle" -> PutSource(c.list, s, c.to)
    [] c.what = "delete" -> DropSource(c.list, s)
    [] OTHER -> PutSource(c.list, s, s \in c.snap)
WantedList(c, t, s) ==
  CASE c.what = "create" -> PutSource(t, s, TRUE)
    [] c.what = "toggle" /\ s \in t.has -> PutSource(t, s, c.to)
    [] c.what = "delete" -> DropSource(t, s)
    [] OTHER -> t

\* What a request is to write back it has read: the list, or the record of s.
HoldsSource(c, s) ==
  c.at = "write" \/ (c.at = "run" /\ s \in c.left /\ c.what \in {"toggle", "edit", "update"})

\* An update goes on with the next source.
SourceNext(o, s) ==
  IF ops[o].what = "update"
  THEN ops' = [ops EXCEPT ![o] = [ops[o] EXCEPT !.at = "run", !.left = ops[o].left \ {s},
                                 !.snap = ops[o].snap \ {s}, !.item = {}, !.list = NoSources]]
  ELSE SourceMoves(o, "back")

SourceListWritten(o) ==
  /\ ops[o].at = "write"
  /\ \E s \in ops[o].item :
       /\ sources' = WrittenList(ops[o], s)
       /\ sasked' = WantedList(ops[o], sasked, s)
       /\ mixedup' = (mixedup \/ (sources' # sources /\ \E x \in SourceOps \ {o} : HoldsSource(ops[x], s)))
       /\ SourceNext(o, s)
  /\ UNCHANGED <<srows, sdialog>>

\* A download that fails, or a list that can not be read or written: the next.
SourceSkipped(o) ==
  /\ ops[o].what = "update"
  /\ \E s \in ops[o].left : (ops[o].at = "run" \/ (ops[o].at = "write" /\ s \in ops[o].item)) /\ SourceNext(o, s)
  /\ UNCHANGED <<sources, srows, sdialog, sasked, mixedup>>

UpdateEnds(o) ==
  /\ ops[o].at = "run" /\ ops[o].what = "update" /\ ops[o].left = {}
  /\ SourceMoves(o, "back")
  /\ UNCHANGED <<sources, srows, sdialog, sasked, mixedup>>

-----------------------------------------------------------------------------
(* The answers: a new source closes the dialog, and the list is read.      *)

SourceDone(o) ==
  /\ ops[o].at = "back"
  /\ sdialog' = (sdialog /\ ops[o].what # "create")
  /\ ops' = [ops EXCEPT ![o] = [NoSourceOp EXCEPT !.at = "read"]]
  /\ UNCHANGED <<sources, srows, sasked, mixedup>>

SourcesShown(o) ==
  /\ ops[o].at = "read"
  /\ srows' \in ReadSources \cup {srows}
  /\ ops' = [ops EXCEPT ![o] = NoSourceOp]
  /\ UNCHANGED <<sources, sdialog, sasked, mixedup>>

-----------------------------------------------------------------------------

SourcesNext ==
  \/ SourceDialog
  \/ \E o \in SourceOps :
       \/ CreateSource(o) \/ ToggleSource(o) \/ EditSource(o) \/ DeleteSource(o)
       \/ UpdateSource(o) \/ UpdateSources(o)
       \/ SourceRefused(o) \/ RecordsRead(o) \/ SourceListRead(o) \/ SourceListWritten(o) \/ SourceSkipped(o)
       \/ UpdateEnds(o)
       \/ SourceDone(o) \/ SourcesShown(o)

SourcesSpec == SourcesInit /\ [][SourcesNext]_srcvars

-----------------------------------------------------------------------------
(* Properties.                                                             *)

\* The sources are those, and are on or off, as was asked for: an update, of one
\* or of all, however long it downloads and whether it fails, an edit or a switch
\* brings nothing back and switches nothing back, as long as the list is not
\* changed, or being written, between what it reads and what it writes
\* (mosdns_rule_sources.go:58-267, 396-413).
SourcesAsAsked == ~mixedup => sources = sasked
=============================================================================
