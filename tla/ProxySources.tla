---------------------------- MODULE ProxySources -----------------------------
(***************************************************************************)
(* The two dialogs of the proxies page that edit Mihomo's config.yaml      *)
(* (web/src/app/mihomo/proxies/page.tsx): the proxy providers, saved with  *)
(* one call per provider, all at once, and the proxy groups, saved as one  *)
(* list; with the handlers that read the whole file and write it back      *)
(* (internal/server/mihomo_panels.go:864-930, handlers_mihomo.go:543-557). *)
(*                                                                         *)
(* Nothing locks the file, neither dialog is busy while it loads or saves, *)
(* and a reply to a load replaces what the user did meanwhile.  One dialog *)
(* is modelled at a time: each covers the page.                            *)
(***************************************************************************)
EXTENDS Naturals, Functions

CONSTANTS
  Entries,   \* names of providers, or of groups
  Savers     \* slots for calls that write the file

VARIABLES
  section,  \* the list the dialog is about
  yaml,     \* config.yaml: the entries of that list
  dialog,   \* the dialog
  asked,    \* the snapshot a load in flight brings, if there is one
  write,    \* calls that write the file
  batch,    \* the save of the providers
  taken     \* history: what the user removed since the list was read

yvars == <<section, yaml, dialog, asked, write, batch, taken>>

\* rows: sources or groupDrafts; loaded: loadedSourceNames, and for the groups
\* (history) the names of the last reply.
Dialog == [open : BOOLEAN, rows : SUBSET Entries, loaded : SUBSET Entries]

\* A call puts or deletes one provider, or sets all groups.
Write == [at : {"idle", "sent", "read", "written"}, op : {"put", "delete", "set"},
          names : SUBSET Entries, base : SUBSET Entries]
NoWrite == [at |-> "idle", op |-> "put", names |-> {}, base |-> {}]
NotAsked == {"none"}

DialogTypeOK ==
  /\ section \in {"providers", "groups"}
  /\ yaml \subseteq Entries
  /\ dialog \in Dialog
  /\ asked = NotAsked \/ asked \subseteq Entries
  /\ write \in [Savers -> Write]
  /\ batch \in {"none", "running", "failed"}
  /\ taken \subseteq Entries

DialogInit ==
  /\ section \in {"providers", "groups"}
  /\ yaml \in SUBSET Entries
  /\ dialog = [open |-> FALSE, rows |-> {}, loaded |-> {}]
  /\ asked = NotAsked
  /\ write = [w \in Savers |-> NoWrite]
  /\ batch = "none"
  /\ taken = {}

-----------------------------------------------------------------------------
(* The dialog.                                                             *)

\* The effect loads the list each time the dialog opens; what it held stays.
\* Bound: one load is in flight.
OpenDialog ==
  /\ ~dialog.open /\ asked = NotAsked
  /\ dialog' = [dialog EXCEPT !.open = TRUE]
  /\ asked' = yaml
  /\ UNCHANGED <<section, yaml, write, batch, taken>>

CloseDialog ==
  /\ dialog.open
  /\ dialog' = [dialog EXCEPT !.open = FALSE]
  /\ UNCHANGED <<section, yaml, asked, write, batch, taken>>

\* Mutant: a failed load empties the rows.
EmptiedRows(d) == [d EXCEPT !.rows = {}]
\* A failed load changes nothing.
AfterFailure(d) == d

\* The reply replaces the rows, the dialog being open or not.
ListArrives ==
  /\ asked # NotAsked /\ asked' = NotAsked
  /\ \/ /\ dialog' = [dialog EXCEPT !.rows = asked, !.loaded = asked]
        /\ taken' = {}
     \/ dialog' = AfterFailure(dialog) /\ UNCHANGED taken
  /\ UNCHANGED <<section, yaml, write, batch>>

\* A row is added and filled in, or removed.
AddRow(n) ==
  /\ dialog.open /\ n \notin dialog.rows
  /\ dialog' = [dialog EXCEPT !.rows = @ \cup {n}]
  /\ taken' = taken \ {n}
  /\ UNCHANGED <<section, yaml, asked, write, batch>>

RemoveRow(n) ==
  /\ dialog.open /\ n \in dialog.rows
  /\ dialog' = [dialog EXCEPT !.rows = @ \ {n}]
  /\ taken' = taken \cup {n}
  /\ UNCHANGED <<section, yaml, asked, write, batch>>

-----------------------------------------------------------------------------
(* Saving.                                                                 *)

Spare == { w \in Savers : write[w].at = "idle" }

Deleted(d) == d.loaded \ d.rows

Sends(op, names) == [NoWrite EXCEPT !.at = "sent", !.op = op, !.names = names]
SourceCalls(c) == { w \in Savers : c[w].at # "idle" /\ c[w].op # "set" }

\* saveSources: Promise.all of one PUT per row and one DELETE per name that was
\* loaded and is gone.  A row with an empty field stops it, which changes nothing.
\* Bound: one save of the providers at a time.
SaveSources ==
  /\ section = "providers" /\ dialog.open /\ batch = "none"
  /\ LET calls == { Sends("put", {n}) : n \in dialog.rows }
                    \cup { Sends("delete", {n}) : n \in Deleted(dialog) }
         slots == Injection(calls, Spare)
         to == CHOOSE i \in slots : TRUE
     IN /\ slots # {}
        /\ write' = [w \in Savers |-> IF \E c \in calls : to[c] = w
                                      THEN CHOOSE c \in calls : to[c] = w
                                      ELSE write[w]]
  /\ batch' = "running"
  /\ UNCHANGED <<section, yaml, dialog, asked, taken>>

\* saveGroupDrafts: rows without a name are left out.
SaveGroups(w) ==
  /\ section = "groups" /\ dialog.open /\ w \in Spare
  /\ write' = [write EXCEPT ![w] = Sends("set", dialog.rows)]
  /\ UNCHANGED <<section, yaml, dialog, asked, batch, taken>>

\* mihomoConfigMap: the file is read.
ReadYaml(w) ==
  /\ write[w].at = "sent"
  /\ write' = [write EXCEPT ![w].at = "read", ![w].base = yaml]
  /\ UNCHANGED <<section, yaml, dialog, asked, batch, taken>>

Changed(c) ==
  CASE c.op = "put"    -> c.base \cup c.names
    [] c.op = "delete" -> c.base \ c.names
    [] OTHER           -> c.names

\* A save that was rejected does not wait for its other calls.
StillRuns(c, b) == IF b = "failed" /\ SourceCalls(c) = {} THEN "none" ELSE b

\* writeMihomoConfigMap: what was read is written, with the change.
WriteYaml(w) ==
  /\ write[w].at = "read"
  /\ yaml' = Changed(write[w])
  /\ write' = [write EXCEPT ![w] =
                 IF write[w].op # "set" /\ batch = "failed" THEN NoWrite
                 ELSE [@ EXCEPT !.at = "written", !.base = {}]]
  /\ batch' = StillRuns(write', batch)
  /\ UNCHANGED <<section, dialog, asked, taken>>

\* The call, or its answer, is lost: the dialog stays.
CallFails(w) ==
  /\ write[w].at \in {"sent", "written"}
  /\ IF write[w].op = "set"
     THEN write' = [write EXCEPT ![w] = NoWrite] /\ UNCHANGED batch
     ELSE /\ write' = [x \in Savers |->
                         IF x = w \/ (x \in SourceCalls(write) /\ write[x].at = "written")
                         THEN NoWrite ELSE write[x]]
          /\ batch' = StillRuns(write', "failed")
  /\ UNCHANGED <<section, yaml, dialog, asked, taken>>

AllWritten ==
  batch = "running" /\ \A w \in SourceCalls(write) : write[w].at = "written"

\* "Saved", and the dialog closes.
SourcesSaved ==
  /\ AllWritten
  /\ write' = [w \in Savers |-> IF w \in SourceCalls(write) THEN NoWrite ELSE write[w]]
  /\ batch' = "none"
  /\ dialog' = [dialog EXCEPT !.open = FALSE]
  /\ UNCHANGED <<section, yaml, asked, taken>>

GroupsSaved(w) ==
  /\ write[w].at = "written" /\ write[w].op = "set"
  /\ write' = [write EXCEPT ![w] = NoWrite]
  /\ dialog' = [dialog EXCEPT !.open = FALSE]
  /\ UNCHANGED <<section, yaml, asked, batch, taken>>

-----------------------------------------------------------------------------

WriterStep(w) ==
  SaveGroups(w) \/ ReadYaml(w) \/ WriteYaml(w) \/ CallFails(w) \/ GroupsSaved(w)

DialogNext ==
  \/ OpenDialog \/ CloseDialog \/ ListArrives
  \/ \E n \in Entries : AddRow(n) \/ RemoveRow(n)
  \/ SaveSources \/ SourcesSaved
  \/ \E w \in Savers : WriterStep(w)

DialogSpec == DialogInit /\ [][DialogNext]_yvars

-----------------------------------------------------------------------------
(* Properties.                                                             *)

\* A save takes nothing away that the dialog read and the user did not remove,
\* whatever replies arrived late, failed or replaced the rows: neither a
\* provider by a DELETE nor a group by leaving it out (page.tsx:884-902,
\* 1200-1232).
RemovalsAreAsked ==
  [][\A w \in Savers :
       write[w].at = "idle" /\ write'[w].at = "sent" =>
         /\ write'[w].op = "delete" => write'[w].names \subseteq taken
         /\ write'[w].op = "set" => dialog.loaded \ write'[w].names \subseteq taken]_yvars
=============================================================================
