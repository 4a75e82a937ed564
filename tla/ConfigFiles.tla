----------------------------- MODULE ConfigFiles -----------------------------
(***************************************************************************)
(* The configuration files under configs/ and their history                *)
(* (internal/server/handlers_config.go, management_helpers.go, paths.go).  *)
(*                                                                         *)
(* A handler that changes a file reads it, inserts what it read into       *)
(* config_histories and then writes, with nothing that keeps other         *)
(* requests out in between.  os.WriteFile truncates the file before it     *)
(* fills it.  Rename and the removal of a directory keep no history.       *)
(* Restoring a zip archive, services and comments are left out.            *)
(***************************************************************************)
EXTENDS Naturals

CONSTANTS
  Paths,           \* files below configs/
  Contents,        \* versions
  Absent,          \* no such file
  Torn,            \* a file that was truncated and not filled
  Reqs,            \* slots for requests in flight
  Ops,             \* what clients ask for
  HistoryMayFail   \* whether the insert into config_histories can fail

AllOps == {"save", "saveText", "rollback", "delete", "copy", "rename", "removeAll"}

ASSUME ValuesAssumption == Absent \notin Contents /\ Torn \notin Contents /\ Absent # Torn
ASSUME OpsAssumption == Ops \subseteq AllOps
ASSUME HistoryAssumption == HistoryMayFail \in BOOLEAN

VARIABLES
  file,      \* the files
  hist,      \* rows of config_histories: a path and a saved version
  req,       \* requests in flight
  exposed,   \* history: paths that lost a version in one of the ways named below
  seen       \* history: every value a file had

vars == <<file, hist, req, exposed, seen>>

Values == Contents \cup {Absent, Torn}
Worthless == {Absent, Torn}
Steps == {"idle", "read", "backup", "write", "fill"}

ReqType == [pc : Steps, op : AllOps, path : Paths, src : Paths,
            content : Values, old : Values]

Idle(p) == [pc |-> "idle", op |-> "save", path |-> p, src |-> p,
            content |-> Absent, old |-> Absent]
Free(r) == req[r].pc = "idle"

TypeOK ==
  /\ file \in [Paths -> Values]
  /\ hist \in SUBSET (Paths \X Values)
  /\ req \in [Reqs -> ReqType]
  /\ exposed \in SUBSET Paths
  /\ seen \in [Paths -> SUBSET Values]

Init ==
  /\ file \in [Paths -> Contents \cup {Absent}]
  /\ hist = {}
  /\ \E p \in Paths : req = [r \in Reqs |-> Idle(p)]
  /\ exposed = {}
  /\ seen = [p \in Paths |-> {file[p]}]

-----------------------------------------------------------------------------
Path(r) == req[r].path

Goto(r, pc, old) ==
  req' = [req EXCEPT ![r] = [pc |-> pc, op |-> req[r].op, path |-> Path(r),
                             src |-> req[r].src, content |-> req[r].content,
                             old |-> old]]

Answer(r) == req' = [req EXCEPT ![r] = Idle(Path(r))]
Quiet == UNCHANGED <<file, hist, exposed, seen>>

\* The file system changes; the paths in void lose the promise.
Put(f, void) ==
  /\ file' = f
  /\ seen' = [p \in Paths |-> seen[p] \cup {f[p]}]
  /\ exposed' = exposed \cup void
  /\ UNCHANGED hist

Set(p, v) == [file EXCEPT ![p] = v]

(***************************************************************************)
(* A request.  "save" is saveConfigFileWithHistory (editor, upload,        *)
(* service configuration), "saveText" is writeTextFile (generated and      *)
(* Mihomo or MosDNS files), a rollback saves what a history row holds.     *)
(***************************************************************************)
Submit(r, op, p, src, c) ==
  /\ Free(r) /\ op \in Ops \ {"rename", "removeAll"}
  /\ CASE op = "rollback" -> <<p, c>> \in hist
       [] op \in {"delete", "copy"} -> c = Absent
       [] OTHER -> c \in Contents
  /\ IF op = "copy" THEN src # p /\ file[src] # Absent ELSE src = p
  /\ req' = [req EXCEPT ![r] = [pc |-> "read", op |-> op, path |-> p,
                                src |-> src, content |-> c, old |-> Absent]]
  /\ Quiet

\* A file that cannot be read is written without a backup.
ReadOld(r) ==
  /\ req[r].pc = "read"
  /\ Goto(r, IF file[Path(r)] = Absent THEN "write" ELSE "backup", file[Path(r)])
  /\ Quiet

\* Mutant: the new content is saved.
BackupOfNew(r) ==
  /\ req[r].pc = "backup"
  /\ hist' = hist \cup {<<Path(r), req[r].content>>}
  /\ Goto(r, "write", req[r].old)
  /\ UNCHANGED <<file, exposed, seen>>
\* Mutant: the backup of a copy is filed under its source.
BackupUnderSource(r) ==
  /\ req[r].pc = "backup"
  /\ hist' = hist \cup {<<req[r].src, req[r].old>>}
  /\ Goto(r, "write", req[r].old)
  /\ UNCHANGED <<file, exposed, seen>>
Backup(r) ==
  /\ req[r].pc = "backup"
  /\ hist' = hist \cup {<<Path(r), req[r].old>>}
  /\ Goto(r, "write", req[r].old)
  /\ UNCHANGED <<file, exposed, seen>>

\* saveConfigFileWithHistory gives up when the insert fails ...
\* Mutant: the error is dropped.
BackupRefusedGoesOn(r) ==
  /\ HistoryMayFail
  /\ req[r].pc = "backup" /\ req[r].op \in {"save", "rollback"}
  /\ Goto(r, "write", req[r].old)
  /\ Quiet
BackupRefused(r) ==
  /\ HistoryMayFail
  /\ req[r].pc = "backup" /\ req[r].op \in {"save", "rollback"}
  /\ Answer(r)
  /\ Quiet

\* ... writeTextFile and createConfigHistory do not look at it.
BackupIgnored(r) ==
  /\ HistoryMayFail
  /\ req[r].pc = "backup" /\ req[r].op \notin {"save", "rollback"}
  /\ Goto(r, "write", req[r].old)
  /\ Put(file, {Path(r)})

\* What a write of r loses unless r saw it: a version another request wrote.
Overwritten(r) ==
  IF file[Path(r)] \in {req[r].old} \cup Worthless THEN {} ELSE {Path(r)}

Truncate(r) ==
  /\ req[r].pc = "write" /\ req[r].op \in {"save", "saveText", "rollback"}
  /\ Put(Set(Path(r), Torn), Overwritten(r))
  /\ Goto(r, "fill", req[r].old)

\* Between its two halves a write meets no version but one it did not read.
Fill(r) ==
  /\ req[r].pc = "fill"
  /\ Put(Set(Path(r), req[r].content),
         IF file[Path(r)] \in Worthless THEN {} ELSE {Path(r)})
  /\ Answer(r)

\* The disk is full or the directory is gone, before or after the truncation.
WriteFails(r) ==
  /\ req[r].pc \in {"write", "fill"}
  /\ Answer(r)
  /\ Quiet

Remove(r) ==
  /\ req[r].pc = "write" /\ req[r].op = "delete"
  /\ Put(Set(Path(r), Absent), Overwritten(r))
  /\ Answer(r)

\* copyFile renames a temporary file over the target; it copies what the
\* source holds at that moment.
CopyOver(r) ==
  /\ req[r].pc = "write" /\ req[r].op = "copy"
  /\ file[req[r].src] # Absent
  /\ Put(Set(Path(r), file[req[r].src]), Overwritten(r))
  /\ Answer(r)

(***************************************************************************)
(* Changes in one step, without a history: a rename over the target, and   *)
(* each file a delete request for their directory removes.                 *)
(***************************************************************************)
Rename(p, q) ==
  /\ "rename" \in Ops
  /\ p # q /\ file[p] # Absent
  /\ Put([file EXCEPT ![q] = file[p], ![p] = Absent], {p, q})
  /\ UNCHANGED req

RemoveInDirectory(p) ==
  /\ "removeAll" \in Ops
  /\ file[p] # Absent
  /\ Put(Set(p, Absent), {p})
  /\ UNCHANGED req

\* The msf process ends; a file in the middle of a write stays torn.
Crash ==
  /\ \E r \in Reqs : ~ Free(r)
  /\ req' = [r \in Reqs |-> Idle(Path(r))]
  /\ Quiet

Handler(r) ==
  \/ \E op \in Ops, p, src \in Paths, c \in Values : Submit(r, op, p, src, c)
  \/ ReadOld(r) \/ Backup(r) \/ BackupRefused(r) \/ BackupIgnored(r)
  \/ Truncate(r) \/ Fill(r) \/ WriteFails(r) \/ Remove(r) \/ CopyOver(r)

Next ==
  \/ \E r \in Reqs : Handler(r)
  \/ \E p, q \in Paths : Rename(p, q)
  \/ \E p \in Paths : RemoveInDirectory(p)
  \/ Crash

Spec == Init /\ [][Next]_vars

-----------------------------------------------------------------------------
(* Properties.                                                             *)

Store == INSTANCE VersionStore WITH
  current <- file,
  kept <- [p \in Paths |-> { v \in Values : <<p, v>> \in hist }]

\* The files and their history are a store that never loses a version, but for
\* a rename, a removed directory, an ignored insert error and a write over what
\* another request wrote since the backup (handlers_config.go, paths.go:51-64).
StoreSpec == Store!Spec

\* Whatever a file held is still in it or in its history, with the exceptions
\* of StoreSpec, also after a crash in the middle of a write.
VersionsKept == Store!NothingLost

\* What a request that is about to write has read is in the history.
BackedUp ==
  \A r \in Reqs :
    req[r].pc = "write" =>
      \/ req[r].old = Absent
      \/ <<Path(r), req[r].old>> \in hist
      \/ Path(r) \in exposed

SeenCurrent == \A p \in Paths : file[p] \in seen[p]

IInv == TypeOK /\ BackedUp /\ SeenCurrent
=============================================================================
