---------------------------- MODULE MCConfigFiles ----------------------------
(***************************************************************************)
(* Instances of ConfigFiles for TLC, two in one run: requests that overlap *)
(* on one file, or one request at a time on several files.                 *)
(***************************************************************************)
EXTENDS ConfigFiles, TLC

VARIABLES
  alone,  \* the slot that is used, or Absent when all of them are
  spare   \* the version that is not used, or Absent when all of them are

Symmetry == Permutations(Reqs) \cup Permutations(Contents)

Unused == { p \in Paths : \A r \in Reqs : Path(r) # p }

\* The path of an idle slot means nothing: one stands for all.
ModeInit ==
  /\ Init /\ \A r \in Reqs : Path(r) = CHOOSE p \in Paths : TRUE
  /\ \/ alone = Absent /\ spare = Absent /\ \A p \in Unused : file[p] = Absent
     \/ alone \in Reqs /\ spare \in Contents /\ \A p \in Paths : file[p] # spare

\* Requests overlap: they name the same file, and no other one changes.
OneFile ==
  /\ \A r \in Reqs : req'[r].path = req[r].path
  /\ \A p \in Unused : file'[p] = file[p]

\* One at a time: two versions show what copies and renames can lose.
TwoVersions == req'[alone].content # spare

ModeNext ==
  /\ \/ \E r \in IF alone = Absent THEN Reqs ELSE {alone} : Handler(r)
     \/ \E p, q \in Paths : Rename(p, q)
     \/ \E p \in Paths : RemoveInDirectory(p)
     \/ Crash
  /\ IF alone = Absent THEN OneFile ELSE TwoVersions
  /\ UNCHANGED <<alone, spare>>

ModeSpec == ModeInit /\ [][ModeNext]_<<vars, alone, spare>>
=============================================================================
