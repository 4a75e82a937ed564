-------------------------- MODULE ConfigFilesProofs --------------------------
(***************************************************************************)
(* ConfigFiles implements VersionStore for any files, versions and number  *)
(* of concurrent requests: a request that is about to write has put what   *)
(* it read into the history (BackedUp), so the only versions a write can   *)
(* lose are those exposed names.                                           *)
(***************************************************************************)
EXTENDS ConfigFiles, TLAPS

\* What the refinement mapping hands to the store.
Kept == [p \in Paths |-> { v \in Values : <<p, v>> \in hist }]

\* The shape of a request after one of its steps.
LEMMA ReqStep ==
  ASSUME req \in [Reqs -> ReqType], NEW r \in Reqs, NEW q \in ReqType,
         req' = [req EXCEPT ![r] = q]
  PROVE  /\ req' \in [Reqs -> ReqType]
         /\ req'[r] = q
         /\ \A s \in Reqs : s # r => req'[s] = req[s]
OBVIOUS

\* A free slot is a well-formed request.
LEMMA IdleType == \A p \in Paths : Idle(p) \in ReqType /\ Idle(p).pc = "idle"
BY DEF Idle, ReqType, Steps, AllOps, Values

\* A request goes on as a well-formed request.
LEMMA GotoType ==
  ASSUME IInv, NEW r \in Reqs, NEW pc \in Steps, NEW old \in Values, Goto(r, pc, old)
  PROVE  /\ req' \in [Reqs -> ReqType]
         /\ req'[r].pc = pc /\ req'[r].old = old /\ req'[r].path = Path(r)
         /\ \A s \in Reqs : s # r => req'[s] = req[s]
<1> DEFINE q == [pc |-> pc, op |-> req[r].op, path |-> Path(r),
                 src |-> req[r].src, content |-> req[r].content, old |-> old]
<1>1. req \in [Reqs -> ReqType] /\ q \in ReqType
  BY DEF IInv, TypeOK, ReqType, Path
<1>2. q.pc = pc /\ q.old = old /\ q.path = Path(r) /\ req' = [req EXCEPT ![r] = q]
  BY DEF Goto
<1> HIDE DEF q
<1> QED
  BY <1>1, <1>2, ReqStep

\* An answered request leaves a free slot.
LEMMA AnswerType ==
  ASSUME IInv, NEW r \in Reqs, Answer(r)
  PROVE  /\ req' \in [Reqs -> ReqType]
         /\ req'[r].pc = "idle"
         /\ \A s \in Reqs : s # r => req'[s] = req[s]
<1>1. req \in [Reqs -> ReqType] /\ Path(r) \in Paths
  BY DEF IInv, TypeOK, ReqType, Path
<1> QED
  BY <1>1, IdleType, ReqStep DEF Answer

\* What was backed up stays backed up while the history and the exposed paths
\* grow; only the request that moved has to be looked at.
LEMMA StillBackedUp ==
  ASSUME BackedUp, NEW r \in Reqs,
         \A s \in Reqs : s # r => req'[s] = req[s],
         hist \subseteq hist', exposed \subseteq exposed',
         req'[r].pc = "write" =>
           \/ req'[r].old = Absent
           \/ <<req'[r].path, req'[r].old>> \in hist'
           \/ req'[r].path \in exposed'
  PROVE  BackedUp'
BY DEF BackedUp, Path

\* A change of the file system keeps the types.
LEMMA PutType ==
  ASSUME TypeOK, NEW f \in [Paths -> Values], NEW void \in SUBSET Paths, Put(f, void)
  PROVE  /\ file' \in [Paths -> Values]
         /\ hist' \in SUBSET (Paths \X Values)
         /\ exposed' \in SUBSET Paths
         /\ seen' \in [Paths -> SUBSET Values]
         /\ hist' = hist /\ exposed \subseteq exposed'
BY DEF Put, TypeOK

(***************************************************************************)
(* The step of the store.  A step of ConfigFiles is one of these kinds.    *)
(***************************************************************************)

\* Nothing the store sees changes.
LEMMA QuietStore ==
  ASSUME Quiet PROVE UNCHANGED Store!vars
BY DEF Quiet, Store!vars

\* The history grows.
LEMMA GrowStore ==
  ASSUME TypeOK, TypeOK', NEW p \in Paths, NEW v \in Values,
         SeenCurrent, hist' = hist \cup {<<p, v>>}, UNCHANGED <<file, exposed, seen>>
  PROVE  Store!Change
<1>1. Kept' \in [Paths -> SUBSET Values] /\ \A x \in Paths : Kept[x] \subseteq Kept'[x]
  BY DEF Kept
<1>2. seen' = [x \in Paths |-> seen[x] \cup {file'[x]}]
  BY DEF TypeOK, SeenCurrent
<1> QED
  BY <1>1, <1>2 DEF Store!Change, TypeOK, Kept

\* Files change: a version that is lost was kept, is worthless or exposed.
LEMMA PutStore ==
  ASSUME TypeOK, NEW f \in [Paths -> Values], NEW void \in SUBSET Paths, Put(f, void),
         \A p \in Paths : f[p] # file[p] =>
           file[p] \in Kept[p] \cup Worthless \/ p \in exposed \cup void
  PROVE  Store!Change
<1>1. /\ Kept' = Kept /\ Kept \in [Paths -> SUBSET Values]
      /\ file' = f /\ exposed' = exposed \cup void
  BY DEF Put, Kept
<1>2. \A p \in Paths : file'[p] # file[p] /\ p \notin exposed' =>
                          file[p] \in Kept[p] \cup Worthless
  BY <1>1
<1>3. seen' = [p \in Paths |-> seen[p] \cup {file'[p]}]
  BY DEF Put
<1> QED
  BY <1>1, <1>2, <1>3 DEF Store!Change, TypeOK, Kept

Effect == IInv' /\ (Store!Change \/ UNCHANGED Store!vars)

\* A step that leaves files and history alone.
LEMMA QuietEffect ==
  ASSUME IInv, NEW r \in Reqs, Quiet, req' \in [Reqs -> ReqType],
         \A s \in Reqs : s # r => req'[s] = req[s],
         req'[r].pc = "write" => req'[r].old = Absent
  PROVE  Effect
<1>1. TypeOK' /\ SeenCurrent'
  BY DEF IInv, TypeOK, SeenCurrent, Quiet
<1>2. BackedUp'
  BY StillBackedUp DEF IInv, Quiet
<1> QED
  BY <1>1, <1>2, QuietStore DEF Effect, IInv

\* A step that writes files.
LEMMA PutEffect ==
  ASSUME IInv, NEW r \in Reqs, NEW f \in [Paths -> Values],
         NEW void \in SUBSET Paths, Put(f, void),
         \A p \in Paths : f[p] # file[p] =>
           file[p] \in Kept[p] \cup Worthless \/ p \in exposed \cup void,
         req' \in [Reqs -> ReqType],
         \A s \in Reqs : s # r => req'[s] = req[s],
         req'[r].pc = "write" => req'[r].path \in exposed'
  PROVE  Effect
<1>1. /\ file' \in [Paths -> Values] /\ hist' \in SUBSET (Paths \X Values)
      /\ exposed' \in SUBSET Paths /\ seen' \in [Paths -> SUBSET Values]
      /\ hist' = hist /\ exposed \subseteq exposed'
  BY PutType DEF IInv
<1>2. TypeOK' /\ SeenCurrent'
  BY <1>1 DEF TypeOK, SeenCurrent, Put
<1>3. BackedUp'
  BY <1>1, StillBackedUp DEF IInv
<1>4. Store!Change
  BY PutStore DEF IInv
<1> QED
  BY <1>2, <1>3, <1>4 DEF Effect, IInv

\* The requests of the initial states and a new request are well formed.
LEMMA SubmitEffect ==
  ASSUME IInv, NEW r \in Reqs, NEW op \in Ops, NEW p \in Paths, NEW src \in Paths,
         NEW c \in Values, Submit(r, op, p, src, c)
  PROVE  Effect
<1> DEFINE q == [pc |-> "read", op |-> op, path |-> p, src |-> src,
                 content |-> c, old |-> Absent]
<1>1. q \in ReqType /\ q.pc = "read"
  BY OpsAssumption DEF ReqType, Steps, Values
<1>2. req' = [req EXCEPT ![r] = q] /\ Quiet /\ req \in [Reqs -> ReqType]
  BY DEF Submit, IInv, TypeOK
<1> HIDE DEF q
<1> QED
  BY <1>1, <1>2, ReqStep, QuietEffect

\* A request that writes to its path loses nothing but what Overwritten names.
LEMMA OverwriteSafe ==
  ASSUME IInv, NEW r \in Reqs, req[r].pc = "write", NEW v \in Values
  PROVE  \A p \in Paths : Set(Path(r), v)[p] # file[p] =>
           file[p] \in Kept[p] \cup Worthless \/ p \in exposed \cup Overwritten(r)
<1> SUFFICES ASSUME NEW p \in Paths, Set(Path(r), v)[p] # file[p]
             PROVE  file[p] \in Kept[p] \cup Worthless \/ p \in exposed \cup Overwritten(r)
  OBVIOUS
<1>1. p = Path(r) /\ file[p] \in Values
  BY DEF Set, IInv, TypeOK
<1>2. CASE file[p] = req[r].old
  BY <1>1, <1>2 DEF IInv, BackedUp, Kept, Worthless
<1>3. CASE file[p] # req[r].old
  BY <1>1, <1>3 DEF Overwritten
<1> QED
  BY <1>2, <1>3

LEMMA HandlerEffect ==
  ASSUME IInv, NEW r \in Reqs, Handler(r)
  PROVE  Effect
<1>0. /\ req[r] \in ReqType /\ Path(r) \in Paths
      /\ file \in [Paths -> Values] /\ TypeOK
  BY DEF IInv, TypeOK, ReqType, Path
<1>v. \A v \in Values : Set(Path(r), v) \in [Paths -> Values]
  BY <1>0 DEF Set
<1>o. Overwritten(r) \in SUBSET Paths
  BY <1>0 DEF Overwritten
<1>1. CASE \E op \in Ops, p, src \in Paths, c \in Values : Submit(r, op, p, src, c)
  BY <1>1, SubmitEffect
<1>2. CASE ReadOld(r)
  <2>1. CASE file[Path(r)] = Absent
    <3>1. Goto(r, "write", Absent) /\ Quiet
      BY <1>2, <2>1 DEF ReadOld
    <3>2. "write" \in Steps /\ Absent \in Values
      BY DEF Steps, Values
    <3> QED
      BY <3>1, <3>2, GotoType, QuietEffect
  <2>2. CASE file[Path(r)] # Absent
    <3>1. Goto(r, "backup", file[Path(r)]) /\ Quiet
      BY <1>2, <2>2 DEF ReadOld
    <3>2. "backup" \in Steps /\ file[Path(r)] \in Values
      BY <1>0 DEF Steps
    <3> QED
      BY <3>1, <3>2, GotoType, QuietEffect
  <2> QED
    BY <2>1, <2>2
<1>3. CASE Backup(r)
  <2>1. "write" \in Steps /\ req[r].old \in Values
    BY <1>0 DEF Steps, ReqType
  <2>2. /\ req' \in [Reqs -> ReqType] /\ req'[r].old = req[r].old
        /\ req'[r].path = Path(r) /\ \A s \in Reqs : s # r => req'[s] = req[s]
    BY <1>3, <2>1, GotoType DEF Backup
  <2>3. hist' = hist \cup {<<Path(r), req[r].old>>} /\ UNCHANGED <<file, exposed, seen>>
    BY <1>3 DEF Backup
  <2>4. TypeOK' /\ SeenCurrent'
    BY <1>0, <2>1, <2>2, <2>3 DEF TypeOK, IInv, SeenCurrent
  <2>5. BackedUp'
    BY <2>2, <2>3, StillBackedUp DEF IInv
  <2>6. Store!Change
    BY <1>0, <2>1, <2>3, <2>4, GrowStore DEF IInv
  <2> QED
    BY <2>4, <2>5, <2>6 DEF Effect, IInv
<1>4. CASE BackupRefused(r)
  BY <1>4, AnswerType, QuietEffect DEF BackupRefused
<1>5. CASE BackupIgnored(r)
  <2>1. "write" \in Steps /\ req[r].old \in Values /\ {Path(r)} \in SUBSET Paths
    BY <1>0 DEF Steps, ReqType
  <2>2. /\ req' \in [Reqs -> ReqType] /\ req'[r].path = Path(r)
        /\ \A s \in Reqs : s # r => req'[s] = req[s]
    BY <1>5, <2>1, GotoType DEF BackupIgnored
  <2>3. Put(file, {Path(r)}) /\ Path(r) \in exposed'
    BY <1>5 DEF BackupIgnored, Put
  <2> QED
    BY <1>0, <2>1, <2>2, <2>3, PutEffect
<1>6. CASE Truncate(r)
  <2>1. "fill" \in Steps /\ req[r].old \in Values /\ Torn \in Values
    BY <1>0 DEF Steps, ReqType, Values
  <2>2. /\ req' \in [Reqs -> ReqType] /\ req'[r].pc = "fill"
        /\ \A s \in Reqs : s # r => req'[s] = req[s]
    BY <1>6, <2>1, GotoType DEF Truncate
  <2>3. req[r].pc = "write" /\ Put(Set(Path(r), Torn), Overwritten(r))
    BY <1>6 DEF Truncate
  <2>4. \A p \in Paths : Set(Path(r), Torn)[p] # file[p] =>
           file[p] \in Kept[p] \cup Worthless \/ p \in exposed \cup Overwritten(r)
    BY <2>1, <2>3, OverwriteSafe
  <2> QED
    BY <1>v, <1>o, <2>1, <2>2, <2>3, <2>4, PutEffect
<1>7. CASE Fill(r)
  <2> DEFINE void == IF file[Path(r)] \in Worthless THEN {} ELSE {Path(r)}
             f == Set(Path(r), req[r].content)
  <2>1. f \in [Paths -> Values] /\ void \in SUBSET Paths
    BY <1>0, <1>v DEF ReqType
  <2>2. Put(f, void) /\ Answer(r)
    BY <1>7 DEF Fill
  <2>3. \A p \in Paths : f[p] # file[p] =>
           file[p] \in Kept[p] \cup Worthless \/ p \in exposed \cup void
    BY <1>0 DEF Set
  <2> HIDE DEF f, void
  <2> QED
    BY <2>1, <2>2, <2>3, AnswerType, PutEffect
<1>8. CASE WriteFails(r)
  BY <1>8, AnswerType, QuietEffect DEF WriteFails
<1>9. CASE Remove(r)
  <2>1. /\ req[r].pc = "write" /\ Put(Set(Path(r), Absent), Overwritten(r))
        /\ Answer(r) /\ Absent \in Values
    BY <1>9 DEF Remove, Values
  <2>2. \A p \in Paths : Set(Path(r), Absent)[p] # file[p] =>
           file[p] \in Kept[p] \cup Worthless \/ p \in exposed \cup Overwritten(r)
    BY <2>1, OverwriteSafe
  <2> QED
    BY <1>v, <1>o, <2>1, <2>2, AnswerType, PutEffect
<1>10. CASE CopyOver(r)
  <2> DEFINE v == file[req[r].src]
  <2>1. /\ req[r].pc = "write" /\ Put(Set(Path(r), v), Overwritten(r))
        /\ Answer(r) /\ v \in Values
    BY <1>0, <1>10 DEF CopyOver, ReqType
  <2> HIDE DEF v
  <2>2. \A p \in Paths : Set(Path(r), v)[p] # file[p] =>
           file[p] \in Kept[p] \cup Worthless \/ p \in exposed \cup Overwritten(r)
    BY <2>1, OverwriteSafe
  <2> QED
    BY <1>v, <1>o, <2>1, <2>2, AnswerType, PutEffect
<1> QED
  BY <1>1, <1>2, <1>3, <1>4, <1>5, <1>6, <1>7, <1>8, <1>9, <1>10 DEF Handler

\* A change of the file system that belongs to no request.
LEMMA DirectEffect ==
  ASSUME IInv, UNCHANGED req, NEW f \in [Paths -> Values],
         NEW void \in SUBSET Paths, Put(f, void),
         \A p \in Paths : f[p] # file[p] => p \in void
  PROVE  Effect
<1>1. /\ file' \in [Paths -> Values] /\ hist' \in SUBSET (Paths \X Values)
      /\ exposed' \in SUBSET Paths /\ seen' \in [Paths -> SUBSET Values]
      /\ hist' = hist /\ exposed \subseteq exposed'
  BY PutType DEF IInv
<1>2. TypeOK' /\ SeenCurrent'
  BY <1>1 DEF IInv, TypeOK, SeenCurrent, Put
<1>3. BackedUp'
  BY <1>1 DEF IInv, BackedUp, Path
<1>4. Store!Change
  BY PutStore DEF IInv
<1> QED
  BY <1>2, <1>3, <1>4 DEF Effect, IInv

\* Every step keeps the invariant and is a step of the store or a stutter.
LEMMA NextEffect == IInv /\ [Next]_vars => Effect
<1> SUFFICES ASSUME IInv, [Next]_vars PROVE Effect
  OBVIOUS
<1>0. file \in [Paths -> Values] /\ req \in [Reqs -> ReqType]
  BY DEF IInv, TypeOK
<1>1. CASE \E r \in Reqs : Handler(r)
  BY <1>1, HandlerEffect
<1>2. CASE \E p, q \in Paths : Rename(p, q)
  <2>1. PICK p \in Paths, q \in Paths : Rename(p, q)
    BY <1>2
  <2> DEFINE f == [file EXCEPT ![q] = file[p], ![p] = Absent]
  <2>2. f \in [Paths -> Values] /\ \A x \in Paths : f[x] # file[x] => x \in {p, q}
    BY <1>0 DEF Values
  <2>3. Put(f, {p, q}) /\ UNCHANGED req
    BY <2>1 DEF Rename
  <2> HIDE DEF f
  <2> QED
    BY <2>2, <2>3, DirectEffect
<1>3. CASE \E p \in Paths : RemoveInDirectory(p)
  <2>1. PICK p \in Paths : RemoveInDirectory(p)
    BY <1>3
  <2> DEFINE f == Set(p, Absent)
  <2>2. f \in [Paths -> Values] /\ \A x \in Paths : f[x] # file[x] => x \in {p}
    BY <1>0 DEF Values, Set
  <2>3. Put(f, {p}) /\ UNCHANGED req
    BY <2>1 DEF RemoveInDirectory
  <2> HIDE DEF f
  <2> QED
    BY <2>2, <2>3, DirectEffect
<1>4. CASE Crash
  <2>1. req' = [r \in Reqs |-> Idle(Path(r))] /\ Quiet
    BY <1>4 DEF Crash
  <2>2. req' \in [Reqs -> ReqType] /\ \A r \in Reqs : req'[r].pc = "idle"
    BY <1>0, <2>1, IdleType DEF ReqType, Path
  <2>3. TypeOK' /\ SeenCurrent' /\ BackedUp'
    BY <2>1, <2>2 DEF IInv, TypeOK, SeenCurrent, BackedUp, Quiet
  <2> QED
    BY <2>1, <2>3, QuietStore DEF Effect, IInv
<1>5. CASE UNCHANGED vars
  <2>1. TypeOK' /\ SeenCurrent' /\ BackedUp'
    BY <1>5 DEF vars, IInv, TypeOK, SeenCurrent, BackedUp, Path
  <2>2. UNCHANGED Store!vars
    BY <1>5 DEF vars, Store!vars
  <2> QED
    BY <2>1, <2>2 DEF Effect, IInv
<1> QED
  BY <1>1, <1>2, <1>3, <1>4, <1>5 DEF Next

\* Initial states satisfy the invariant and are initial states of the store.
LEMMA InitEffect == Init => IInv /\ Store!Init
<1> SUFFICES ASSUME Init PROVE IInv /\ Store!Init
  OBVIOUS
<1>1. PICK p \in Paths : req = [r \in Reqs |-> Idle(p)]
  BY DEF Init
<1>2. req \in [Reqs -> ReqType] /\ \A r \in Reqs : req[r].pc = "idle"
  BY <1>1, IdleType
<1>3. IInv
  BY <1>2 DEF Init, IInv, TypeOK, BackedUp, SeenCurrent, Values
<1>4. Store!Init
  BY DEF Init, Store!Init, Values
<1> QED
  BY <1>3, <1>4

\* The inductive invariant of the editor (saveConfigFileWithHistory and the
\* handlers around it): a request about to write has saved what it read.
THEOREM FilesInductive == Spec => []IInv
<1>1. IInv /\ [Next]_vars => IInv'
  BY NextEffect DEF Effect
<1> QED
  BY <1>1, InitEffect, PTL DEF Spec

\* The files with their history implement the version store, for any files,
\* versions and concurrent requests.
THEOREM FilesImplementStore == Spec => StoreSpec
<1>1. IInv /\ [Next]_vars => [Store!Change]_(Store!vars)
  BY NextEffect DEF Effect
<1> QED
  BY <1>1, InitEffect, FilesInductive, PTL DEF Spec, StoreSpec, Store!Spec

\* No version is lost, with the exceptions that exposed names.
THEOREM NoVersionLost == Spec => []VersionsKept
<1>1. Init => VersionsKept
  BY DEF Init, VersionsKept, Store!NothingLost
<1>2. VersionsKept /\ Store!Change => VersionsKept'
  <2> SUFFICES ASSUME VersionsKept, Store!Change, NEW p \in Paths, p \notin exposed'
               PROVE  seen'[p] \subseteq Kept'[p] \cup {file'[p]} \cup Worthless
    BY DEF VersionsKept, Store!NothingLost, Kept
  <2>1. seen'[p] = seen[p] \cup {file'[p]} /\ p \notin exposed
    BY DEF Store!Change
  <2>2. seen[p] \subseteq Kept[p] \cup {file[p]} \cup Worthless
    BY <2>1 DEF VersionsKept, Store!NothingLost, Kept
  <2>3. /\ Kept[p] \subseteq Kept'[p]
        /\ file'[p] # file[p] => file[p] \in Kept[p] \cup Worthless
    BY DEF Store!Change, Kept
  <2> QED
    BY <2>1, <2>2, <2>3
<1>3. VersionsKept /\ UNCHANGED Store!vars => VersionsKept'
  BY DEF VersionsKept, Store!NothingLost, Store!vars
<1>4. IInv /\ VersionsKept /\ [Next]_vars => VersionsKept'
  BY <1>2, <1>3, NextEffect DEF Effect
<1> QED
  BY <1>1, <1>4, FilesInductive, PTL DEF Spec
=============================================================================
