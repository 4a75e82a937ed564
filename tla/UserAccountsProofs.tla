------------------------- MODULE UserAccountsProofs -------------------------
(***************************************************************************)
(* AdminRemains of UserAccounts, for any number of users, roles and        *)
(* concurrent requests.  The guards that count admins are not needed: the  *)
(* actor of a request is an active admin, no request may turn on its own   *)
(* actor, and so the actor itself still rules after the write - unless a   *)
(* concurrent request took it away, which is what stale records.  Then     *)
(* DisableHolds, from what an update read of its target.                   *)
(***************************************************************************)
EXTENDS UserAccounts, TLAPS

\* The shape of a request after one of its steps.
LEMMA ReqUpdate ==
  ASSUME req \in [Reqs -> ReqType], NEW r \in Reqs, NEW q \in ReqType,
         req' = [req EXCEPT ![r] = q]
  PROVE  /\ req' \in [Reqs -> ReqType]
         /\ req'[r] = q
         /\ \A s \in Reqs : s # r => req'[s] = req[s]
OBVIOUS

\* The value of a slot without a request is a well-formed request.
LEMMA IdleType == Idle \in ReqType
BY DefaultAssumption, OthersAssumption DEF Idle, ReqType, Steps, Ops, Roles

\* The invariant holds when nothing was created yet.
LEMMA InitIInv == Init => IInv
<1> SUFFICES ASSUME Init PROVE IInv
  OBVIOUS
<1>1. TypeOK
  BY IdleType DEF Init, TypeOK, Roles
<1>2. ActorsRule /\ SelfIsHarmless /\ CreateAsksRole
  BY DEF Init, ActorsRule, SelfIsHarmless, CreateAsksRole, InFlight, Idle
<1>3. AdminRemains
  BY DEF Init, AdminRemains
<1> QED
  BY <1>1, <1>2, <1>3 DEF IInv

\* A request that ends or moves on without a write touches no row; what it may
\* be about to write is all that has to be checked.
LEMMA QuietStep ==
  ASSUME IInv, NEW r \in Reqs, NEW q \in ReqType,
         req' = [req EXCEPT ![r] = q], UNCHANGED <<row, setUp, dirty>>,
         moved' \in SUBSET Reqs,
         stale' = stale \/ (stale' = stale \ {r} /\ q.pc = "idle"),
         q.pc # "idle" /\ r \notin stale => ActiveAdmin(q.actor),
         q.pc # "idle" /\ q.op = "create" => q.askRole \in Roles,
         q.pc \in {"count", "write"} /\ q.target = q.actor /\ r \notin stale =>
           /\ q.op \in {"create", "update"}
           /\ q.op = "update" => NewRole(q) = "admin" /\ NewActive(q)
  PROVE  IInv'
<1>1. /\ req' \in [Reqs -> ReqType]
      /\ req'[r] = q
      /\ \A s \in Reqs : s # r => req'[s] = req[s]
  BY ReqUpdate DEF IInv, TypeOK
<1>2. TypeOK'
  BY <1>1 DEF IInv, TypeOK, row
<1>3. ActorsRule'
  BY <1>1 DEF IInv, ActorsRule, InFlight, ActiveAdmin, Admin, row
<1>4. SelfIsHarmless'
  <2> SUFFICES ASSUME NEW s \in Reqs, req'[s].pc \in {"count", "write"}, Self(s)', s \notin stale'
               PROVE  /\ req'[s].op \in {"create", "update"}
                      /\ req'[s].op = "update" => NewRole(req'[s]) = "admin" /\ NewActive(req'[s])
    BY DEF SelfIsHarmless
  <2>1. CASE s = r
    <3>1. q.pc \in {"count", "write"} /\ q.target = q.actor /\ r \notin stale
      BY <1>1, <2>1 DEF Self
    <3> QED BY <1>1, <2>1, <3>1
  <2>2. CASE s # r
    <3>1. req'[s] = req[s] /\ s \notin stale
      BY <1>1, <2>2
    <3> QED BY <2>2, <3>1 DEF IInv, SelfIsHarmless, Self
  <2> QED BY <2>1, <2>2
<1>5. AdminRemains'
  BY DEF IInv, AdminRemains, SomeoneRules, ActiveAdmin, Admin, row
<1>6. CreateAsksRole'
  BY <1>1 DEF IInv, CreateAsksRole
<1> QED
  BY <1>2, <1>3, <1>4, <1>5, <1>6 DEF IInv

\* A request that is answered leaves its slot.
LEMMA FinishStep ==
  ASSUME IInv, NEW r \in Reqs, Finish(r)
  PROVE  IInv'
<1>1. Idle.pc = "idle" /\ Idle.op = "create"
  BY DEF Idle
<1> QED
  BY <1>1, IdleType, QuietStep DEF Finish, IInv, TypeOK

\* A request that read its target goes on with the row it saw; if it is about
\* its own actor it keeps the role and the activity of an active admin.
LEMMA ContinueStep ==
  ASSUME IInv, NEW r \in Reqs, NEW counts \in BOOLEAN, Continue(r, counts),
         req[r].pc # "idle",
         Self(r) => /\ req[r].op = "update"
                    /\ AskedRole(r) = role[req[r].target]
                    /\ AskedActive(r)
  PROVE  IInv'
<1> DEFINE t == req[r].target
           q == [pc |-> IF counts THEN "count" ELSE "write",
                 op |-> req[r].op, actor |-> req[r].actor, target |-> t,
                 askRole |-> req[r].askRole, askActive |-> req[r].askActive,
                 oldRole |-> role[t], oldActive |-> active[t]]
<1>1. req[r] \in ReqType /\ t \in Users
  BY DEF IInv, TypeOK, ReqType
<1>2. q \in ReqType
  BY <1>1 DEF IInv, TypeOK, ReqType, Steps
<1>3. r \notin stale => ActiveAdmin(req[r].actor)
  BY DEF IInv, ActorsRule, InFlight
<1>4. NewRole(q) = AskedRole(r) /\ NewActive(q) = AskedActive(r)
  BY DEF NewRole, NewActive, AskedRole, AskedActive
<1>5. ASSUME q.target = q.actor, r \notin stale
      PROVE  /\ q.op = "update"
             /\ NewRole(q) = "admin" /\ NewActive(q)
  <2>1. Self(r)
    BY <1>5 DEF Self
  <2>2. role[t] = "admin"
    BY <1>3, <1>5 DEF ActiveAdmin, Admin
  <2> QED
    BY <2>1, <2>2, <1>4
<1>6. req' = [req EXCEPT ![r] = q] /\ UNCHANGED <<row, setUp, stale, moved, dirty>>
  BY DEF Continue
<1> HIDE DEF q
<1>7. /\ q.actor = req[r].actor
      /\ q.op = "create" => q.askRole \in Roles
  BY DEF q, IInv, CreateAsksRole
<1> QED
  BY <1>2, <1>3, <1>5, <1>6, <1>7, QuietStep DEF IInv, TypeOK

\* The admitted actor is an active admin.
LEMMA AdmitStep ==
  ASSUME IInv, NEW r \in Reqs, NEW u \in Users, NEW op \in Ops, NEW t \in Users,
         Admit(r, u, op, t)
  PROVE  IInv'
<1>1. PICK b \in Bodies(op) :
        req' = [req EXCEPT ![r] =
                  [pc |-> IF op = "create" THEN "write" ELSE "read",
                   op |-> op, actor |-> u, target |-> t,
                   askRole |-> b.role, askActive |-> b.active,
                   oldRole |-> "admin", oldActive |-> TRUE]]
  BY DEF Admit
<1> DEFINE q == [pc |-> IF op = "create" THEN "write" ELSE "read",
                 op |-> op, actor |-> u, target |-> t,
                 askRole |-> b.role, askActive |-> b.active,
                 oldRole |-> "admin", oldActive |-> TRUE]
<1>2. b.role \in Roles \cup {""} /\ b.active \in {"keep", "on", "off"}
  BY DEF Bodies, Ops
<1>3. q \in ReqType
  BY <1>2 DEF ReqType, Steps, Ops, Roles
<1>4. ActiveAdmin(u)
  BY DEF Admit, authorizeRequest, requireAdmin, userByID, ActiveAdmin, Admin
<1>5. q.actor = u /\ q.op = op /\ (q.pc # "read" => q.op = "create" /\ q.pc = "write")
      /\ (q.op = "create" => q.askRole \in Roles)
  BY DEF Bodies
<1>6. req' = [req EXCEPT ![r] = q] /\ UNCHANGED <<row, setUp, stale, moved, dirty>>
  BY <1>1 DEF Admit
<1> HIDE DEF q
<1> QED
  BY <1>3, <1>4, <1>5, <1>6, QuietStep DEF IInv, TypeOK

\* The count only decides whether the request goes on.
LEMMA CountsStep ==
  ASSUME IInv, NEW r \in Reqs, Counts(r)
  PROVE  IInv'
<1>1. CASE Finish(r)
  BY <1>1, FinishStep
<1>2. CASE ~ Finish(r)
  <2> DEFINE q == [pc |-> "write", op |-> req[r].op,
                   actor |-> req[r].actor, target |-> req[r].target,
                   askRole |-> req[r].askRole, askActive |-> req[r].askActive,
                   oldRole |-> req[r].oldRole, oldActive |-> req[r].oldActive]
  <2>1. req' = [req EXCEPT ![r] = q] /\ UNCHANGED <<row, setUp, stale, moved, dirty>>
    BY <1>2 DEF Counts
  <2>2. q \in ReqType
    BY DEF IInv, TypeOK, ReqType, Steps
  <2>3. req[r].pc = "count"
    BY DEF Counts
  <2>4. r \notin stale => ActiveAdmin(q.actor)
    BY <2>3 DEF IInv, ActorsRule, InFlight
  <2>5. q.target = q.actor /\ r \notin stale =>
           /\ q.op \in {"create", "update"}
           /\ q.op = "update" => NewRole(q) = "admin" /\ NewActive(q)
    BY <2>3 DEF IInv, SelfIsHarmless, Self, NewRole, NewActive
  <2>6. q.op = "create" => q.askRole \in Roles
    BY <2>3 DEF IInv, CreateAsksRole
  <2> HIDE DEF q
  <2> QED
    BY <2>1, <2>2, <2>4, <2>5, <2>6, QuietStep DEF IInv, TypeOK
<1> QED
  BY <1>1, <1>2

(***************************************************************************)
(* The writes.  If the request is not stale its actor rules before the     *)
(* write and, the write leaving the actor alone, after it.                 *)
(***************************************************************************)
LEMMA CommitStep ==
  ASSUME IInv, NEW r \in Reqs, Commit(r), req[r].pc = "write",
         kind' \in [Users -> {"absent", "live", "deleted"}],
         role' \in [Users -> Roles], active' \in [Users -> BOOLEAN],
         \A u \in Users : u # req[r].target =>
           kind'[u] = kind[u] /\ role'[u] = role[u] /\ active'[u] = active[u],
         \A u \in Users : u = req[r].target /\ Self(r) /\ r \notin stale /\ Admin(u) =>
           kind'[u] = "live" /\ role'[u] = "admin" /\ active'[u]
  PROVE  IInv'
<1> USE DEF IInv
<1>1. /\ req' \in [Reqs -> ReqType]
      /\ req'[r] = Idle
      /\ \A s \in Reqs : s # r => req'[s] = req[s]
  BY IdleType, ReqUpdate DEF Commit, TypeOK
<1>2. TypeOK'
  BY <1>1 DEF Commit, TypeOK, InFlight
<1>3. ActorsRule'
  <2> SUFFICES ASSUME NEW s \in Reqs, s \in InFlight', s \notin stale'
               PROVE  ActiveAdmin(req[s].actor)'
    BY DEF ActorsRule
  <2>1. s # r /\ req'[s] = req[s] /\ s \in InFlight
    <3>1. Idle.pc = "idle" /\ req'[s].pc # "idle"
      BY DEF InFlight, Idle
    <3>2. s # r
      BY <3>1, <1>1
    <3> QED
      BY <3>1, <3>2, <1>1 DEF InFlight
  <2>2. s \notin stale /\ Taken = {}
    BY <2>1 DEF Commit
  <2>3. ActiveAdmin(req[s].actor) /\ req[s].actor \in Users
    BY <2>1, <2>2 DEF ActorsRule, TypeOK, ReqType
  <2> DEFINE u == req[s].actor
  <2>4. kind[u] = "live" /\ role[u] = "admin" /\ active[u]
    BY <2>3 DEF ActiveAdmin, Admin
  <2>5. kind'[u] = "live" /\ role'[u] = "admin" /\ active'[u]
    BY <2>2, <2>3, <2>4 DEF Taken, ActiveAdmin, Admin
  <2> QED
    BY <2>1, <2>5 DEF ActiveAdmin, Admin
<1>4. SelfIsHarmless'
  <2> SUFFICES ASSUME NEW s \in Reqs, req'[s].pc \in {"count", "write"},
                      req'[s].target = req'[s].actor, s \notin stale'
               PROVE  /\ req'[s].op \in {"create", "update"}
                      /\ req'[s].op = "update" => /\ NewRole(req'[s]) = "admin"
                                                  /\ NewActive(req'[s])
    BY DEF SelfIsHarmless, Self, NewRole, NewActive
  <2>1. s # r /\ req'[s] = req[s] /\ s \notin stale
    BY <1>1 DEF Idle, Commit
  <2> QED
    BY <2>1 DEF SelfIsHarmless, Self
<1>5. CreateAsksRole'
  <2>1. Idle.pc = "idle"
    BY DEF Idle
  <2> QED
    BY <1>1, <2>1 DEF CreateAsksRole
<1>6. AdminRemains'
  <2> SUFFICES ASSUME setUp', ~ dirty'
               PROVE  \E u \in Users : kind'[u] = "live" /\ role'[u] = "admin"
                                         /\ active'[u]
    BY DEF AdminRemains, SomeoneRules, ActiveAdmin, Admin
  <2>1. setUp /\ ~ dirty /\ (Taken = {} \/ r \notin stale)
    BY DEF Commit
  <2>2. CASE Taken = {}
    <3>1. PICK u \in Users : kind[u] = "live" /\ role[u] = "admin" /\ active[u]
      BY <2>1 DEF AdminRemains, SomeoneRules, ActiveAdmin, Admin
    <3> QED
      BY <2>2, <3>1 DEF Taken, ActiveAdmin, Admin
  <2>3. CASE Taken # {} /\ r \notin stale
    <3> DEFINE a == req[r].actor
    <3>1. a \in Users /\ kind[a] = "live" /\ role[a] = "admin" /\ active[a]
      BY <2>3 DEF ActorsRule, InFlight, ActiveAdmin, Admin, TypeOK, ReqType
    <3>2. CASE Self(r)
      BY <2>3, <3>1, <3>2 DEF Self, Admin
    <3>3. CASE ~ Self(r)
      BY <3>1, <3>3 DEF Self
    <3> QED
      BY <3>2, <3>3
  <2> QED
    BY <2>1, <2>2, <2>3
<1> QED
  BY <1>2, <1>3, <1>4, <1>5, <1>6

\* A write of the request's own slot disturbs only its target; the three that
\* can weaken a user spare the actor of a request that is not stale.
LEMMA HandlerStep ==
  ASSUME IInv, NEW r \in Reqs, Handler(r)
  PROVE  IInv'
<1> DEFINE t == req[r].target
<1>0. req[r] \in ReqType /\ t \in Users
  BY DEF IInv, TypeOK, ReqType
<1>1. CASE \E u, v \in Users, op \in Ops : Admit(r, u, op, v)
  BY <1>1, AdmitStep
<1>2. CASE UpdateReads(r)
  <2> DEFINE c == role[t] = "admin" /\ (~ AskedActive(r) \/ AskedRole(r) # "admin")
  <2>1. CASE Finish(r)
    BY <2>1, FinishStep
  <2>2. CASE ~ Finish(r)
    <3>1. /\ req[r].pc # "idle"
          /\ Continue(r, c)
          /\ Self(r) => /\ req[r].op = "update"
                        /\ AskedRole(r) = role[t]
                        /\ AskedActive(r)
      BY <1>0, <1>2, <2>2 DEF UpdateReads, At, IInv, TypeOK, AskedActive
    <3>2. c \in BOOLEAN
      OBVIOUS
    <3> HIDE DEF c
    <3> QED
      BY <3>1, <3>2, ContinueStep
  <2> QED
    BY <2>1, <2>2
<1>3. CASE DeleteReads(r)
  <2> DEFINE c == role[t] = "admin"
  <2>1. CASE Finish(r)
    BY <2>1, FinishStep
  <2>2. CASE ~ Finish(r)
    <3>1. req[r].pc # "idle" /\ Continue(r, c) /\ ~ Self(r)
      BY <1>3, <2>2 DEF DeleteReads, At
    <3>2. c \in BOOLEAN
      OBVIOUS
    <3> HIDE DEF c
    <3> QED
      BY <3>1, <3>2, ContinueStep
  <2> QED
    BY <2>1, <2>2
<1>4. CASE ToggleReads(r)
  <2> DEFINE c == role[t] = "admin" /\ active[t]
  <2>1. CASE Finish(r)
    BY <2>1, FinishStep
  <2>2. CASE ~ Finish(r)
    <3>1. req[r].pc # "idle" /\ Continue(r, c) /\ ~ Self(r)
      BY <1>4, <2>2 DEF ToggleReads, At
    <3>2. c \in BOOLEAN
      BY <1>0 DEF IInv, TypeOK
    <3> HIDE DEF c
    <3> QED
      BY <3>1, <3>2, ContinueStep
  <2> QED
    BY <2>1, <2>2
<1>5. CASE Counts(r)
  BY <1>5, CountsStep
<1>6. CASE CreateWrites(r)
  <2>1. req[r].pc = "write" /\ kind[t] = "absent" /\ Commit(r) /\ ~ Admin(t)
    BY <1>6 DEF CreateWrites, At, Admin
  <2>2. req[r].askRole \in Roles
    BY <1>6 DEF CreateWrites, At, IInv, CreateAsksRole
  <2> QED
    BY <1>0, <1>6, <2>1, <2>2, CommitStep DEF CreateWrites, IInv, TypeOK
<1>7. CASE UpdateWrites(r)
  <2>1. req[r].pc = "write" /\ req[r].op = "update" /\ Commit(r)
    BY <1>7 DEF UpdateWrites, At
  <2>2. NewRole(req[r]) \in Roles /\ NewActive(req[r]) \in BOOLEAN
    BY <1>0 DEF NewRole, NewActive, ReqType
  <2>3. Self(r) /\ r \notin stale => NewRole(req[r]) = "admin" /\ NewActive(req[r])
    BY <2>1 DEF IInv, SelfIsHarmless
  <2> QED
    BY <1>0, <1>7, <2>1, <2>2, <2>3, CommitStep DEF UpdateWrites, IInv, TypeOK, Admin
<1>8. CASE DeleteWrites(r)
  <2>1. req[r].pc = "write" /\ req[r].op = "delete" /\ Commit(r)
    BY <1>8 DEF DeleteWrites, At
  <2>2. ~ (Self(r) /\ r \notin stale)
    BY <2>1 DEF IInv, SelfIsHarmless
  <2> QED
    BY <1>0, <1>8, <2>1, <2>2, CommitStep DEF DeleteWrites, IInv, TypeOK
<1>9. CASE ToggleWrites(r)
  <2>1. req[r].pc = "write" /\ req[r].op = "toggle" /\ Commit(r)
    BY <1>9 DEF ToggleWrites, At
  <2>2. ~ (Self(r) /\ r \notin stale)
    BY <2>1 DEF IInv, SelfIsHarmless
  <2> QED
    BY <1>0, <1>9, <2>1, <2>2, CommitStep DEF ToggleWrites, IInv, TypeOK
<1>10. CASE WriteFails(r)
  BY <1>10, FinishStep DEF WriteFails
<1> QED
  BY <1>1, <1>2, <1>3, <1>4, <1>5, <1>6, <1>7, <1>8, <1>9, <1>10 DEF Handler

\* The set-up wizard and the command line only add an active administrator.
LEMMA SetUpStep ==
  ASSUME IInv, NEW u \in Users, createOrUpdateAdmin(u)
  PROVE  IInv'
<1> USE DEF IInv, createOrUpdateAdmin
<1>1. TypeOK'
  BY DEF TypeOK, Roles
<1>2. ActiveAdmin(u)' /\ \A v \in Users : ActiveAdmin(v) => ActiveAdmin(v)'
  BY DEF TypeOK, ActiveAdmin, Admin
<1>3. ActorsRule'
  <2>1. \A r \in Reqs : req[r].actor \in Users
    BY DEF TypeOK, ReqType
  <2> QED
    BY <1>2, <2>1 DEF ActorsRule, InFlight, ActiveAdmin, Admin, TypeOK
<1>4. SelfIsHarmless'
  BY DEF SelfIsHarmless, Self, NewRole, NewActive
<1>5. AdminRemains'
  BY <1>2 DEF AdminRemains, SomeoneRules
<1>6. CreateAsksRole'
  BY DEF CreateAsksRole
<1> QED
  BY <1>1, <1>3, <1>4, <1>5, <1>6

\* Every step keeps the invariant.
LEMMA NextIInv == IInv /\ [Next]_vars => IInv'
<1> SUFFICES ASSUME IInv, [Next]_vars PROVE IInv'
  OBVIOUS
<1>1. CASE \E r \in Reqs : Handler(r)
  BY <1>1, HandlerStep
<1>2. CASE \E u \in Users : createOrUpdateAdmin(u)
  BY <1>2, SetUpStep
<1>3. CASE ResetAdminPassword
  BY <1>3, SetUpStep, DefaultAssumption DEF ResetAdminPassword
<1>4. CASE UNCHANGED vars
  BY <1>4 DEF vars, row, IInv, TypeOK, ActorsRule, SelfIsHarmless, CreateAsksRole,
     AdminRemains, InFlight, Self, NewRole, NewActive, SomeoneRules, ActiveAdmin, Admin
<1> QED
  BY <1>1, <1>2, <1>3, <1>4 DEF Next

\* The inductive invariant of the user table (handlers_users.go) holds for any
\* number of users, roles and requests in flight.
THEOREM UsersInductive == Spec => []IInv
<1>1. Init => IInv
  BY InitIInv
<1>2. IInv /\ [Next]_vars => IInv'
  BY NextIInv
<1> QED
  BY <1>1, <1>2, PTL DEF Spec

\* An installation that was set up keeps an active administrator as long as no
\* request took one away behind the back of another (handlers_users.go:148-161,
\* 179-191, 245-252).
THEOREM AdminAlwaysRemains == Spec => []AdminRemains
<1>1. IInv => AdminRemains
  BY DEF IInv
<1> QED
  BY <1>1, UsersInductive, PTL

(***************************************************************************)
(* A disabled user stays disabled.  An update writes back what it read, so *)
(* what counts is that a request whose target did not change meanwhile     *)
(* carries a true is_active only while the row has it.                     *)
(***************************************************************************)
ReadsHold ==
  \A r \in Reqs :
    req[r].pc \in {"count", "write"} /\ req[r].op = "update" /\ r \notin moved
      => (req[r].oldActive => active[req[r].target])

\* A request that is answered or goes on without touching the table.
LEMMA ReadsHoldQuiet ==
  ASSUME TypeOK, ReadsHold, NEW r \in Reqs, NEW q \in ReqType,
         req' = [req EXCEPT ![r] = q], active' = active,
         moved' = moved \/ moved' = moved \ {r},
         q.pc \in {"count", "write"} /\ q.op = "update" /\ r \notin moved' =>
           (q.oldActive => active[q.target])
  PROVE  ReadsHold'
<1>1. req'[r] = q /\ \A x \in Reqs : x # r => req'[x] = req[x]
  BY DEF TypeOK
<1>2. \A x \in Reqs : x # r /\ x \notin moved' => x \notin moved
  OBVIOUS
<1> QED
  BY <1>1, <1>2 DEF ReadsHold

\* A statement that writes the row of its target marks the requests that have
\* read that row.
LEMMA ReadsHoldCommit ==
  ASSUME TypeOK, ReadsHold, NEW r \in Reqs, Commit(r),
         \A u \in Users : u # req[r].target => active'[u] = active[u]
  PROVE  ReadsHold'
<1>1. req'[r] = Idle /\ \A x \in Reqs : x # r => req'[x] = req[x]
  BY DEF Commit, TypeOK
<1>2. ASSUME NEW x \in Reqs, x # r, x \notin moved', req[x].pc \in {"count", "write"}
      PROVE  x \notin moved /\ req[x].target # req[r].target
  BY <1>2 DEF Commit, InFlight
<1>3. Idle.pc \notin {"count", "write"}
  BY DEF Idle
<1>4. SUFFICES ASSUME NEW x \in Reqs, req'[x].pc \in {"count", "write"}, req'[x].op = "update",
                      x \notin moved', req'[x].oldActive
               PROVE  active'[req'[x].target]
  BY DEF ReadsHold
<1>5. x # r /\ req'[x] = req[x]
  BY <1>1, <1>3, <1>4
<1>6. active[req[x].target] /\ req[x].target # req[r].target
  BY <1>2, <1>4, <1>5 DEF ReadsHold
<1>7. req[x].target \in Users
  BY DEF TypeOK, ReqType
<1> QED
  BY <1>5, <1>6, <1>7

LEMMA ReadsHoldHandler ==
  ASSUME TypeOK, ReadsHold, NEW r \in Reqs, Handler(r)
  PROVE  ReadsHold'
<1>0. req[r] \in ReqType /\ Idle \in ReqType /\ Idle.pc = "idle"
  BY IdleType DEF TypeOK, Idle
<1>1. ASSUME Finish(r) PROVE ReadsHold'
  BY <1>0, <1>1, ReadsHoldQuiet DEF Finish, row
<1>2. ASSUME NEW counts \in BOOLEAN, Continue(r, counts) PROVE ReadsHold'
  <2> DEFINE t == req[r].target
             q == [pc |-> IF counts THEN "count" ELSE "write", op |-> req[r].op,
                   actor |-> req[r].actor, target |-> t, askRole |-> req[r].askRole,
                   askActive |-> req[r].askActive, oldRole |-> role[t], oldActive |-> active[t]]
  <2>1. q \in ReqType
    BY <1>0 DEF ReqType, TypeOK, Steps
  <2>2. q.target = t /\ q.oldActive = active[t]
    OBVIOUS
  <2>3. req' = [req EXCEPT ![r] = q] /\ active' = active /\ moved' = moved
    BY <1>2 DEF Continue, row
  <2> HIDE DEF q
  <2> QED
    BY <2>1, <2>2, <2>3, ReadsHoldQuiet
<1>3. CASE \E u, t \in Users, op \in Ops : Admit(r, u, op, t)
  <2>1. PICK u \in Users, t \in Users, op \in Ops : Admit(r, u, op, t)
    BY <1>3
  <2>2. PICK b \in Bodies(op) :
          req' = [req EXCEPT ![r] =
                    [pc |-> IF op = "create" THEN "write" ELSE "read",
                     op |-> op, actor |-> u, target |-> t,
                     askRole |-> b.role, askActive |-> b.active,
                     oldRole |-> "admin", oldActive |-> TRUE]]
    BY <2>1 DEF Admit
  <2>3. b.role \in Roles \cup {""} /\ b.active \in {"keep", "on", "off"}
    BY <2>2 DEF Bodies, Roles
  <2> DEFINE q == [pc |-> IF op = "create" THEN "write" ELSE "read",
                   op |-> op, actor |-> u, target |-> t,
                   askRole |-> b.role, askActive |-> b.active,
                   oldRole |-> "admin", oldActive |-> TRUE]
  <2>4. q \in ReqType /\ ~ (q.pc \in {"count", "write"} /\ q.op = "update")
    BY <2>1, <2>3 DEF ReqType, Steps, Ops, Roles
  <2>5. active' = active /\ moved' = moved
    BY <2>1 DEF Admit, row
  <2> HIDE DEF q
  <2> QED
    BY <2>2, <2>4, <2>5, ReadsHoldQuiet DEF q
<1>4. CASE UpdateReads(r) \/ DeleteReads(r) \/ ToggleReads(r)
  <2>1. Finish(r) \/ \E counts \in BOOLEAN : Continue(r, counts)
    BY <1>4 DEF UpdateReads, DeleteReads, ToggleReads
  <2> QED
    BY <1>1, <1>2, <2>1
<1>5. CASE Counts(r)
  <2>1. CASE Finish(r)
    BY <1>1, <2>1
  <2>2. CASE ~ Finish(r)
    <3> DEFINE q == [pc |-> "write", op |-> req[r].op, actor |-> req[r].actor,
                     target |-> req[r].target, askRole |-> req[r].askRole,
                     askActive |-> req[r].askActive, oldRole |-> req[r].oldRole,
                     oldActive |-> req[r].oldActive]
    <3>1. req' = [req EXCEPT ![r] = q] /\ active' = active /\ moved' = moved
      BY <1>5, <2>2 DEF Counts, row
    <3>2. q \in ReqType /\ q.op = req[r].op /\ q.target = req[r].target /\ q.oldActive = req[r].oldActive
      BY <1>0 DEF ReqType, Steps
    <3>3. req[r].pc = "count"
      BY <1>5 DEF Counts
    <3> HIDE DEF q
    <3> QED
      BY <3>1, <3>2, <3>3, ReadsHoldQuiet DEF ReadsHold
  <2> QED
    BY <2>1, <2>2
<1>6. CASE CreateWrites(r) \/ UpdateWrites(r) \/ DeleteWrites(r) \/ ToggleWrites(r)
  <2>1. Commit(r) /\ \A u \in Users : u # req[r].target => active'[u] = active[u]
    BY <1>6 DEF CreateWrites, UpdateWrites, DeleteWrites, ToggleWrites, TypeOK
  <2> QED
    BY <2>1, ReadsHoldCommit
<1>7. CASE WriteFails(r)
  BY <1>1, <1>7 DEF WriteFails
<1> QED
  BY <1>3, <1>4, <1>5, <1>6, <1>7 DEF Handler

LEMMA ReadsHoldNext == TypeOK /\ ReadsHold /\ [Next]_vars => ReadsHold'
<1> SUFFICES ASSUME TypeOK, ReadsHold, [Next]_vars PROVE ReadsHold'
  OBVIOUS
<1>1. CASE \E r \in Reqs : Handler(r)
  BY <1>1, ReadsHoldHandler
<1>2. ASSUME NEW u \in Users, createOrUpdateAdmin(u) PROVE ReadsHold'
  <2>1. req' = req /\ moved' = moved /\ \A v \in Users : active[v] => active'[v]
    BY <1>2 DEF createOrUpdateAdmin, TypeOK
  <2>2. \A r \in Reqs : req[r].target \in Users
    BY DEF TypeOK, ReqType
  <2> QED
    BY <2>1, <2>2 DEF ReadsHold
<1>3. CASE UNCHANGED vars
  BY <1>3 DEF vars, ReadsHold
<1> QED
  BY <1>1, <1>2, <1>3, DefaultAssumption DEF Next, ResetAdminPassword

\* Only a write of a request makes one user active, or the set-up and the
\* command line, which touch no request.
LEMMA WhoEnables ==
  ASSUME TypeOK, ReadsHold, [Next]_vars, NEW u \in Users,
         userByID(u), ~ active[u], active'[u]
  PROVE  \/ \E r \in Reqs : /\ req[r].pc = "write" /\ req'[r] = Idle
                            /\ req[r].target = u
                            /\ \/ req[r].op = "toggle"
                               \/ req[r].askActive = "on"
                               \/ r \in moved
         \/ UNCHANGED req
<1>1. CASE \E r \in Reqs : Handler(r)
  <2>1. PICK r \in Reqs : Handler(r)
    BY <1>1
  <2>2. req[r] \in ReqType
    BY DEF TypeOK
  <2>3. CASE CreateWrites(r)
    BY <2>3 DEF CreateWrites, TypeOK, userByID
  <2>4. CASE UpdateWrites(r)
    <3>1. req[r].pc = "write" /\ req[r].op = "update" /\ Commit(r)
      BY <2>4 DEF UpdateWrites, At
    <3>2. req'[r] = Idle
      BY <3>1 DEF Commit, TypeOK
    <3>3. req[r].target = u /\ NewActive(req[r])
      BY <2>4 DEF UpdateWrites, TypeOK
    <3>4. req[r].askActive = "on" \/ (req[r].askActive = "keep" /\ req[r].oldActive)
      BY <2>2, <3>3 DEF NewActive, ReqType
    <3>5. r \notin moved => ~ req[r].oldActive
      BY <3>1, <3>3 DEF ReadsHold
    <3> QED
      BY <3>1, <3>2, <3>3, <3>4, <3>5
  <2>5. CASE ToggleWrites(r)
    <3>1. req[r].pc = "write" /\ req[r].op = "toggle" /\ Commit(r)
      BY <2>5 DEF ToggleWrites, At
    <3>2. req'[r] = Idle
      BY <3>1 DEF Commit, TypeOK
    <3>3. req[r].target = u
      BY <2>5 DEF ToggleWrites, TypeOK
    <3> QED
      BY <3>1, <3>2, <3>3
  <2>6. CASE ~ (CreateWrites(r) \/ UpdateWrites(r) \/ ToggleWrites(r))
    <3>1. active' = active
      BY <2>1, <2>6 DEF Handler, Admit, UpdateReads, DeleteReads, ToggleReads, Counts,
         DeleteWrites, WriteFails, Finish, Continue, row
    <3> QED
      BY <3>1
  <2> QED
    BY <2>3, <2>4, <2>5, <2>6
<1>2. CASE (\E v \in Users : createOrUpdateAdmin(v)) \/ ResetAdminPassword
  BY <1>2 DEF ResetAdminPassword, createOrUpdateAdmin
<1>3. CASE UNCHANGED vars
  BY <1>3 DEF vars
<1> QED
  BY <1>1, <1>2, <1>3 DEF Next

\* Whatever requests overlap, a disabled user is enabled again only by a request
\* that asks for it, by the set-up, or by an update whose target changed after
\* it was read (handlers_users.go:121-172, 238-258; auth.go createOrUpdateAdmin).
THEOREM DisabledStaysDisabled == Spec => DisableHolds
<1>1. Init => ReadsHold
  <2>1. Idle.pc = "idle"
    BY DEF Idle
  <2> QED
    BY <2>1 DEF Init, ReadsHold
<1>2. IInv => TypeOK
  BY DEF IInv
<1>3. TypeOK /\ ReadsHold /\ [Next]_vars =>
        [\A u \in Users :
           userByID(u) /\ ~ active[u] /\ active'[u] =>
             \/ \E r \in Reqs : /\ req[r].pc = "write" /\ req'[r] = Idle
                                /\ req[r].target = u
                                /\ \/ req[r].op = "toggle"
                                   \/ req[r].askActive = "on"
                                   \/ r \in moved
             \/ UNCHANGED req]_vars
  BY WhoEnables
<1> QED
  BY <1>1, <1>2, <1>3, ReadsHoldNext, UsersInductive, PTL DEF Spec, DisableHolds
=============================================================================
