---------------------------- MODULE UserAccounts ----------------------------
(***************************************************************************)
(* The user table of msf and the handlers that change it                   *)
(* (internal/server/handlers_users.go, auth.go, db.go).                    *)
(*                                                                         *)
(* Every handler works on the user row the middleware read when it         *)
(* admitted the request, reads the target, counts the admins and writes,   *)
(* each with a statement of its own and without a transaction: requests    *)
(* interleave between the statements.  A row is known by its user name,    *)
(* which is unique and stays taken after a soft delete.  Passwords, mail   *)
(* addresses and display names are left out.                               *)
(***************************************************************************)
EXTENDS Naturals, FiniteSets

CONSTANTS
  Users,      \* user names
  Default,    \* the name "admin" of the account reset-password creates
  Others,     \* the roles besides "admin"
  Reqs        \* slots for requests in flight

ASSUME DefaultAssumption == Default \in Users
ASSUME OthersAssumption == "admin" \notin Others /\ "" \notin Others
ASSUME UsersAssumption == IsFiniteSet(Users)

VARIABLES
  kind,    \* "absent", "live" or "deleted" (deleted_at is set)
  role,    \* column role
  active,  \* column is_active
  req,     \* requests in flight
  setUp,   \* history: an administrator was created
  stale,   \* history: requests in flight while another one took an admin away
  moved,   \* history: requests whose target changed after they read it
  dirty    \* history: a stale request took an admin away

vars == <<kind, role, active, req, setUp, stale, moved, dirty>>
row == <<kind, role, active>>

Roles == {"admin"} \cup Others
Steps == {"idle", "read", "count", "write"}
Ops == {"create", "update", "delete", "toggle"}

\* The body of a request: an empty role and a missing is_active keep the old
\* value; reads are what an update found in the row of its target.
ReqType == [pc : Steps, op : Ops, actor : Users, target : Users,
            askRole : Roles \cup {""}, askActive : {"keep", "on", "off"},
            oldRole : Roles, oldActive : BOOLEAN]

Idle == [pc |-> "idle", op |-> "create", actor |-> Default, target |-> Default,
         askRole |-> "", askActive |-> "keep", oldRole |-> "admin",
         oldActive |-> TRUE]

TypeOK ==
  /\ kind \in [Users -> {"absent", "live", "deleted"}]
  /\ role \in [Users -> Roles]
  /\ active \in [Users -> BOOLEAN]
  /\ req \in [Reqs -> ReqType]
  /\ setUp \in BOOLEAN
  /\ stale \in SUBSET Reqs
  /\ moved \in SUBSET Reqs
  /\ dirty \in BOOLEAN

Init ==
  /\ kind = [u \in Users |-> "absent"]
  /\ role = [u \in Users |-> "admin"]
  /\ active = [u \in Users |-> FALSE]
  /\ req = [r \in Reqs |-> Idle]
  /\ setUp = FALSE
  /\ stale = {}
  /\ moved = {}
  /\ dirty = FALSE

-----------------------------------------------------------------------------
(* Reading the table.                                                      *)

userByID(u) == kind[u] = "live"
Admin(u) == kind[u] = "live" /\ role[u] = "admin"
ActiveAdmin(u) == Admin(u) /\ active[u]
adminCount == Cardinality({ u \in Users : Admin(u) })
activeAdminCount == Cardinality({ u \in Users : ActiveAdmin(u) })

InFlight == { r \in Reqs : req[r].pc # "idle" }
At(r, pc, op) == req[r].pc = pc /\ req[r].op = op
Self(r) == req[r].target = req[r].actor

\* What an update writes: the body, completed from the row it read.
NewRole(q) == IF q.askRole = "" THEN q.oldRole ELSE q.askRole
\* Mutant: a missing is_active enables the user.
NewActiveDefaultOn(q) == q.askActive # "off"
NewActive(q) ==
  IF q.askActive = "keep" THEN q.oldActive ELSE q.askActive = "on"

-----------------------------------------------------------------------------
(* The middleware admits a request whose user is there, active and, for    *)
(* the handlers below, an administrator; what it read is not read again.   *)

\* Mutant: a disabled user keeps the access.
authorizeRequestDisabled(u) == userByID(u)
authorizeRequest(u) == userByID(u) /\ active[u]
requireAdmin(u) == role[u] = "admin"

Bodies(op) ==
  CASE op = "create" -> [role : Roles, active : {"keep"}]
    [] op = "update" -> [role : Roles \cup {""}, active : {"keep", "on", "off"}]
    [] OTHER         -> [role : {""}, active : {"keep"}]

Admit(r, u, op, t) ==
  /\ req[r].pc = "idle"
  /\ authorizeRequest(u) /\ requireAdmin(u)
  /\ \E b \in Bodies(op) :
       req' = [req EXCEPT ![r] =
                 [pc |-> IF op = "create" THEN "write" ELSE "read",
                  op |-> op, actor |-> u, target |-> t,
                  askRole |-> b.role, askActive |-> b.active,
                  oldRole |-> "admin", oldActive |-> TRUE]]
  /\ UNCHANGED <<row, setUp, stale, moved, dirty>>

(***************************************************************************)
(* The read of the target: the request is answered with an error, goes on  *)
(* to the count that guards the last admin, or goes straight to its write. *)
(***************************************************************************)
Finish(r) ==
  /\ req' = [req EXCEPT ![r] = Idle]
  /\ stale' = stale \ {r}
  /\ moved' = moved \ {r}
  /\ UNCHANGED <<row, setUp, dirty>>

Continue(r, counts) ==
  LET t == req[r].target IN
  /\ req' = [req EXCEPT ![r] =
               [pc |-> IF counts THEN "count" ELSE "write",
                op |-> req[r].op, actor |-> req[r].actor, target |-> t,
                askRole |-> req[r].askRole, askActive |-> req[r].askActive,
                oldRole |-> role[t], oldActive |-> active[t]]]
  /\ UNCHANGED <<row, setUp, stale, moved, dirty>>

\* The row an update would write, had it read the target now.
AskedRole(r) ==
  IF req[r].askRole = "" THEN role[req[r].target] ELSE req[r].askRole
AskedActive(r) ==
  IF req[r].askActive = "keep" THEN active[req[r].target]
                               ELSE req[r].askActive = "on"

UpdateReads(r) ==
  LET t == req[r].target IN
  /\ At(r, "read", "update")
  /\ IF ~ userByID(t) \/ (Self(r) /\ (AskedRole(r) # role[t] \/ ~ AskedActive(r)))
       THEN Finish(r)
       ELSE Continue(r, role[t] = "admin"
                          /\ (~ AskedActive(r) \/ AskedRole(r) # "admin"))

\* Mutant: an administrator may delete the own account.
DeleteReadsSelf(r) ==
  LET t == req[r].target IN
  /\ At(r, "read", "delete")
  /\ IF ~ userByID(t) THEN Finish(r) ELSE Continue(r, role[t] = "admin")
DeleteReads(r) ==
  LET t == req[r].target IN
  /\ At(r, "read", "delete")
  /\ IF Self(r) \/ ~ userByID(t) THEN Finish(r)
                                 ELSE Continue(r, role[t] = "admin")
ToggleReads(r) ==
  LET t == req[r].target IN
  /\ At(r, "read", "toggle")
  /\ IF ~ userByID(t) \/ Self(r) THEN Finish(r)
                                 ELSE Continue(r, role[t] = "admin" /\ active[t])

\* The last-admin guard; the delete handler counts disabled admins as well.
Counts(r) ==
  /\ req[r].pc = "count"
  /\ LET n == IF req[r].op = "delete" THEN adminCount ELSE activeAdminCount IN
     IF n <= 1
       THEN Finish(r)
       ELSE /\ req' = [req EXCEPT ![r] =
                         [pc |-> "write", op |-> req[r].op,
                          actor |-> req[r].actor, target |-> req[r].target,
                          askRole |-> req[r].askRole,
                          askActive |-> req[r].askActive,
                          oldRole |-> req[r].oldRole,
                          oldActive |-> req[r].oldActive]]
            /\ UNCHANGED <<row, setUp, stale, moved, dirty>>

-----------------------------------------------------------------------------
(* The writes name the row by its id only: not deleted_at, not what the    *)
(* request read.                                                           *)

\* The users the step takes the rule away from.
Taken == { u \in Users : ActiveAdmin(u) /\ ~ ActiveAdmin(u)' }

Commit(r) ==
  LET t == req[r].target IN
  /\ req' = [req EXCEPT ![r] = Idle]
  /\ stale' = (IF Taken # {} THEN stale \cup InFlight ELSE stale) \ {r}
  /\ moved' = (moved \cup { q \in InFlight : req[q].target = t
                                          /\ req[q].pc # "read" }) \ {r}
  /\ dirty' = (dirty \/ (Taken # {} /\ r \in stale))
  /\ UNCHANGED setUp

CreateWrites(r) ==
  /\ At(r, "write", "create")
  /\ kind[req[r].target] = "absent"
  /\ kind' = [kind EXCEPT ![req[r].target] = "live"]
  /\ role' = [role EXCEPT ![req[r].target] = req[r].askRole]
  /\ active' = [active EXCEPT ![req[r].target] = TRUE]
  /\ Commit(r)

UpdateWrites(r) ==
  /\ At(r, "write", "update")
  /\ role' = [role EXCEPT ![req[r].target] = NewRole(req[r])]
  /\ active' = [active EXCEPT ![req[r].target] = NewActive(req[r])]
  /\ UNCHANGED kind
  /\ Commit(r)

DeleteWrites(r) ==
  /\ At(r, "write", "delete")
  /\ kind' = [kind EXCEPT ![req[r].target] = "deleted"]
  /\ UNCHANGED <<role, active>>
  /\ Commit(r)

ToggleWrites(r) ==
  /\ At(r, "write", "toggle")
  /\ active' = [active EXCEPT ![req[r].target] = ~ active[req[r].target]]
  /\ UNCHANGED <<kind, role>>
  /\ Commit(r)

\* The database refuses the statement, for a create also because the name is
\* taken.
WriteFails(r) == req[r].pc = "write" /\ Finish(r)

-----------------------------------------------------------------------------
(* The set-up wizard and the command line.                                 *)

createOrUpdateAdmin(u) ==
  /\ kind' = [kind EXCEPT ![u] = "live"]
  /\ role' = [role EXCEPT ![u] = "admin"]
  /\ active' = [active EXCEPT ![u] = TRUE]
  /\ setUp' = TRUE
  /\ UNCHANGED <<req, stale, moved, dirty>>

\* msf reset-password only touches passwords unless there is no admin at all.
ResetAdminPassword ==
  /\ adminCount = 0
  /\ kind[Default] = "absent"
  /\ createOrUpdateAdmin(Default)

Handler(r) ==
  \/ \E u, t \in Users, op \in Ops : Admit(r, u, op, t)
  \/ UpdateReads(r) \/ DeleteReads(r) \/ ToggleReads(r) \/ Counts(r)
  \/ CreateWrites(r) \/ UpdateWrites(r) \/ DeleteWrites(r) \/ ToggleWrites(r)
  \/ WriteFails(r)

Next ==
  \/ \E r \in Reqs : Handler(r)
  \/ \E u \in Users : createOrUpdateAdmin(u)
  \/ ResetAdminPassword

Spec == Init /\ [][Next]_vars

-----------------------------------------------------------------------------
(* Properties.                                                             *)

SomeoneRules == \E u \in Users : ActiveAdmin(u)

\* An installation that was set up never runs out of active administrators, as
\* long as no request took one away after another request, running at the same
\* time, had taken one: the guards of handleUpdateUser, handleDeleteUser and
\* handleToggleUser are enough one request at a time.
AdminRemains == setUp /\ ~ dirty => SomeoneRules

\* The last active admin is never disabled, demoted or deleted, as the three
\* handlers answer (handlers_users.go:159, 189 and 250).
LastAdminKept == setUp => SomeoneRules

\* A user that was disabled comes back only when a request asks for it (a
\* toggle, is_active true, the set-up wizard) or when the row changed between
\* the read and the write of an update, which then writes the old value back.
DisableHolds ==
  [][\A u \in Users :
       userByID(u) /\ ~ active[u] /\ active'[u] =>
         \/ \E r \in Reqs : /\ req[r].pc = "write" /\ req'[r] = Idle
                            /\ req[r].target = u
                            /\ \/ req[r].op = "toggle"
                               \/ req[r].askActive = "on"
                               \/ r \in moved
         \/ UNCHANGED req]_vars

(***************************************************************************)
(* The inductive invariant behind AdminRemains: the actor of a request     *)
(* that is not stale is an active admin, and its write leaves the actor    *)
(* alone.                                                                  *)
(***************************************************************************)
ActorsRule ==
  \A r \in Reqs : r \in InFlight /\ r \notin stale => ActiveAdmin(req[r].actor)

SelfIsHarmless ==
  \A r \in Reqs :
    req[r].pc \in {"count", "write"} /\ Self(r) /\ r \notin stale =>
      /\ req[r].op \in {"create", "update"}
      /\ req[r].op = "update" => /\ NewRole(req[r]) = "admin"
                                 /\ NewActive(req[r])

\* A create carries a role: an empty one became "operator" (handlers_users.go:86).
CreateAsksRole == \A r \in Reqs : req[r].op = "create" /\ req[r].pc # "idle" =>
                                    req[r].askRole \in Roles

IInv == TypeOK /\ ActorsRule /\ SelfIsHarmless /\ CreateAsksRole /\ AdminRemains
=============================================================================
