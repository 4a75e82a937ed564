---------------------------- MODULE UsersConsole -----------------------------
(***************************************************************************)
(* The users page (web/src/app/users/page.tsx and components/users/        *)
(* UserDialogs.tsx). The list is read under the filters; the lock button   *)
(* and the edit dialog both send a whole record, built from the row the     *)
(* page has. Of a record two fields are kept, the role and is_active; what *)
(* the server allows is in UserAccounts.                                   *)
(***************************************************************************)
EXTENDS Naturals

CONSTANTS
  People,      \* the users followed
  FirstUser,   \* id "1", which the page does not let anyone delete
  PeopleRoles, \* roles
  Calls,       \* writes in flight
  ListSlots    \* reads of the list in flight

ASSUME PeopleAssumption == People # {} /\ PeopleRoles # {} /\ "none" \notin PeopleRoles

Person == [role : PeopleRoles, on : BOOLEAN]
Gone == [role |-> "none", on |-> FALSE]
Rows == Person \cup {Gone}

VARIABLES
  people,   \* the table of the server
  rows,     \* users: the list as last read
  filter,   \* status: the filter
  lists,    \* reads of the list
  udialog,  \* the dialog that is open, with the row it was opened on
  calls,    \* writes in flight
  wanted,   \* history: the last role and is_active asked for, until hasty
  hasty     \* history: a record was built from a row that was not current

peoplevars == <<people, rows, filter, lists, udialog, calls, wanted, hasty>>

\* The search and the filter on roles act as the one on the state.
Filters == {"all", "active"}
DialogKinds == {"none", "create", "edit", "reset", "delete"}
\* what: create, edit, toggle, delete, reset; rec: what is sent.
Call == [at : {"idle", "sent", "back"}, what : (DialogKinds \ {"none"}) \cup {"toggle"},
         who : People, rec : Person]
SomePerson == [role |-> CHOOSE r \in PeopleRoles : TRUE, on |-> TRUE]
SomeOne == CHOOSE p \in People : TRUE
NoCall == [at |-> "idle", what |-> "reset", who |-> SomeOne, rec |-> SomePerson]
NoDialog == [kind |-> "none", who |-> SomeOne, row |-> SomePerson]
ListRead == [at : {"idle", "sent", "back"}, under : Filters, got : [People -> Rows]]
NoRows == [p \in People |-> Gone]
NoList == [at |-> "idle", under |-> "all", got |-> NoRows]

UsersTypeOK ==
  /\ people \in [People -> Rows] /\ rows \in [People -> Rows]
  /\ filter \in Filters
  /\ lists \in [ListSlots -> ListRead]
  /\ udialog \in [kind : DialogKinds, who : People, row : Person]
  /\ calls \in [Calls -> Call]
  /\ wanted \in [People -> Rows] /\ hasty \in BOOLEAN

-----------------------------------------------------------------------------
(* The list.                                                               *)

\* The same condition on the server and in the page (filtered).
Passes(row, under) ==
  row # Gone /\ (under = "all" \/ row.on)
ListOf(table, under) == [p \in People |-> IF Passes(table[p], under) THEN table[p] ELSE Gone]

FreeList(l) == lists[l].at = "idle" /\ l = CHOOSE x \in ListSlots : lists[x].at = "idle"
ReadsList(l, under) == lists' = [lists EXCEPT ![l] = [NoList EXCEPT !.at = "sent", !.under = under]]

UsersInit ==
  /\ people \in [People -> Rows]
  /\ rows = NoRows /\ filter = "all"
  /\ lists = [l \in ListSlots |-> IF l = CHOOSE x \in ListSlots : TRUE
                                  THEN [NoList EXCEPT !.at = "sent"] ELSE NoList]
  /\ udialog = NoDialog
  /\ calls = [c \in Calls |-> NoCall]
  /\ wanted = people /\ hasty = FALSE

\* A filter is changed, which reads the list again; so does a write.
SetFilter(l, under) ==
  /\ under # filter /\ filter' = under
  /\ FreeList(l) /\ ReadsList(l, under)
  /\ UNCHANGED <<people, rows, udialog, calls, wanted, hasty>>

ListAnswers(l) ==
  /\ lists[l].at = "sent"
  /\ lists' = [lists EXCEPT ![l].at = "back", ![l].got = ListOf(people, lists[l].under)]
  /\ UNCHANGED <<people, rows, filter, udialog, calls, wanted, hasty>>

\* The last answer wins, whichever filter it was read under.
ListShown(l) ==
  /\ lists[l].at = "back"
  /\ rows' = lists[l].got
  /\ lists' = [lists EXCEPT ![l] = NoList]
  /\ UNCHANGED <<people, filter, udialog, calls, wanted, hasty>>

ListFails(l) ==
  /\ lists[l].at = "sent"
  /\ lists' = [lists EXCEPT ![l] = NoList]
  /\ UNCHANGED <<people, rows, filter, udialog, calls, wanted, hasty>>

-----------------------------------------------------------------------------
(* The cards and the dialogs.                                              *)

Visible(p) == Passes(rows[p], filter)
Current(p) == rows[p] = people[p] /\ \A c \in Calls : calls[c].at = "sent" => calls[c].who # p

\* A dialog covers the page; the buttons of a card open it with the card's row.
AskDialog(kind, p) ==
  /\ udialog.kind = "none"
  /\ \/ kind = "create" /\ p = SomeOne /\ udialog' = [NoDialog EXCEPT !.kind = kind]
     \/ /\ kind \in {"edit", "reset", "delete"} /\ Visible(p)
        /\ kind = "delete" => p # FirstUser
        /\ udialog' = [kind |-> kind, who |-> p,
                        row |-> IF kind = "edit" THEN rows[p] ELSE SomePerson]
  /\ UNCHANGED <<people, rows, filter, lists, calls, wanted, hasty>>

LeaveDialog ==
  /\ udialog.kind # "none" /\ udialog' = NoDialog
  /\ UNCHANGED <<people, rows, filter, lists, calls, wanted, hasty>>

FreeCall(c) == calls[c].at = "idle" /\ c = CHOOSE x \in Calls : calls[x].at = "idle"
SendsCall(c, what, p, rec) ==
  /\ FreeCall(c)
  /\ calls' = [calls EXCEPT ![c] = [at |-> "sent", what |-> what, who |-> p, rec |-> rec]]

\* The lock: the whole record of the row, with is_active turned.
ToggleActive(c, p) ==
  /\ udialog.kind = "none" /\ Visible(p)
  /\ SendsCall(c, "toggle", p, [rows[p] EXCEPT !.on = ~@])
  /\ hasty' = (hasty \/ ~Current(p))
  /\ UNCHANGED <<people, rows, filter, lists, udialog, wanted>>

\* Mutant: an edit enables the user.
EditEnables(role) == [role |-> role, on |-> TRUE]
\* The edit dialog sends is_active of the row it was opened on.
EditRecord(role) == [role |-> role, on |-> udialog.row.on]

\* A new user has an id of its own: nothing the page has names it.
NewId(p) ==
  /\ people[p] = Gone /\ rows[p] = Gone
  /\ \A l \in ListSlots : lists[l].got[p] = Gone
  /\ \A c \in Calls : calls[c].at # "idle" => calls[c].who # p

\* The button of a dialog; the dialog stays until the answer.
Submit(c, role) ==
  /\ \/ udialog.kind = "edit" /\ SendsCall(c, "edit", udialog.who, EditRecord(role))
     \/ /\ udialog.kind = "create"
        /\ \E p \in People : NewId(p) /\ SendsCall(c, "create", p, [role |-> role, on |-> TRUE])
     \/ udialog.kind \in {"reset", "delete"} /\ SendsCall(c, udialog.kind, udialog.who, SomePerson)
  /\ hasty' = (hasty \/ (udialog.kind = "edit" /\ (udialog.row # people[udialog.who] \/ ~Current(udialog.who))))
  /\ UNCHANGED <<people, rows, filter, lists, udialog, wanted>>

-----------------------------------------------------------------------------
(* The answers.                                                            *)

Refused(c) ==
  /\ calls[c].at = "sent"
  /\ calls' = [calls EXCEPT ![c] = NoCall]
  /\ UNCHANGED <<people, rows, filter, lists, udialog, wanted, hasty>>

\* An update replaces both fields; wanted takes the one the user meant.
Accepted(c) ==
  LET call == calls[c] p == call.who
      Becomes(row, meant) == /\ people' = [people EXCEPT ![p] = row]
                            /\ wanted' = [wanted EXCEPT ![p] = IF hasty THEN row ELSE meant]
  IN /\ call.at = "sent"
     /\ \/ call.what = "create" /\ people[p] = Gone /\ Becomes(call.rec, call.rec)
        \/ /\ call.what = "toggle" /\ people[p] # Gone
           /\ Becomes(call.rec, [wanted[p] EXCEPT !.on = call.rec.on])
        \/ /\ call.what = "edit" /\ people[p] # Gone
           /\ Becomes(call.rec, [wanted[p] EXCEPT !.role = call.rec.role])
        \/ call.what = "delete" /\ people[p] # Gone /\ Becomes(Gone, Gone)
        \/ call.what = "reset" /\ UNCHANGED <<people, wanted>>
     /\ calls' = [calls EXCEPT ![c] = [NoCall EXCEPT !.at = "back", !.what = call.what]]
     /\ UNCHANGED <<rows, filter, lists, udialog, hasty>>

\* The dialog of that kind is closed, whoever it is open on now, and all but a
\* password read the list again.
Done(c) ==
  /\ calls[c].at = "back"
  /\ udialog' = IF udialog.kind = calls[c].what THEN NoDialog ELSE udialog
  /\ IF calls[c].what = "reset" THEN UNCHANGED lists
     ELSE \E l \in ListSlots : FreeList(l) /\ ReadsList(l, filter)
  /\ calls' = [calls EXCEPT ![c] = NoCall]
  /\ UNCHANGED <<people, rows, filter, wanted, hasty>>

-----------------------------------------------------------------------------

UsersNext ==
  \/ \E l \in ListSlots :
       ListAnswers(l) \/ ListShown(l) \/ ListFails(l) \/ \E f \in Filters : SetFilter(l, f)
  \/ \E p \in People, k \in DialogKinds : AskDialog(k, p)
  \/ LeaveDialog
  \/ \E c \in Calls :
       \/ Refused(c) \/ Accepted(c) \/ Done(c)
       \/ \E p \in People : ToggleActive(c, p)
       \/ \E r \in PeopleRoles : Submit(c, r)

UsersSpec == UsersInit /\ [][UsersNext]_peoplevars

-----------------------------------------------------------------------------
(* Properties.                                                             *)

\* A user has the role and the state last asked for: an edit does not undo a
\* lock and a lock does not undo an edit, although both send the whole record,
\* unless one was built from a row that was not current, or while another
\* write to that user was on its way (page.tsx:387-403, 490-505).
LastWordStands == ~hasty => people = wanted
=============================================================================
