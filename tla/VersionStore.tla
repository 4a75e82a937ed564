---------------------------- MODULE VersionStore ----------------------------
(***************************************************************************)
(* What the configuration editor promises its users: a file may change in  *)
(* any way, but the version it loses was put into the history before, and  *)
(* the history only grows.  The promise is void for a path once something  *)
(* named by the detailed module happened to it (exposed).                  *)
(***************************************************************************)
CONSTANTS
  Paths,      \* configuration files
  Values,     \* what a file can be: a version, missing, cut short
  Worthless   \* the values nobody wants back

VARIABLES
  current,    \* the value of each file
  kept,       \* the versions of it the history holds
  exposed,    \* paths without the promise
  seen        \* history: every value the file ever had

vars == <<current, kept, exposed, seen>>

Init ==
  /\ current \in [Paths -> Values]
  /\ kept \in [Paths -> SUBSET Values]
  /\ exposed = {}
  /\ seen = [p \in Paths |-> {current[p]}]

Change ==
  /\ current' \in [Paths -> Values]
  /\ kept' \in [Paths -> SUBSET Values]
  /\ exposed' \in SUBSET Paths
  /\ exposed \subseteq exposed'
  /\ \A p \in Paths :
       /\ kept[p] \subseteq kept'[p]
       /\ current'[p] # current[p] /\ p \notin exposed' =>
            current[p] \in kept[p] \cup Worthless
  /\ seen' = [p \in Paths |-> seen[p] \cup {current'[p]}]

Spec == Init /\ [][Change]_vars

\* Every version a file ever had is in the file or in its history.
NothingLost ==
  \A p \in Paths \ exposed :
    seen[p] \subseteq kept[p] \cup {current[p]} \cup Worthless
=============================================================================
