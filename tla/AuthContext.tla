----------------------------- MODULE AuthContext -----------------------------
(***************************************************************************)
(* What a browser tab knows of the session (web/src/lib/auth.tsx) and the  *)
(* routes it may show (web/src/App.tsx), as operators on the value of the  *)
(* React context.  WebSession and SetupWizard are built on them.           *)
(***************************************************************************)
CONSTANT NoUser   \* user = null

\* useState of AuthProvider: a page that was just loaded.
FreshContext ==
  [loading |-> TRUE, initialized |-> FALSE, recovery |-> FALSE,
   missing |-> {}, user |-> NoUser]

\* refresh(): before the first await.
RefreshStarts(c) == [c EXCEPT !.loading = TRUE]

\* refresh(): the answer of /setup/check.  The server reports missing
\* components only when it is initialised.
CheckKnown(c, ready, gone) ==
  [c EXCEPT !.initialized = ready,
            !.recovery = ready /\ gone # {},
            !.missing = IF ready THEN gone ELSE {}]

\* refresh(): its end, with the user found or with none.
RefreshEnds(c, u) == [c EXCEPT !.user = u, !.loading = FALSE]

\* refresh(): catch and finally.
RefreshFails(c) == [FreshContext EXCEPT !.loading = FALSE]

LoggedIn(c, u) ==
  [c EXCEPT !.user = u, !.initialized = TRUE, !.recovery = FALSE,
            !.missing = {}]

\* logout() and the event msf-auth-expired.
SessionGone(c) == [c EXCEPT !.user = NoUser]

-----------------------------------------------------------------------------
(* The routes: "/setup", "/login", and the protected ones.                 *)

RequireReady(c, route) ==
  IF c.loading THEN route
  ELSE IF ~c.initialized THEN "/setup"
  ELSE IF c.user = NoUser THEN "/login" ELSE route

PublicOnly(c) ==
  IF c.loading THEN "/login"
  ELSE IF ~c.initialized THEN "/setup"
  ELSE IF c.user # NoUser THEN "/" ELSE "/login"

\* The effect of SetupPage that leaves it.
LeaveSetup(c) ==
  IF c.loading \/ ~c.initialized \/ c.recovery THEN "/setup"
  ELSE IF c.user # NoUser THEN "/" ELSE "/login"

\* Where the router ends up when it is asked for a route.
Shows(c, route) ==
  CASE route = "/setup" -> LeaveSetup(c)
    [] route = "/login" -> PublicOnly(c)
    [] OTHER            -> RequireReady(c, route)

\* The Splash of the guards hides the page while the context loads.
Splash(c, route) == c.loading /\ route # "/setup"
=============================================================================
