----------------------------- MODULE WebSession ------------------------------
(***************************************************************************)
(* The session of the web interface: browser tabs that share one token in  *)
(* localStorage (web/src/lib/api.ts), each with its own idea of who is     *)
(* logged in (web/src/lib/auth.tsx), and a server that issues and forgets  *)
(* tokens (internal/server/auth.go).                                       *)
(*                                                                         *)
(* A call is sent with the token stored at that moment, served, and its    *)
(* answer is read later: calls of one tab and of several tabs overtake     *)
(* each other.  No tab listens to the storage of another one.              *)
(***************************************************************************)
EXTENDS Naturals, FiniteSets, AuthContext

CONSTANTS
  Tabs,      \* browser tabs
  Slots,     \* slots for calls in flight
  SlotsOf,   \* the slots each tab uses
  Names,     \* user names
  MaxTokens  \* bound: logins the server answers

ASSUME NoUserAssumption == NoUser \notin Names
ASSUME TokenAssumption == MaxTokens \in Nat
ASSUME SlotsAssumption == SlotsOf \in [Tabs -> SUBSET Slots]

VARIABLES
  store,   \* localStorage: the token, 0 when there is none
  owner,   \* the server: the user of each token it issued
  live,    \* the server: tokens it accepts
  ready,   \* the server: is_initialized
  tab,     \* each tab: context, route and whether the login form is busy
  call,    \* each tab: its calls in flight
  writer   \* history: the tab that wrote the storage last

vars == <<store, owner, live, ready, tab, call, writer>>
server == <<owner, live, ready>>

Tokens == 1..MaxTokens
issued == { k \in Tokens : owner[k] # NoUser }
\* A protected page that asks the server every few seconds (useApiQuery with
\* an interval), and the two public ones.
Routes == {"/", "/login", "/setup"}
Kinds == {"idle", "check", "me", "login", "poll"}
Answers == {"none", "ok", "unset", "denied"}

Context == [loading : BOOLEAN, initialized : BOOLEAN, recovery : BOOLEAN,
            missing : {{}}, user : Names \cup {NoUser}]
Call == [kind : Kinds, tok : Tokens \cup {0}, who : Names \cup {NoUser},
         ans : Answers]
NoCall == [kind |-> "idle", tok |-> 0, who |-> NoUser, ans |-> "none"]

TypeOK ==
  /\ store \in Tokens \cup {0}
  /\ owner \in [Tokens -> Names \cup {NoUser}]
  /\ live \subseteq issued
  /\ ready \in BOOLEAN
  /\ tab \in [Tabs -> [ctx : Context, route : Routes, busy : BOOLEAN]]
  /\ call \in [Tabs -> [Slots -> Call]]
  /\ writer \in Tabs

Init ==
  /\ store = 0
  /\ owner = [k \in Tokens |-> NoUser]
  /\ live = {}
  /\ ready \in BOOLEAN
  /\ tab = [t \in Tabs |-> [ctx |-> RefreshStarts(FreshContext),
                            route |-> "/", busy |-> FALSE]]
  /\ call = [t \in Tabs |-> [s \in Slots |-> NoCall]]
  /\ writer \in Tabs

-----------------------------------------------------------------------------
(* Helpers.                                                                *)

Waiting(t, s, kind) == call[t][s].kind = kind /\ call[t][s].ans = "none"

\* What a call returns with: its answer, or an error when the request or the
\* answer is lost.
Outcomes(t, s) == ({call[t][s].ans} \ {"none"}) \cup {"failed"}
Returns(t, s, kind, a) == call[t][s].kind = kind /\ a \in Outcomes(t, s)

\* api(): the request leaves with the token of this moment; skipAuth calls
\* carry none.
Sent(kind, tok, u) == [NoCall EXCEPT !.kind = kind, !.tok = tok, !.who = u]

\* A tab gets a new context: the guards of its route act at once.
Shown(t, c, route) == [tab EXCEPT ![t].ctx = c, ![t].route = Shows(c, route)]

\* api(): a 401 clears the storage, whichever token was sent, and tells the
\* context of this tab.
\* Mutant: the context hears nothing of a 401.
HearsNothing(a, c) == c
Hears(a, c) == IF a = "denied" THEN SessionGone(c) ELSE c
StoreAfter(a) == IF a = "denied" THEN 0 ELSE store
WriterAfter(t, a) == IF a = "denied" THEN t ELSE writer

-----------------------------------------------------------------------------
(* A tab.                                                                  *)

\* The page is loaded, or loaded again: calls in flight are given up, the
\* context is fresh and refresh() has asked /setup/check.
Load(t, s) ==
  /\ s \in SlotsOf[t]
  /\ tab' = [tab EXCEPT ![t] = [ctx |-> RefreshStarts(FreshContext),
                                route |-> tab[t].route, busy |-> FALSE]]
  /\ call' = [call EXCEPT ![t] = [[x \in Slots |-> NoCall]
                                    EXCEPT ![s] = Sent("check", 0, NoUser)]]
  /\ UNCHANGED <<store, server, writer>>

\* A link, or the back button: the login form that is mounted again is idle.
Visit(t, r) ==
  /\ tab' = [Shown(t, tab[t].ctx, r) EXCEPT ![t].busy = FALSE]
  /\ tab' # tab
  /\ UNCHANGED <<store, server, call, writer>>

\* refresh(): the answer of /setup/check, and the next call when a token is
\* stored now.
CheckReturns(t, s, a) ==
  /\ Returns(t, s, "check", a)
  /\ LET c == CheckKnown(tab[t].ctx, a = "ok", {})
         asks == a = "ok" /\ store # 0
     IN /\ tab' = Shown(t, CASE a = "failed" -> RefreshFails(c)
                             [] asks         -> c
                             [] OTHER        -> RefreshEnds(c, NoUser),
                        tab[t].route)
        /\ call' = [call EXCEPT ![t][s] =
                      IF asks THEN Sent("me", store, NoUser) ELSE NoCall]
  /\ UNCHANGED <<store, server, writer>>

\* refresh(): the answer of /auth/me; any error ends in its catch.
MeReturns(t, s, a) ==
  /\ Returns(t, s, "me", a)
  /\ tab' = Shown(t, IF a = "ok"
                     THEN RefreshEnds(tab[t].ctx, owner[call[t][s].tok])
                     ELSE RefreshFails(tab[t].ctx), tab[t].route)
  /\ store' = StoreAfter(a)
  /\ writer' = WriterAfter(t, a)
  /\ call' = [call EXCEPT ![t][s] = NoCall]
  /\ UNCHANGED server

\* The login form.
Submit(t, s, u) ==
  /\ s \in SlotsOf[t]
  /\ tab[t].route = "/login" /\ ~Splash(tab[t].ctx, tab[t].route)
  /\ ~tab[t].busy
  /\ call[t][s] = NoCall
  /\ call' = [call EXCEPT ![t][s] = Sent("login", 0, u)]
  /\ tab' = [tab EXCEPT ![t].busy = TRUE]
  /\ UNCHANGED <<store, server, writer>>

LoginReturns(t, s, a) ==
  /\ Returns(t, s, "login", a)
  /\ IF a = "ok"
     THEN /\ store' = call[t][s].tok
          /\ writer' = t
          /\ tab' = [Shown(t, LoggedIn(tab[t].ctx, call[t][s].who), "/")
                       EXCEPT ![t].busy = FALSE]
     ELSE /\ store' = StoreAfter(a)
          /\ writer' = WriterAfter(t, a)
          /\ tab' = [Shown(t, Hears(a, tab[t].ctx), tab[t].route)
                       EXCEPT ![t].busy = FALSE]
  /\ call' = [call EXCEPT ![t][s] = NoCall]
  /\ UNCHANGED server

\* Mutant: a tab without a stored token does not ask any more.
AskSigned(t, s) ==
  /\ s \in SlotsOf[t] /\ store # 0
  /\ call[t][s] = NoCall
  /\ tab[t].route \notin {"/login", "/setup"}
  /\ ~Splash(tab[t].ctx, tab[t].route)
  /\ call' = [call EXCEPT ![t][s] = Sent("poll", store, NoUser)]
  /\ UNCHANGED <<store, server, tab, writer>>
\* Any call of a protected page.  One that fails for another reason than a 401
\* leaves the session alone and is asked again: that failure is left out.
Ask(t, s) ==
  /\ s \in SlotsOf[t]
  /\ call[t][s] = NoCall
  /\ tab[t].route \notin {"/login", "/setup"}
  /\ ~Splash(tab[t].ctx, tab[t].route)
  /\ call' = [call EXCEPT ![t][s] = Sent("poll", store, NoUser)]
  /\ UNCHANGED <<store, server, tab, writer>>

AskRefused(t, s) ==
  /\ call[t][s].kind = "poll" /\ call[t][s].ans = "denied"
  /\ store' = StoreAfter("denied")
  /\ writer' = WriterAfter(t, "denied")
  /\ tab' = Shown(t, Hears("denied", tab[t].ctx), tab[t].route)
  /\ call' = [call EXCEPT ![t][s] = NoCall]
  /\ UNCHANGED server

\* The menu of the header: logout() and the way to the login page.
Logout(t) ==
  /\ tab[t].route \notin {"/login", "/setup"}
  /\ ~Splash(tab[t].ctx, tab[t].route)
  /\ store' = 0
  /\ writer' = t
  /\ tab' = Shown(t, SessionGone(tab[t].ctx), "/login")
  /\ UNCHANGED <<server, call>>

-----------------------------------------------------------------------------
(* The server.                                                             *)

Answer(t, s, a) ==
  /\ call[t][s].ans = "none"
  /\ call' = [call EXCEPT ![t][s].ans = a]

ServeCheck(t, s) ==
  /\ Waiting(t, s, "check")
  /\ Answer(t, s, IF ready THEN "ok" ELSE "unset")
  /\ UNCHANGED <<store, server, tab, writer>>

\* The middleware: a call without a token the server accepts gets a 401.
ServeMe(t, s) ==
  /\ Waiting(t, s, "me")
  /\ Answer(t, s, IF call[t][s].tok \in live THEN "ok" ELSE "denied")
  /\ UNCHANGED <<store, server, tab, writer>>

\* Only a refusal of another call concerns the session.
ServeAsked(t, s) ==
  /\ Waiting(t, s, "poll")
  /\ call' = [call EXCEPT ![t][s] = IF call[t][s].tok \in live THEN NoCall
                                   ELSE [@ EXCEPT !.ans = "denied"]]
  /\ UNCHANGED <<store, server, tab, writer>>

ServeLogin(t, s) ==
  /\ Waiting(t, s, "login")
  /\ \/ Answer(t, s, "denied") /\ UNCHANGED server   \* wrong password
     \/ \E k \in Tokens :
          /\ issued = 1..(k - 1)
          /\ owner' = [owner EXCEPT ![k] = call[t][s].who]
          /\ live' = live \cup {k}
          /\ call' = [call EXCEPT ![t][s].ans = "ok", ![t][s].tok = k]
          /\ UNCHANGED ready
  /\ UNCHANGED <<store, tab, writer>>

\* A token ends after a day, or with its user.
Expire(k) ==
  /\ k \in live
  /\ live' = live \ {k}
  /\ UNCHANGED <<store, owner, ready, tab, call, writer>>

\* Another client completes the set-up.
SetUp ==
  /\ ~ready
  /\ ready' = TRUE
  /\ UNCHANGED <<store, owner, live, tab, call, writer>>

-----------------------------------------------------------------------------

TabStep(t) ==
  \/ Logout(t)
  \/ \E r \in Routes : Visit(t, r)
  \/ \E s \in Slots :
       \/ Load(t, s) \/ Ask(t, s) \/ AskRefused(t, s)
       \/ \E u \in Names : Submit(t, s, u)
       \/ \E a \in Answers \cup {"failed"} :
            \/ CheckReturns(t, s, a) \/ MeReturns(t, s, a)
            \/ LoginReturns(t, s, a)

ServerStep ==
  \/ SetUp
  \/ \E k \in Tokens : Expire(k)
  \/ \E t \in Tabs, s \in Slots :
       ServeCheck(t, s) \/ ServeMe(t, s) \/ ServeAsked(t, s) \/ ServeLogin(t, s)

Next == ServerStep \/ \E t \in Tabs : TabStep(t)

Spec == Init /\ [][Next]_vars

\* A protected page asks again and again, and is answered.
Polls(t, s) == Ask(t, s) \/ ServeAsked(t, s) \/ AskRefused(t, s)

-----------------------------------------------------------------------------
(* Properties.                                                             *)

\* The tab that wrote the shared storage last is right about the session: the
\* user it shows is the owner of the token its next call will carry, whatever
\* answers of older calls arrive late and whatever other tabs did before
\* (api.ts clears the storage and fires msf-auth-expired in the same step;
\* auth.tsx sets user and token together).
SessionAgrees ==
  tab[writer].ctx.user # NoUser =>
    store \in issued /\ owner[store] = tab[writer].ctx.user

\* A tab that still shows a user after another tab logged out, or after its own
\* session was refused elsewhere, learns of it by asking: it shows nobody in
\* the end unless somebody logs in again (api.ts:79, use-api.ts:47).
LogoutSpreads ==
  \A t \in Tabs :
    (tab[t].ctx.user # NoUser /\ store = 0) ~>
      (tab[t].ctx.user = NoUser \/ store # 0)
=============================================================================
