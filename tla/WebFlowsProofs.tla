---------------------------- MODULE WebFlowsProofs ----------------------------
(***************************************************************************)
(* Proofs about the parts of the interface that MCWebFlows puts side by    *)
(* side: the session of any number of tabs (WebSession), the proxies page  *)
(* (ProxyConsole), and the instance with the wizard (SetupWizardProofs).   *)
(***************************************************************************)
EXTENDS MCWebFlows, SetupWizardProofs

-----------------------------------------------------------------------------
(***************************************************************************)
(* WebSession: the tab that wrote the storage last is right about its user.*)
(*                                                                         *)
(* The dangerous answer is that of /auth/me, which names the owner of the  *)
(* token it was asked with.  While it is out its tab loads, so that this   *)
(* tab neither logs in nor out; if another tab wrote the storage since,    *)
(* that one is the last writer, and if none did the token is still there.  *)
(***************************************************************************)

Refreshing(c) == c.kind \in {"check", "me"}

CallOK(t, s) ==
  /\ Refreshing(call[t][s]) =>
       /\ tab[t].ctx.loading
       /\ \A x \in Slots : Refreshing(call[t][x]) => x = s
  /\ call[t][s].kind \in {"login", "poll"} => ~tab[t].ctx.loading
  /\ call[t][s].kind = "login" => call[t][s].who \in Names
  /\ call[t][s].kind = "me" /\ writer = t => store = call[t][s].tok
  /\ call[t][s].kind = "me" /\ call[t][s].ans = "ok" => call[t][s].tok \in issued
  /\ call[t][s].kind = "login" /\ call[t][s].ans = "ok" =>
       call[t][s].tok \in issued /\ owner[call[t][s].tok] = call[t][s].who

TabOK(t) ==
  /\ tab[t].ctx.loading => tab[t].ctx.user = NoUser
  /\ \A s \in Slots : CallOK(t, s)

SessionIInv == TypeOK /\ (\A t \in Tabs : TabOK(t)) /\ SessionAgrees

-----------------------------------------------------------------------------
(* The context and the routes.                                             *)

\* Each change of a context gives a context.
LEMMA CheckKnownTyped ==
  ASSUME NEW c \in Context, NEW r \in BOOLEAN
  PROVE  /\ CheckKnown(c, r, {}) \in Context
         /\ CheckKnown(c, r, {}).user = c.user
         /\ CheckKnown(c, r, {}).loading = c.loading
<1>1. (r /\ {} # {}) = FALSE /\ (IF r THEN {} ELSE {}) = {} OBVIOUS
<1>2. CheckKnown(c, r, {}) = [c EXCEPT !.initialized = r, !.recovery = FALSE, !.missing = {}]
  BY <1>1 DEF CheckKnown
<1> QED BY <1>2 DEF Context

LEMMA RefreshEndsTyped ==
  ASSUME NEW c \in Context, NEW u \in Names \cup {NoUser}
  PROVE  RefreshEnds(c, u) \in Context /\ RefreshEnds(c, u).user = u /\ RefreshEnds(c, u).loading = FALSE
BY DEF RefreshEnds, Context

LEMMA RefreshFailsTyped ==
  ASSUME NEW c
  PROVE  RefreshFails(c) \in Context /\ RefreshFails(c).user = NoUser /\ RefreshFails(c).loading = FALSE
BY DEF RefreshFails, FreshContext, Context

LEMMA LoggedInTyped ==
  ASSUME NEW c \in Context, NEW u \in Names
  PROVE  LoggedIn(c, u) \in Context /\ LoggedIn(c, u).user = u /\ LoggedIn(c, u).loading = c.loading
BY DEF LoggedIn, Context

LEMMA SessionGoneTyped ==
  ASSUME NEW c \in Context
  PROVE  SessionGone(c) \in Context /\ SessionGone(c).user = NoUser /\ SessionGone(c).loading = c.loading
BY DEF SessionGone, Context

\* The guards end at one of the routes (App.tsx:42-57).
LEMMA ShowsTyped == ASSUME NEW c \in Context, NEW r \in Routes PROVE Shows(c, r) \in Routes
<1>1. LeaveSetup(c) \in Routes BY DEF LeaveSetup, Routes
<1>2. PublicOnly(c) \in Routes BY DEF PublicOnly, Routes
<1>3. RequireReady(c, r) \in Routes BY DEF RequireReady, Routes
<1> QED BY <1>1, <1>2, <1>3 DEF Shows

\* A tab is given a context.
LEMMA ShownTyped ==
  ASSUME TypeOK, NEW t \in Tabs, NEW c \in Context, NEW r \in Routes
  PROVE  /\ Shown(t, c, r) \in [Tabs -> [ctx : Context, route : Routes, busy : BOOLEAN]]
         /\ Shown(t, c, r)[t].ctx = c
         /\ \A x \in Tabs \ {t} : Shown(t, c, r)[x] = tab[x]
<1>1. tab \in [Tabs -> [ctx : Context, route : Routes, busy : BOOLEAN]] BY DEF TypeOK
<1>2. Shows(c, r) \in Routes BY ShowsTyped
<1>3. Shown(t, c, r) = [tab EXCEPT ![t] = [[tab[t] EXCEPT !.ctx = c] EXCEPT !.route = Shows(c, r)]]
  BY <1>1 DEF Shown
<1>4. tab[t] \in [ctx : Context, route : Routes, busy : BOOLEAN] BY <1>1
<1>5. [[tab[t] EXCEPT !.ctx = c] EXCEPT !.route = Shows(c, r)] \in [ctx : Context, route : Routes, busy : BOOLEAN]
  BY <1>2, <1>4
<1>6. [[tab[t] EXCEPT !.ctx = c] EXCEPT !.route = Shows(c, r)].ctx = c
  BY <1>4
<1> QED BY <1>1, <1>3, <1>5, <1>6

\* One call of one tab changes.
LEMMA CallSet ==
  ASSUME TypeOK, NEW t \in Tabs, NEW s \in Slots, NEW c \in Call,
         call' = [call EXCEPT ![t][s] = c]
  PROVE  /\ call' \in [Tabs -> [Slots -> Call]]
         /\ call'[t][s] = c
         /\ \A x \in Slots \ {s} : call'[t][x] = call[t][x]
         /\ \A x \in Tabs \ {t} : call'[x] = call[x]
BY DEF TypeOK

LEMMA NoCallTyped == NoCall \in Call
BY DEF NoCall, Call, Kinds, Answers

\* The tabs that did nothing are as well off as before: only the tab that acted
\* may have become the last writer.
LEMMA OtherTabs ==
  ASSUME SessionIInv, NEW t \in Tabs,
         \A x \in Tabs \ {t} : tab'[x].ctx = tab[x].ctx /\ call'[x] = call[x],
         UNCHANGED owner,
         UNCHANGED <<store, writer>> \/ writer' = t
  PROVE  \A x \in Tabs \ {t} : TabOK(x)'
<1> SUFFICES ASSUME NEW x \in Tabs \ {t} PROVE TabOK(x)' OBVIOUS
<1>1. TabOK(x) BY DEF SessionIInv
<1>2. issued' = issued BY DEF issued
<1>3. tab'[x].ctx = tab[x].ctx /\ call'[x] = call[x] OBVIOUS
<1>4. writer' = x => UNCHANGED <<store, writer>> OBVIOUS
<1>5. ASSUME NEW s \in Slots PROVE CallOK(x, s)'
  <2>1. CallOK(x, s) BY <1>1 DEF TabOK
  <2> QED BY <2>1, <1>2, <1>3, <1>4 DEF CallOK, Refreshing
<1> QED BY <1>1, <1>3, <1>5 DEF TabOK

\* The last writer is another tab than the one that acted, and the storage and
\* the owners are as before.
LEMMA OthersAgree ==
  ASSUME SessionIInv, NEW t \in Tabs, UNCHANGED <<store, writer, owner>>,
         \A x \in Tabs \ {t} : tab'[x].ctx = tab[x].ctx,
         writer = t => tab'[t].ctx.user = NoUser \/ tab'[t].ctx.user = tab[t].ctx.user
  PROVE  SessionAgrees'
<1>1. issued' = issued BY DEF issued
<1>2. writer \in Tabs BY DEF SessionIInv, TypeOK
<1> QED BY <1>1, <1>2 DEF SessionIInv, SessionAgrees

\* A tab that shows nobody agrees with any storage.
LEMMA NobodyAgrees ==
  ASSUME NEW t \in Tabs, writer' = t, tab'[t].ctx.user = NoUser
  PROVE  SessionAgrees'
BY DEF SessionAgrees

\* With one call of the tab settled or replaced, the calls that go on are as
\* before while the context keeps its loading and the storage is not written.
LEMMA QuietCalls ==
  ASSUME SessionIInv, NEW t \in Tabs, NEW s \in Slots, NEW c \in Call,
         call' = [call EXCEPT ![t][s] = c], UNCHANGED owner,
         UNCHANGED <<store, writer>> \/ \A x \in Slots \ {s} : call[t][x].kind # "me",
         \/ tab'[t].ctx.loading = tab[t].ctx.loading
         \/ ~tab'[t].ctx.loading /\ Refreshing(call[t][s]),
         tab'[t].ctx.loading => tab'[t].ctx.user = NoUser,
         CallOK(t, s)'
  PROVE  TabOK(t)'
<1>1. TabOK(t) BY DEF SessionIInv
<1>2. issued' = issued BY DEF issued
<1>3. /\ call'[t][s] = c
      /\ \A x \in Slots \ {s} : call'[t][x] = call[t][x]
  <2>1. call \in [Tabs -> [Slots -> Call]] BY DEF SessionIInv, TypeOK
  <2> QED BY <2>1
<1>4. ASSUME NEW x \in Slots \ {s} PROVE CallOK(t, x)'
  <2>1. CallOK(t, x) /\ CallOK(t, s) BY <1>1 DEF TabOK
  <2>2. Refreshing(call[t][x]) => ~Refreshing(call[t][s])
    BY <2>1 DEF CallOK
  <2>3. Refreshing(call[t][x]) => ~Refreshing(c)
    BY <1>3 DEF CallOK, Refreshing
  <2>4. Refreshing(call[t][x]) => tab'[t].ctx.loading /\ \A y \in Slots : Refreshing(call'[t][y]) => y = x
    <3> SUFFICES ASSUME Refreshing(call[t][x]) PROVE tab'[t].ctx.loading /\ \A y \in Slots : Refreshing(call'[t][y]) => y = x
      OBVIOUS
    <3>1. tab'[t].ctx.loading BY <2>1, <2>2 DEF CallOK
    <3>2. \A y \in Slots : Refreshing(call[t][y]) => y = x BY <2>1 DEF CallOK
    <3>3. ~Refreshing(c) BY <2>3
    <3> QED BY <3>1, <3>2, <3>3, <1>3
  <2>5. call[t][x].kind \in {"login", "poll"} => ~tab'[t].ctx.loading
    <3>1. call[t][x].kind \in {"login", "poll"} => ~tab[t].ctx.loading BY <2>1 DEF CallOK
    <3> QED BY <3>1
  <2>6. call[t][x].kind = "me" /\ writer' = t => store' = call[t][x].tok
    BY <2>1 DEF CallOK
  <2>7. call'[t][x] = call[t][x] BY <1>3
  <2> QED BY <2>1, <2>4, <2>5, <2>6, <2>7, <1>2 DEF CallOK
<1> QED BY <1>4 DEF TabOK

-----------------------------------------------------------------------------
(* The steps of a tab.                                                     *)

LEMMA SessionBegins == Init => SessionIInv
<1> SUFFICES ASSUME Init PROVE SessionIInv OBVIOUS
<1>1. RefreshStarts(FreshContext) \in Context /\ RefreshStarts(FreshContext).user = NoUser
  BY DEF RefreshStarts, FreshContext, Context
<1>2. TypeOK
  BY <1>1, NoCallTyped DEF Init, TypeOK, issued, Routes
<1>3. \A t \in Tabs : TabOK(t)
  BY <1>1 DEF Init, TabOK, CallOK, Refreshing, NoCall
<1>4. SessionAgrees
  BY <1>1 DEF Init, SessionAgrees
<1> QED BY <1>2, <1>3, <1>4 DEF SessionIInv

LEMMA TabLoads == ASSUME SessionIInv, NEW t \in Tabs, NEW s \in Slots, Load(t, s) PROVE SessionIInv'
<1> DEFINE c == RefreshStarts(FreshContext)
           ask == Sent("check", 0, NoUser)
           new == [[x \in Slots |-> NoCall] EXCEPT ![s] = ask]
<1>1. c \in Context /\ c.user = NoUser /\ c.loading = TRUE
  BY DEF RefreshStarts, FreshContext, Context
<1>2. ask \in Call /\ ask.kind = "check" /\ ask.ans = "none"
  BY NoCallTyped DEF Sent, Call, Kinds, NoCall
<1>3. new \in [Slots -> Call] /\ new[s] = ask /\ \A x \in Slots \ {s} : new[x] = NoCall
  <2> HIDE DEF ask
  <2> QED BY <1>2, NoCallTyped
<1>4. /\ tab' = [tab EXCEPT ![t] = [ctx |-> c, route |-> tab[t].route, busy |-> FALSE]]
      /\ call' = [call EXCEPT ![t] = new]
      /\ UNCHANGED <<store, owner, live, ready, writer>>
  BY DEF Load, server
<1> HIDE DEF c, new, ask
<1>5. TypeOK'
  BY <1>1, <1>3, <1>4 DEF SessionIInv, TypeOK, issued
<1>6. tab'[t].ctx = c /\ call'[t] = new /\ \A x \in Tabs \ {t} : tab'[x].ctx = tab[x].ctx /\ call'[x] = call[x]
  BY <1>4 DEF SessionIInv, TypeOK
<1>7. NoCall.kind = "idle" BY DEF NoCall
<1>8. TabOK(t)'
  BY <1>1, <1>2, <1>3, <1>6, <1>7 DEF TabOK, CallOK, Refreshing
<1>9. SessionAgrees'
  BY <1>1, <1>4, <1>6, OthersAgree
<1> QED BY <1>4, <1>5, <1>6, <1>8, <1>9, OtherTabs DEF SessionIInv

LEMMA VisitStep == ASSUME SessionIInv, NEW t \in Tabs, NEW r \in Routes, Visit(t, r) PROVE SessionIInv'
<1>1. tab[t].ctx \in Context BY DEF SessionIInv, TypeOK
<1> DEFINE sh == Shown(t, tab[t].ctx, r)
<1>2. /\ sh \in [Tabs -> [ctx : Context, route : Routes, busy : BOOLEAN]]
      /\ sh[t].ctx = tab[t].ctx
      /\ \A x \in Tabs \ {t} : sh[x] = tab[x]
  BY <1>1, ShownTyped DEF SessionIInv
<1>3. tab' = [sh EXCEPT ![t].busy = FALSE] /\ UNCHANGED <<store, owner, live, ready, call, writer>>
  BY DEF Visit, server
<1> HIDE DEF sh
<1>4. /\ tab' \in [Tabs -> [ctx : Context, route : Routes, busy : BOOLEAN]]
      /\ \A x \in Tabs : tab'[x].ctx = tab[x].ctx
  BY <1>2, <1>3
<1>5. TypeOK' BY <1>3, <1>4 DEF SessionIInv, TypeOK, issued
<1>6. \A x \in Tabs : TabOK(x)'
  BY <1>3, <1>4 DEF SessionIInv, TabOK, CallOK, issued, Refreshing
<1>7. SessionAgrees' BY <1>3, <1>4, OthersAgree
<1> QED BY <1>5, <1>6, <1>7 DEF SessionIInv

\* A call that leaves carries the token of the moment.
LEMMA CallLeaves ==
  ASSUME SessionIInv, NEW t \in Tabs, NEW s \in Slots, NEW k \in {"login", "poll"},
         NEW tok \in Tokens \cup {0}, NEW u \in Names \cup {NoUser},
         k = "login" => u \in Names,
         ~tab[t].ctx.loading,
         call' = [call EXCEPT ![t][s] = Sent(k, tok, u)],
         tab' \in [Tabs -> [ctx : Context, route : Routes, busy : BOOLEAN]],
         \A x \in Tabs : tab'[x].ctx = tab[x].ctx,
         UNCHANGED <<store, owner, live, ready, writer>>
  PROVE  SessionIInv'
<1> DEFINE c == Sent(k, tok, u)
<1>1. c \in Call /\ c.kind = k /\ c.who = u /\ c.ans = "none"
  BY NoCallTyped DEF Sent, Call, Kinds, NoCall
<1> HIDE DEF c
<1>2. call' = [call EXCEPT ![t][s] = c] BY DEF c
<1>3. /\ call' \in [Tabs -> [Slots -> Call]] /\ call'[t][s] = c
      /\ \A x \in Tabs \ {t} : call'[x] = call[x]
  <2>1. TypeOK /\ c \in Call BY <1>1 DEF SessionIInv
  <2> QED BY ONLY <2>1, <1>2, CallSet, t \in Tabs, s \in Slots
<1>4. TypeOK' BY <1>3 DEF SessionIInv, TypeOK, issued
<1>5. CallOK(t, s)' BY <1>1, <1>3 DEF CallOK, Refreshing
<1>6. TabOK(t)'
  <2>1. tab[t].ctx.loading => tab[t].ctx.user = NoUser BY DEF SessionIInv, TabOK
  <2> QED BY <1>1, <1>2, <1>5, <2>1, QuietCalls
<1>7. SessionAgrees' BY OthersAgree
<1> QED BY <1>3, <1>4, <1>6, <1>7, OtherTabs DEF SessionIInv

LEMMA SubmitStep ==
  ASSUME SessionIInv, NEW t \in Tabs, NEW s \in Slots, NEW u \in Names, Submit(t, s, u)
  PROVE  SessionIInv'
<1>1. /\ ~tab[t].ctx.loading
      /\ call' = [call EXCEPT ![t][s] = Sent("login", 0, u)]
      /\ tab' = [tab EXCEPT ![t].busy = TRUE]
      /\ UNCHANGED <<store, owner, live, ready, writer>>
  BY DEF Submit, Splash, server
<1>2. /\ tab' \in [Tabs -> [ctx : Context, route : Routes, busy : BOOLEAN]]
      /\ \A x \in Tabs : tab'[x].ctx = tab[x].ctx
  BY <1>1 DEF SessionIInv, TypeOK
<1> QED BY <1>1, <1>2, CallLeaves

LEMMA AskStep == ASSUME SessionIInv, NEW t \in Tabs, NEW s \in Slots, Ask(t, s) PROVE SessionIInv'
<1>1. /\ ~tab[t].ctx.loading
      /\ call' = [call EXCEPT ![t][s] = Sent("poll", store, NoUser)]
      /\ UNCHANGED <<store, owner, live, ready, tab, writer>>
  BY DEF Ask, Splash, server
<1>2. store \in Tokens \cup {0} /\ tab \in [Tabs -> [ctx : Context, route : Routes, busy : BOOLEAN]]
  BY DEF SessionIInv, TypeOK
<1> QED BY <1>1, <1>2, CallLeaves

\* A tab takes the answer of a call: what it shows, what it stores, and the slot.
LEMMA AnswerTaken ==
  ASSUME SessionIInv, NEW t \in Tabs, NEW s \in Slots, NEW c \in Context, NEW r \in Routes,
         NEW n \in Call,
         tab' \in [Tabs -> [ctx : Context, route : Routes, busy : BOOLEAN]],
         tab'[t].ctx = c,
         \A x \in Tabs \ {t} : tab'[x].ctx = tab[x].ctx,
         call' = [call EXCEPT ![t][s] = n],
         UNCHANGED <<owner, live, ready>>,
         store' \in Tokens \cup {0},
         UNCHANGED <<store, writer>> \/ (writer' = t /\ \A x \in Slots \ {s} : call[t][x].kind # "me"),
         c.loading = tab[t].ctx.loading \/ (~c.loading /\ Refreshing(call[t][s])),
         c.loading => c.user = NoUser,
         CallOK(t, s)', SessionAgrees'
  PROVE  SessionIInv'
<1>1. TypeOK BY DEF SessionIInv
<1>2. call' \in [Tabs -> [Slots -> Call]] /\ \A x \in Tabs \ {t} : call'[x] = call[x]
  BY <1>1, CallSet
<1>3. TypeOK' BY <1>1, <1>2 DEF TypeOK, issued
<1>4. TabOK(t)' BY QuietCalls
<1> QED BY <1>2, <1>3, <1>4, OtherTabs DEF SessionIInv

\* The slot of a call that is over.
LEMMA IdleCallOK ==
  ASSUME NEW t \in Tabs, NEW s \in Slots, call'[t][s] = NoCall
  PROVE  CallOK(t, s)'
BY DEF CallOK, Refreshing, NoCall

\* While one of the calls of refresh() is out, no other one is.
LEMMA RefreshAlone ==
  ASSUME SessionIInv, NEW t \in Tabs, NEW s \in Slots
  PROVE  /\ Refreshing(call[t][s]) =>
              /\ tab[t].ctx.loading /\ tab[t].ctx.user = NoUser
              /\ \A x \in Slots \ {s} : call[t][x].kind # "me"
         /\ call[t][s].kind \in {"login", "poll"} =>
              ~tab[t].ctx.loading /\ \A x \in Slots : call[t][x].kind # "me"
<1>1. TabOK(t) BY DEF SessionIInv
<1>2. \A x \in Slots : CallOK(t, x) BY <1>1 DEF TabOK
<1> QED BY <1>1, <1>2 DEF TabOK, CallOK, Refreshing

LEMMA CheckStep ==
  ASSUME SessionIInv, NEW t \in Tabs, NEW s \in Slots, NEW a \in Answers \cup {"failed"},
         CheckReturns(t, s, a)
  PROVE  SessionIInv'
<1>1. /\ tab \in [Tabs -> [ctx : Context, route : Routes, busy : BOOLEAN]]
      /\ tab[t].ctx \in Context /\ tab[t].route \in Routes /\ store \in Tokens \cup {0}
  BY DEF SessionIInv, TypeOK
<1>2. call[t][s].kind = "check" BY DEF CheckReturns, Returns
<1>3. tab[t].ctx.loading /\ tab[t].ctx.user = NoUser /\ \A x \in Slots \ {s} : call[t][x].kind # "me"
  BY <1>2, RefreshAlone DEF Refreshing
<1> DEFINE c == CheckKnown(tab[t].ctx, a = "ok", {})
           asks == a = "ok" /\ store # 0
           e == CASE a = "failed" -> RefreshFails(c)
                  [] asks         -> c
                  [] OTHER        -> RefreshEnds(c, NoUser)
           n == IF asks THEN Sent("me", store, NoUser) ELSE NoCall
<1>4. c \in Context /\ c.user = NoUser /\ c.loading
  <2>1. (a = "ok") \in BOOLEAN OBVIOUS
  <2> QED BY <1>1, <1>3, <2>1, CheckKnownTyped
<1>5. e \in Context /\ e.user = NoUser /\ (e.loading <=> asks)
  <2> HIDE DEF c
  <2>1. RefreshFails(c) \in Context /\ RefreshFails(c).user = NoUser /\ RefreshFails(c).loading = FALSE
    BY RefreshFailsTyped
  <2>2. RefreshEnds(c, NoUser) \in Context /\ RefreshEnds(c, NoUser).user = NoUser /\ RefreshEnds(c, NoUser).loading = FALSE
    BY <1>4, RefreshEndsTyped
  <2>3. CASE a = "failed" BY <2>1, <2>3
  <2>4. CASE asks BY <1>4, <2>4
  <2>5. CASE a # "failed" /\ ~asks BY <2>2, <2>5
  <2> QED BY <2>3, <2>4, <2>5
<1>6. n \in Call /\ (asks => n.kind = "me" /\ n.tok = store /\ n.ans = "none") /\ (~asks => n = NoCall)
  BY <1>1, NoCallTyped DEF Sent, Call, Kinds, NoCall
<1>7. /\ tab' = Shown(t, e, tab[t].route)
      /\ call' = [call EXCEPT ![t][s] = n]
      /\ UNCHANGED <<store, owner, live, ready, writer>>
  BY DEF CheckReturns, server
<1> HIDE DEF c, asks, e, n
<1>8. /\ tab' \in [Tabs -> [ctx : Context, route : Routes, busy : BOOLEAN]]
      /\ tab'[t].ctx = e /\ \A x \in Tabs \ {t} : tab'[x] = tab[x]
  BY <1>1, <1>5, <1>7, ShownTyped DEF SessionIInv
<1>9. call'[t][s] = n /\ \A x \in Slots \ {s} : call'[t][x] = call[t][x]
  <2>1. TypeOK BY DEF SessionIInv
  <2>2. n \in Call /\ call' = [call EXCEPT ![t][s] = n] BY <1>6, <1>7
  <2> QED BY <2>1, <2>2, CallSet
<1>10. CallOK(t, s)'
  <2>1. CASE ~asks BY <1>6, <1>9, <2>1, IdleCallOK
  <2>2. CASE asks
    <3>1. \A x \in Slots : Refreshing(call[t][x]) => x = s
      BY <1>2 DEF SessionIInv, TabOK, CallOK, Refreshing
    <3>2. \A x \in Slots : Refreshing(call'[t][x]) => x = s BY <1>9, <3>1
    <3> QED BY <1>5, <1>6, <1>7, <1>8, <1>9, <2>2, <3>2 DEF CallOK
  <2> QED BY <2>1, <2>2
<1>11. SessionAgrees' BY <1>5, <1>7, <1>8, OthersAgree
<1>12. e.loading = tab[t].ctx.loading \/ (~e.loading /\ Refreshing(call[t][s]))
  BY <1>1, <1>2, <1>3, <1>5 DEF Refreshing, Context
<1> QED BY <1>1, <1>5, <1>6, <1>7, <1>8, <1>10, <1>11, <1>12, AnswerTaken

LEMMA MeStep ==
  ASSUME SessionIInv, NEW t \in Tabs, NEW s \in Slots, NEW a \in Answers \cup {"failed"},
         MeReturns(t, s, a)
  PROVE  SessionIInv'
<1>1. /\ tab[t].ctx \in Context /\ tab[t].route \in Routes /\ store \in Tokens \cup {0}
      /\ call[t][s] \in Call
  BY DEF SessionIInv, TypeOK
<1>2. call[t][s].kind = "me" /\ (a = "ok" => call[t][s].ans = "ok")
  BY DEF MeReturns, Returns, Outcomes
<1>3. CallOK(t, s) BY DEF SessionIInv, TabOK
<1>4. a = "ok" => call[t][s].tok \in issued /\ (writer = t => store = call[t][s].tok)
  BY <1>2, <1>3 DEF CallOK
<1> DEFINE who == IF a = "ok" THEN owner[call[t][s].tok] ELSE NoUser
           e == IF a = "ok" THEN RefreshEnds(tab[t].ctx, owner[call[t][s].tok]) ELSE RefreshFails(tab[t].ctx)
<1>5. e \in Context /\ e.user = who /\ e.loading = FALSE
  <2>1. CASE a = "ok"
    <3>1. owner[call[t][s].tok] \in Names \cup {NoUser}
      BY <1>4, <2>1 DEF SessionIInv, TypeOK, issued
    <3>2. e = RefreshEnds(tab[t].ctx, who) BY <2>1
    <3>3. who \in Names \cup {NoUser} BY <2>1, <3>1
    <3> HIDE DEF who, e
    <3> QED BY <1>1, <3>2, <3>3, RefreshEndsTyped
  <2>2. CASE a # "ok" BY <2>2, RefreshFailsTyped
  <2> QED BY <2>1, <2>2
<1>6. /\ tab' = Shown(t, e, tab[t].route) /\ store' = StoreAfter(a) /\ writer' = WriterAfter(t, a)
      /\ call' = [call EXCEPT ![t][s] = NoCall] /\ UNCHANGED <<owner, live, ready>>
  BY DEF MeReturns, server
<1> HIDE DEF e, who
<1> TypeOK BY DEF SessionIInv
<1>7. /\ tab' \in [Tabs -> [ctx : Context, route : Routes, busy : BOOLEAN]]
      /\ tab'[t].ctx = e /\ \A x \in Tabs \ {t} : tab'[x] = tab[x]
  BY <1>1, <1>5, <1>6, ShownTyped
<1>8. CallOK(t, s)'
  <2>1. call' = [call EXCEPT ![t][s] = NoCall] BY <1>6
  <2>2. call'[t][s] = NoCall BY <2>1, NoCallTyped, CallSet
  <2> QED BY <2>2, IdleCallOK
<1>9. /\ store' \in Tokens \cup {0}
      /\ a # "denied" => UNCHANGED <<store, writer>>
      /\ a = "denied" => writer' = t
  BY <1>1, <1>6 DEF StoreAfter, WriterAfter
<1>10. SessionAgrees'
  <2>1. CASE a = "ok"
    <3>1. issued' = issued BY <1>6 DEF issued
    <3>2. CASE writer = t BY <1>4, <1>5, <1>6, <1>7, <1>9, <2>1, <3>1, <3>2 DEF SessionAgrees, who
    <3>3. CASE writer # t BY <1>6, <1>7, <1>9, <2>1, <3>3, OthersAgree
    <3> QED BY <3>2, <3>3
  <2>2. CASE a = "denied" BY <1>5, <1>7, <1>9, <2>2, NobodyAgrees DEF who
  <2>3. CASE a \notin {"ok", "denied"} BY <1>5, <1>6, <1>7, <1>9, <2>3, OthersAgree DEF who
  <2> QED BY <2>1, <2>2, <2>3
<1>11. \A x \in Slots \ {s} : call[t][x].kind # "me" BY <1>2, RefreshAlone DEF Refreshing
<1>12. Refreshing(call[t][s]) BY <1>2 DEF Refreshing
<1> QED BY <1>1, <1>5, <1>6, <1>7, <1>8, <1>9, <1>10, <1>11, <1>12, NoCallTyped, AnswerTaken

\* The login form is idle again.
LEMMA ShownIdle ==
  ASSUME TypeOK, NEW t \in Tabs, NEW c \in Context, NEW r \in Routes,
         tab' = [Shown(t, c, r) EXCEPT ![t].busy = FALSE]
  PROVE  /\ tab' \in [Tabs -> [ctx : Context, route : Routes, busy : BOOLEAN]]
         /\ tab'[t].ctx = c
         /\ \A x \in Tabs \ {t} : tab'[x] = tab[x]
<1> DEFINE sh == Shown(t, c, r)
<1>1. /\ sh \in [Tabs -> [ctx : Context, route : Routes, busy : BOOLEAN]]
      /\ sh[t].ctx = c /\ \A x \in Tabs \ {t} : sh[x] = tab[x]
  BY ShownTyped
<1>2. tab' = [sh EXCEPT ![t].busy = FALSE] OBVIOUS
<1> HIDE DEF sh
<1>3. sh[t] \in [ctx : Context, route : Routes, busy : BOOLEAN] BY <1>1
<1>4. [sh[t] EXCEPT !.busy = FALSE] \in [ctx : Context, route : Routes, busy : BOOLEAN]
  BY <1>3
<1>5. [sh[t] EXCEPT !.busy = FALSE].ctx = c BY <1>1, <1>3
<1>6. tab' = [sh EXCEPT ![t] = [sh[t] EXCEPT !.busy = FALSE]] BY <1>1, <1>2
<1> QED BY ONLY <1>1, <1>4, <1>5, <1>6, t \in Tabs

LEMMA LoginStep ==
  ASSUME SessionIInv, NEW t \in Tabs, NEW s \in Slots, NEW a \in Answers \cup {"failed"},
         LoginReturns(t, s, a)
  PROVE  SessionIInv'
<1>0. TypeOK BY DEF SessionIInv
<1>1. /\ tab[t].ctx \in Context /\ tab[t].route \in Routes /\ store \in Tokens \cup {0}
      /\ call[t][s] \in Call /\ "/" \in Routes
  BY DEF SessionIInv, TypeOK, Routes
<1>2. call[t][s].kind = "login" /\ (a = "ok" => call[t][s].ans = "ok")
  BY DEF LoginReturns, Returns, Outcomes
<1>3. ~tab[t].ctx.loading /\ \A x \in Slots \ {s} : call[t][x].kind # "me"
  BY <1>2, RefreshAlone
<1>4. CallOK(t, s) BY DEF SessionIInv, TabOK
<1>5. call[t][s].who \in Names /\ call[t][s].tok \in Tokens \cup {0}
  BY <1>1, <1>2, <1>4 DEF CallOK, Call
<1>6. call' = [call EXCEPT ![t][s] = NoCall] /\ UNCHANGED <<owner, live, ready>>
  BY DEF LoginReturns, server
<1>7. CallOK(t, s)'
  <2>1. call' = [call EXCEPT ![t][s] = NoCall] BY <1>6
  <2>2. call'[t][s] = NoCall BY <1>0, <2>1, NoCallTyped, CallSet
  <2> QED BY <2>2, IdleCallOK
<1>8. issued' = issued BY <1>6 DEF issued
<1>9. CASE a = "ok"
  <2> DEFINE e == LoggedIn(tab[t].ctx, call[t][s].who)
  <2>1. e \in Context /\ e.user = call[t][s].who /\ e.loading = tab[t].ctx.loading
    BY <1>1, <1>5, LoggedInTyped
  <2>2. tab' = [Shown(t, e, "/") EXCEPT ![t].busy = FALSE] /\ store' = call[t][s].tok /\ writer' = t
    BY <1>9 DEF LoginReturns
  <2> HIDE DEF e
  <2>3. /\ tab' \in [Tabs -> [ctx : Context, route : Routes, busy : BOOLEAN]]
        /\ tab'[t].ctx = e /\ \A x \in Tabs \ {t} : tab'[x] = tab[x]
    BY <1>0, <1>1, <2>1, <2>2, ShownIdle
  <2>4. call[t][s].tok \in issued /\ owner[call[t][s].tok] = call[t][s].who
    BY <1>2, <1>4, <1>9 DEF CallOK
  <2>5. SessionAgrees' BY <1>6, <1>8, <2>1, <2>2, <2>3, <2>4 DEF SessionAgrees
  <2> QED BY <1>1, <1>3, <1>5, <1>6, <1>7, <2>1, <2>2, <2>3, <2>5, NoCallTyped, AnswerTaken
<1>10. CASE a # "ok"
  <2> DEFINE e == Hears(a, tab[t].ctx)
  <2>1. e \in Context /\ e.loading = tab[t].ctx.loading
        /\ (a = "denied" => e.user = NoUser) /\ (a # "denied" => e.user = tab[t].ctx.user)
    <3>1. CASE a = "denied" BY <1>1, <3>1, SessionGoneTyped DEF Hears
    <3>2. CASE a # "denied" BY <1>1, <3>2 DEF Hears
    <3> QED BY <3>1, <3>2
  <2>2. tab' = [Shown(t, e, tab[t].route) EXCEPT ![t].busy = FALSE]
    BY <1>10 DEF LoginReturns
  <2>3. /\ store' \in Tokens \cup {0}
        /\ a # "denied" => UNCHANGED <<store, writer>>
        /\ a = "denied" => writer' = t
    BY <1>1, <1>10 DEF LoginReturns, StoreAfter, WriterAfter
  <2> HIDE DEF e
  <2>4. /\ tab' \in [Tabs -> [ctx : Context, route : Routes, busy : BOOLEAN]]
        /\ tab'[t].ctx = e /\ \A x \in Tabs \ {t} : tab'[x] = tab[x]
    BY <1>0, <1>1, <2>1, <2>2, ShownIdle
  <2>5. SessionAgrees'
    <3>1. CASE a = "denied" BY <2>1, <2>3, <2>4, <3>1, NobodyAgrees
    <3>2. CASE a # "denied" BY <1>6, <2>1, <2>3, <2>4, <3>2, OthersAgree
    <3> QED BY <3>1, <3>2
  <2> QED BY <1>1, <1>3, <1>6, <1>7, <2>1, <2>3, <2>4, <2>5, NoCallTyped, AnswerTaken
<1> QED BY <1>9, <1>10

LEMMA RefusedStep ==
  ASSUME SessionIInv, NEW t \in Tabs, NEW s \in Slots, AskRefused(t, s) PROVE SessionIInv'
<1>0. TypeOK BY DEF SessionIInv
<1>1. tab[t].ctx \in Context /\ tab[t].route \in Routes
  BY DEF SessionIInv, TypeOK
<1>2. ~tab[t].ctx.loading /\ \A x \in Slots \ {s} : call[t][x].kind # "me"
  BY RefreshAlone DEF AskRefused
<1> DEFINE e == SessionGone(tab[t].ctx)
<1>3. e \in Context /\ e.user = NoUser /\ e.loading = tab[t].ctx.loading
  BY <1>1, SessionGoneTyped
<1>4. /\ tab' = Shown(t, e, tab[t].route) /\ store' = 0 /\ writer' = t
      /\ UNCHANGED <<owner, live, ready>>
  BY DEF AskRefused, Hears, StoreAfter, WriterAfter, server
<1>5. call' = [call EXCEPT ![t][s] = NoCall] BY DEF AskRefused
<1> HIDE DEF e
<1>6. /\ tab' \in [Tabs -> [ctx : Context, route : Routes, busy : BOOLEAN]]
      /\ tab'[t].ctx = e /\ \A x \in Tabs \ {t} : tab'[x] = tab[x]
  BY <1>0, <1>1, <1>3, <1>4, ShownTyped
<1>7. CallOK(t, s)'
  <2>1. call'[t][s] = NoCall BY <1>0, <1>5, NoCallTyped, CallSet
  <2> QED BY <2>1, IdleCallOK
<1>8. SessionAgrees' BY <1>3, <1>4, <1>6, NobodyAgrees
<1> QED BY <1>1, <1>2, <1>3, <1>4, <1>5, <1>6, <1>7, <1>8, NoCallTyped, AnswerTaken

LEMMA LogoutStep == ASSUME SessionIInv, NEW t \in Tabs, Logout(t) PROVE SessionIInv'
<1>0. TypeOK BY DEF SessionIInv
<1>1. tab[t].ctx \in Context /\ "/login" \in Routes /\ ~tab[t].ctx.loading
  BY DEF SessionIInv, TypeOK, Routes, Logout, Splash
<1> DEFINE e == SessionGone(tab[t].ctx)
<1>2. e \in Context /\ e.user = NoUser /\ e.loading = tab[t].ctx.loading
  BY <1>1, SessionGoneTyped
<1>3. tab' = Shown(t, e, "/login") /\ store' = 0 /\ writer' = t /\ UNCHANGED <<owner, live, ready, call>>
  BY DEF Logout, server
<1> HIDE DEF e
<1>4. /\ tab' \in [Tabs -> [ctx : Context, route : Routes, busy : BOOLEAN]]
      /\ tab'[t].ctx = e /\ \A x \in Tabs \ {t} : tab'[x] = tab[x]
  BY <1>0, <1>1, <1>2, <1>3, ShownTyped
<1>5. TypeOK' BY <1>0, <1>3, <1>4 DEF TypeOK, issued
<1>6. TabOK(t)'
  <2>1. \A x \in Slots : CallOK(t, x) BY DEF SessionIInv, TabOK
  <2>2. \A x \in Slots : call[t][x].kind # "me" BY <1>1, <2>1 DEF CallOK, Refreshing
  <2>3. issued' = issued BY <1>3 DEF issued
  <2>4. \A x \in Slots : CallOK(t, x)'
    BY <1>1, <1>2, <1>3, <1>4, <2>1, <2>2, <2>3 DEF CallOK, Refreshing
  <2> QED BY <1>2, <1>4, <2>4 DEF TabOK
<1>7. SessionAgrees' BY <1>2, <1>3, <1>4, NobodyAgrees
<1> QED BY <1>3, <1>4, <1>5, <1>6, <1>7, OtherTabs DEF SessionIInv

-----------------------------------------------------------------------------
(* The steps of the server.                                                *)

\* A call is answered, or a token is issued: the tabs see nothing of it yet.
LEMMA Served ==
  ASSUME SessionIInv, NEW t \in Tabs, NEW s \in Slots, NEW n \in Call,
         call' = [call EXCEPT ![t][s] = n],
         UNCHANGED <<store, tab, writer>>,
         owner' \in [Tokens -> Names \cup {NoUser}], live' \subseteq issued', ready' \in BOOLEAN,
         \A k \in issued : owner'[k] = owner[k],
         n.kind \in {call[t][s].kind, "idle"},
         n.kind = "me" => n.tok = call[t][s].tok /\ (n.ans = "ok" => n.tok \in issued'),
         n.kind = "login" => n.who = call[t][s].who /\ (n.ans = "ok" => n.tok \in issued' /\ owner'[n.tok] = n.who)
  PROVE  SessionIInv'
<1>1. TypeOK BY DEF SessionIInv
<1>2. /\ call' \in [Tabs -> [Slots -> Call]] /\ call'[t][s] = n
      /\ \A x \in Slots \ {s} : call'[t][x] = call[t][x]
      /\ \A x \in Tabs \ {t} : call'[x] = call[x]
  <2>1. call \in [Tabs -> [Slots -> Call]] BY <1>1 DEF TypeOK
  <2> QED BY <2>1
<1>3. TypeOK' BY <1>1, <1>2 DEF TypeOK
<1>4. issued \subseteq issued' BY DEF issued
<1>5. ASSUME NEW x \in Tabs PROVE TabOK(x)'
  <2>1. TabOK(x) BY DEF SessionIInv
  <2>2. \A y \in Slots : Refreshing(call'[x][y]) => Refreshing(call[x][y])
    BY <1>2 DEF Refreshing
  <2>3. ASSUME NEW y \in Slots PROVE CallOK(x, y)'
    <3>1. CallOK(x, y) BY <2>1 DEF TabOK
    <3>2. CASE x = t /\ y = s
      BY <1>2, <2>2, <3>1, <3>2 DEF CallOK, Refreshing
    <3>3. CASE ~(x = t /\ y = s)
      <4>1. call'[x][y] = call[x][y] BY <1>2, <3>3
      <4> QED BY <1>4, <2>2, <3>1, <4>1 DEF CallOK
    <3> QED BY <3>2, <3>3
  <2> QED BY <2>1, <2>3 DEF TabOK
<1>6. SessionAgrees' BY <1>4 DEF SessionIInv, SessionAgrees
<1> QED BY <1>3, <1>5, <1>6 DEF SessionIInv

LEMMA AnswerSteps ==
  ASSUME SessionIInv, NEW t \in Tabs, NEW s \in Slots,
         ServeCheck(t, s) \/ ServeMe(t, s) \/ ServeAsked(t, s)
  PROVE  SessionIInv'
<1>1. /\ call[t][s] \in Call /\ live \subseteq issued /\ ready \in BOOLEAN
      /\ owner \in [Tokens -> Names \cup {NoUser}] /\ call \in [Tabs -> [Slots -> Call]]
  BY DEF SessionIInv, TypeOK
<1>2. UNCHANGED <<store, owner, live, ready, tab, writer>> /\ issued' = issued
  BY DEF ServeCheck, ServeMe, ServeAsked, server, issued
<1>3. PICK n \in Call :
        /\ call' = [call EXCEPT ![t][s] = n]
        /\ n.kind \in {call[t][s].kind, "idle"}
        /\ n.kind = "me" => n.tok = call[t][s].tok /\ (n.ans = "ok" => n.tok \in issued)
        /\ n.kind # "login"
  <2>1. CASE ServeCheck(t, s) \/ ServeMe(t, s)
    <3>1. PICK a \in {"ok", "unset", "denied"} :
            /\ call' = [call EXCEPT ![t][s].ans = a]
            /\ call[t][s].kind \in {"check", "me"}
            /\ call[t][s].kind = "me" /\ a = "ok" => call[t][s].tok \in live
      BY <2>1 DEF ServeCheck, ServeMe, Answer, Waiting
    <3> DEFINE n == [call[t][s] EXCEPT !.ans = a]
    <3>2. n \in Call /\ n.kind = call[t][s].kind /\ n.tok = call[t][s].tok /\ n.ans = a
      BY <1>1 DEF Call, Answers
    <3>3. call' = [call EXCEPT ![t][s] = n] BY <1>1, <3>1
    <3> HIDE DEF n
    <3> QED BY <1>1, <3>1, <3>2, <3>3
  <2>2. CASE ServeAsked(t, s)
    <3> DEFINE n == IF call[t][s].tok \in live THEN NoCall ELSE [call[t][s] EXCEPT !.ans = "denied"]
    <3>1. call[t][s].kind = "poll" /\ call' = [call EXCEPT ![t][s] = n]
      BY <1>1, <2>2 DEF ServeAsked, Waiting
    <3>2. n \in Call /\ n.kind \in {"poll", "idle"}
      <4>1. CASE call[t][s].tok \in live BY <4>1, NoCallTyped DEF NoCall
      <4>2. CASE call[t][s].tok \notin live BY <1>1, <3>1, <4>2 DEF Call, Answers
      <4> QED BY <4>1, <4>2
    <3> HIDE DEF n
    <3> QED BY <3>1, <3>2
  <2> QED BY <2>1, <2>2
<1> QED BY <1>1, <1>2, <1>3, Served

\* A new token has no owner before.
LEMMA ServeLoginStep ==
  ASSUME SessionIInv, NEW t \in Tabs, NEW s \in Slots, ServeLogin(t, s) PROVE SessionIInv'
<1>1. /\ call[t][s] \in Call /\ live \subseteq issued /\ ready \in BOOLEAN
      /\ owner \in [Tokens -> Names \cup {NoUser}] /\ call \in [Tabs -> [Slots -> Call]]
  BY DEF SessionIInv, TypeOK
<1>2. call[t][s].kind = "login" /\ call[t][s].ans = "none" /\ UNCHANGED <<store, tab, writer>>
  BY DEF ServeLogin, Waiting
<1>3. call[t][s].who \in Names
  BY <1>2 DEF SessionIInv, TabOK, CallOK
<1>4. CASE Answer(t, s, "denied") /\ UNCHANGED server
  <2> DEFINE n == [call[t][s] EXCEPT !.ans = "denied"]
  <2>1. /\ n \in Call /\ n.kind = "login" /\ n.who = call[t][s].who /\ n.ans = "denied"
    BY <1>1, <1>2 DEF Call, Answers
  <2>2. call' = [call EXCEPT ![t][s] = n] /\ UNCHANGED <<owner, live, ready>> /\ issued' = issued
    BY <1>1, <1>4 DEF Answer, server, issued
  <2> HIDE DEF n
  <2> QED BY <1>1, <1>2, <2>1, <2>2, Served
<1>5. CASE \E k \in Tokens :
          /\ issued = 1..(k - 1)
          /\ owner' = [owner EXCEPT ![k] = call[t][s].who]
          /\ live' = live \cup {k}
          /\ call' = [call EXCEPT ![t][s].ans = "ok", ![t][s].tok = k]
          /\ UNCHANGED ready
  <2>1. PICK k \in Tokens :
          /\ issued = 1..(k - 1)
          /\ owner' = [owner EXCEPT ![k] = call[t][s].who]
          /\ live' = live \cup {k}
          /\ call' = [call EXCEPT ![t][s].ans = "ok", ![t][s].tok = k]
          /\ UNCHANGED ready
    BY <1>5
  <2>2. k \notin issued
    <3>1. k \in Nat BY TokenAssumption DEF Tokens
    <3> QED BY <2>1, <3>1
  <2> DEFINE n == [call[t][s] EXCEPT !.ans = "ok", !.tok = k]
  <2>3. /\ n \in Call /\ n.kind = "login" /\ n.who = call[t][s].who /\ n.ans = "ok" /\ n.tok = k
    BY <1>1, <1>2 DEF Call, Answers
  <2>4. call' = [call EXCEPT ![t][s] = n]
    BY <1>1, <2>1
  <2> HIDE DEF n
  <2>5. /\ owner' \in [Tokens -> Names \cup {NoUser}] /\ owner'[k] = call[t][s].who
        /\ \A x \in issued : owner'[x] = owner[x]
    BY <1>1, <1>3, <2>1, <2>2 DEF issued
  <2>6. k \in issued' /\ issued \subseteq issued'
    BY <1>3, <2>5, NoUserAssumption DEF issued
  <2>7. live' \subseteq issued' BY <1>1, <2>1, <2>6
  <2>8. n.tok \in issued' /\ owner'[n.tok] = n.who BY <2>3, <2>5, <2>6
  <2>9. ready' \in BOOLEAN BY <1>1, <2>1
  <2> QED
    BY ONLY SessionIInv, t \in Tabs, s \in Slots, <1>2, <2>3, <2>4, <2>5, <2>7, <2>8, <2>9, Served
<1> QED BY <1>4, <1>5 DEF ServeLogin

LEMMA HostSteps ==
  ASSUME SessionIInv, SetUp \/ \E k \in Tokens : Expire(k) PROVE SessionIInv'
<1>1. /\ UNCHANGED <<store, owner, tab, call, writer>> /\ ready' \in BOOLEAN /\ live' \subseteq live
  BY DEF SetUp, Expire, SessionIInv, TypeOK
<1>2. issued' = issued BY <1>1 DEF issued
<1>3. TypeOK' BY <1>1, <1>2 DEF SessionIInv, TypeOK
<1>4. \A t \in Tabs : TabOK(t)'
  BY <1>1, <1>2 DEF SessionIInv, TabOK, CallOK, Refreshing
<1> QED BY <1>1, <1>2, <1>3, <1>4 DEF SessionIInv, SessionAgrees

\* The inductive invariant of the session.
THEOREM SessionInductive == Spec => []SessionIInv
<1>1. SessionIInv /\ [Next]_vars => SessionIInv'
  <2> SUFFICES ASSUME SessionIInv, [Next]_vars PROVE SessionIInv' OBVIOUS
  <2>1. CASE UNCHANGED vars
    BY <2>1 DEF vars, SessionIInv, TypeOK, TabOK, CallOK, Refreshing, issued, SessionAgrees
  <2>2. CASE ServerStep
    BY <2>2, HostSteps, AnswerSteps, ServeLoginStep DEF ServerStep
  <2>3. CASE \E t \in Tabs : TabStep(t)
    BY <2>3, LogoutStep, VisitStep, TabLoads, AskStep, RefusedStep, SubmitStep,
       CheckStep, MeStep, LoginStep DEF TabStep
  <2> QED BY <2>1, <2>2, <2>3 DEF Next
<1> QED BY <1>1, SessionBegins, PTL DEF Spec

\* The tab that wrote the storage last shows the owner of the token in it,
\* however late the answers to older calls arrive (lib/api.ts:76-86,
\* lib/auth.tsx:41-93).
THEOREM WriterIsRight == Spec => []SessionAgrees
<1>1. SessionIInv => SessionAgrees BY DEF SessionIInv
<1> QED BY <1>1, SessionInductive, PTL

-----------------------------------------------------------------------------
(***************************************************************************)
(* ProxyConsole: what tasks read, send and go back to are nodes and modes, *)
(* and the bounded counters stay within their bounds.                      *)
(***************************************************************************)

LEMMA NoTaskTyped == NoTask \in Task /\ NoTask.at = "idle"
BY ProxyChoices DEF NoTask, Task, Steps

\* A task that goes on, and the page after it.
LEMMA TaskGoes ==
  ASSUME ProxyTypeOK, NEW s \in ProxySlots, NEW k \in Task, task' = [task EXCEPT ![s] = k],
         now' \in State, proxies' \in View,
         upsets' = upsets \/ Fails
  PROVE  ProxyTypeOK'
<1>1. task' \in [ProxySlots -> Task] BY DEF ProxyTypeOK
<1>2. upsets' \in [failed : 0..ProxyFaults, others : 0..ProxyOthers]
  BY ProxyBounds DEF ProxyTypeOK, Fails
<1> QED BY <1>1, <1>2 DEF ProxyTypeOK

LEMMA TaskTyped ==
  ASSUME NEW k \in Task, NEW a \in Steps, NEW n \in ProxyNodes, NEW m \in ProxyModes, NEW b \in ProxyModes
  PROVE  [k EXCEPT !.at = a, !.node = n, !.mode = m, !.back = b] \in Task
BY DEF Task

LEMMA ViewTyped ==
  ASSUME NEW v \in View, NEW n \in ProxyNodes, NEW m \in ProxyModes, NEW b \in BOOLEAN
  PROVE  [v EXCEPT !.node = n, !.mode = m, !.loading = b] \in View
BY DEF View

LEMMA LoadBeginsTyped ==
  ASSUME ProxyTypeOK, NEW s \in ProxySlots, LoadFrom(s), now' \in State, upsets' = upsets \/ Fails
  PROVE  ProxyTypeOK'
<1>1. [NoTask EXCEPT !.at = "proxies"] \in Task BY NoTaskTyped DEF Task, Steps
<1>2. task' = [task EXCEPT ![s] = [NoTask EXCEPT !.at = "proxies"]] BY DEF LoadFrom, Begins
<1>3. proxies' \in View BY DEF LoadFrom, ProxyTypeOK, View
<1> QED BY <1>1, <1>2, <1>3, TaskGoes

\* The type invariant of the proxies page is inductive.
LEMMA ProxyTyped == ProxyTypeOK /\ [ProxyNext]_pvars => ProxyTypeOK'
<1> SUFFICES ASSUME ProxyTypeOK, [ProxyNext]_pvars PROVE ProxyTypeOK' OBVIOUS
<1>1. now \in State /\ proxies \in View /\ task \in [ProxySlots -> Task] BY DEF ProxyTypeOK
<1>2. CASE UNCHANGED pvars BY <1>2 DEF pvars, ProxyTypeOK
<1>3. CASE AutoRefresh
  BY <1>1, <1>3 DEF AutoRefresh, ProxyTypeOK, View
<1>4. CASE OtherClient
  <2>1. upsets' \in [failed : 0..ProxyFaults, others : 0..ProxyOthers]
    BY <1>4, ProxyBounds DEF OtherClient, ProxyTypeOK
  <2> QED BY <1>4, <2>1 DEF OtherClient, ProxyTypeOK
<1>5. ASSUME NEW s \in ProxySlots, Tick(s) \/ Refresh(s) PROVE ProxyTypeOK'
  BY <1>1, <1>5, LoadBeginsTyped DEF Tick, Refresh
<1>6. ASSUME NEW s \in ProxySlots, ServeProxies(s) \/ ServeOverview(s) PROVE ProxyTypeOK'
  <2>1. task[s] \in Task /\ now.node \in ProxyNodes /\ now.mode \in ProxyModes BY <1>1 DEF State
  <2>2. /\ [task[s] EXCEPT !.at = "overview", !.node = now.node] \in Task
        /\ [task[s] EXCEPT !.at = "loaded", !.mode = now.mode] \in Task
    BY <2>1 DEF Task, Steps
  <2> QED BY <1>1, <1>6, <2>2, TaskGoes DEF ServeProxies, ServeOverview, Begins
<1>7. ASSUME NEW s \in ProxySlots, LoadReturns(s) PROVE ProxyTypeOK'
  <2>1. task[s].node \in ProxyNodes /\ task[s].mode \in ProxyModes BY <1>1 DEF Task
  <2>2. proxies' \in View BY <1>1, <1>7, <2>1 DEF LoadReturns, Loaded, View
  <2>3. task' = [task EXCEPT ![s] = NoTask] /\ now' = now /\ (upsets' = upsets \/ Fails)
    BY <1>7 DEF LoadReturns, Over
  <2> QED BY <1>1, <2>2, <2>3, NoTaskTyped, TaskGoes
<1>8. ASSUME NEW s \in ProxySlots, SelectReturns(s) PROVE ProxyTypeOK'
  <2>1. task[s].node \in ProxyNodes BY <1>1 DEF Task
  <2>2. [now EXCEPT !.node = task[s].node] \in State BY <1>1, <2>1 DEF State
  <2>3. now' \in State /\ LoadFrom(s) /\ (upsets' = upsets \/ Fails)
    BY <1>1, <1>8, <2>2 DEF SelectReturns, SelectReads
  <2> QED BY <2>3, LoadBeginsTyped
<1>9. ASSUME NEW s \in ProxySlots, SwitchReturns(s) PROVE ProxyTypeOK'
  <2>1. task[s].mode \in ProxyModes /\ task[s].back \in ProxyModes BY <1>1 DEF Task
  <2>2. [now EXCEPT !.mode = task[s].mode] \in State BY <1>1, <2>1 DEF State
  <2>3. CASE LoadFrom(s) /\ UNCHANGED upsets /\ now' = [now EXCEPT !.mode = task[s].mode]
    BY <2>2, <2>3, LoadBeginsTyped
  <2>4. CASE /\ now' \in {now, [now EXCEPT !.mode = task[s].mode]} /\ Fails
             /\ proxies' = [proxies EXCEPT !.mode = task[s].back] /\ Over(s)
    <3>1. proxies' \in View BY <1>1, <2>1, <2>4 DEF View
    <3>2. now' \in State BY <1>1, <2>2, <2>4
    <3>3. task' = [task EXCEPT ![s] = NoTask] BY <2>4 DEF Over
    <3> QED BY <2>4, <3>1, <3>2, <3>3, NoTaskTyped, TaskGoes
  <2> QED BY <1>9, <2>3, <2>4 DEF SwitchReturns
<1>10. ASSUME NEW s \in ProxySlots, NEW n \in ProxyNodes, Select(s, n) PROVE ProxyTypeOK'
  <2>1. [NoTask EXCEPT !.at = "select", !.node = n] \in Task BY NoTaskTyped DEF Task, Steps
  <2>2. proxies' \in View BY <1>1, <1>10 DEF Select, View
  <2>3. /\ task' = [task EXCEPT ![s] = [NoTask EXCEPT !.at = "select", !.node = n]]
        /\ now' = now /\ upsets' = upsets
    BY <1>10 DEF Select, Begins
  <2> QED BY <1>1, <2>1, <2>2, <2>3, TaskGoes
<1>11. ASSUME NEW s \in ProxySlots, NEW m \in ProxyModes, Switch(s, m) PROVE ProxyTypeOK'
  <2>1. proxies.mode \in ProxyModes BY <1>1 DEF View
  <2>2. [NoTask EXCEPT !.at = "switch", !.mode = m, !.back = proxies.mode] \in Task
    BY <2>1, NoTaskTyped DEF Task, Steps
  <2>3. proxies' \in View BY <1>1, <1>11 DEF Switch, View
  <2>4. /\ task' = [task EXCEPT ![s] = [NoTask EXCEPT !.at = "switch", !.mode = m, !.back = proxies.mode]]
        /\ now' = now /\ upsets' = upsets
    BY <1>11 DEF Switch, Begins
  <2> QED BY <1>1, <2>2, <2>3, <2>4, TaskGoes
<1> QED
  BY <1>2, <1>3, <1>4, <1>5, <1>6, <1>7, <1>8, <1>9, <1>10, <1>11 DEF ProxyNext, LoadStep, CallStep

LEMMA ProxyBegins == ProxyInit \/ ProxyAtRest => ProxyTypeOK
<1> SUFFICES ASSUME ProxyInit \/ ProxyAtRest PROVE ProxyTypeOK OBVIOUS
<1>1. upsets \in [failed : 0..ProxyFaults, others : 0..ProxyOthers]
  <2>1. upsets = [failed |-> 0, others |-> 0] BY DEF ProxyInit, ProxyAtRest
  <2>2. 0 \in 0..ProxyFaults /\ 0 \in 0..ProxyOthers BY ProxyBounds
  <2> QED BY <2>1, <2>2
<1>2. CASE ProxyInit
  <2>1. [NoTask EXCEPT !.at = "proxies"] \in Task BY NoTaskTyped DEF Task, Steps
  <2> QED BY <1>1, <1>2, <2>1, NoTaskTyped DEF ProxyInit, ProxyTypeOK, View
<1>3. CASE ProxyAtRest
  <2>1. NoTask.node \in ProxyNodes /\ NoTask.mode \in ProxyModes BY NoTaskTyped DEF Task
  <2>2. now \in State BY <1>3, <2>1 DEF ProxyAtRest, State
  <2>3. proxies \in View BY <1>3, <2>1, <2>2 DEF ProxyAtRest, View, State
  <2>4. task \in [ProxySlots -> Task] BY <1>3, NoTaskTyped DEF ProxyAtRest
  <2> QED BY <1>1, <2>2, <2>3, <2>4 DEF ProxyTypeOK
<1> QED BY <1>2, <1>3

-----------------------------------------------------------------------------
(***************************************************************************)
(* The three side by side, as WebFlows checks them: each of them takes its *)
(* own steps or none.                                                      *)
(***************************************************************************)

\* The instance implements each of its parts, with any number of tabs, flows,
\* components and tasks: a part that is not shown stutters.
THEOREM EachFlowRuns ==
  FlowsSpec => /\ Spec
               /\ SetupInit /\ [][SetupNext]_wvars
               /\ []ProxyTypeOK
<1>1. FlowsInit => Init /\ SetupInit /\ ProxyTypeOK
  BY ProxyBegins DEF FlowsInit
<1>2. [FlowsNext]_<<shown, vars, wvars, pvars>> => [Next]_vars /\ [SetupNext]_wvars /\ [ProxyNext]_pvars
  <2> SUFFICES ASSUME FlowsNext PROVE [Next]_vars /\ [SetupNext]_wvars /\ [ProxyNext]_pvars
    BY DEF vars, wvars, pvars
  <2>1. CASE On(1)
    <3>1. ~On(2) /\ ~On(3) BY <2>1 DEF On
    <3> QED BY <2>1, <3>1 DEF FlowsNext
  <2>2. CASE On(2)
    <3>1. ~On(1) /\ ~On(3) BY <2>2 DEF On
    <3> QED BY <2>2, <3>1 DEF FlowsNext
  <2>3. CASE On(3)
    <3>1. ~On(1) /\ ~On(2) BY <2>3 DEF On
    <3> QED BY <2>3, <3>1 DEF FlowsNext
  <2> QED BY <2>1, <2>2, <2>3 DEF FlowsNext
<1> QED BY <1>1, <1>2, ProxyTyped, PTL DEF FlowsSpec, Spec

\* Every value that tabs, calls, the wizard, its flows and the proxies page hold
\* is one the code can have put there.
THEOREM FlowsAreTyped == FlowsSpec => []FlowsTypeOK
<1>1. SessionIInv /\ SetupIInv /\ ProxyTypeOK => FlowsTypeOK
  BY DEF SessionIInv, SetupIInv, FlowsTypeOK
<1> QED BY <1>1, EachFlowRuns, SessionInductive, SetupInductive, PTL

\* What is proved of the parts holds of the instance: the last writer is right,
\* one installation flow at a time sends what was validated and shows what is
\* installed.
THEOREM FlowsKeepTheirWord ==
  FlowsSpec => [](SessionAgrees /\ FlowsAlone /\ SendsValidated /\ TicksAreTrue)
BY EachFlowRuns, WriterIsRight, OneFlowOnly, SentIsValid, DoneIsInstalled, PTL
===============================================================================
