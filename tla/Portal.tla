------------------------------- MODULE Portal -------------------------------
(***************************************************************************)
(* The developer portal in one browser: tabs that share the session        *)
(* cookie, pages rendered on the server from one GraphQL query each, and   *)
(* the buttons that send mutations through the portal's /graphql proxy.    *)
(* Another client of the BFF changes APIs and subscriptions meanwhile.     *)
(*                                                                         *)
(* The cookie wraps the auth service's session token and lives seven days, *)
(* the token one hour.  A tab waits for its operation before it navigates. *)
(***************************************************************************)
EXTENDS Bff

CONSTANTS
  Tabs,
  Worlds,         \* what goes on in a behaviour: [tabs, places, subscribed,
                  \* docs, sends], the tabs in use, the pages they request,
                  \* whether there are subscriptions, the operations of the
                  \* client and a bound on their number
  Client,         \* the other caller
  ClientToken     \* its session token

VARIABLES
  world,       \* one of Worlds
  cookie,      \* "none" or the session token that apim_session wraps
  place,       \* tab -> [page, arg]
  shown,       \* tab -> what the page displays
  form,        \* tab -> "idle" or "sending", of the login or registration form
  dialog,      \* tab -> the open confirmation, [doc, arg]
  nav,         \* tab -> loading of NavActions: "idle", "sending" or "stuck"
  navSession,  \* tab -> NavActions was rendered with a session
  outs,        \* history: tab -> logouts since the tab was loaded
  cache,       \* tabs whose router keeps /auth/login in its client cache
  early,       \* history: tabs that hold a form older than the session
  sends        \* operations the client sent

browser == <<world, cookie, place, shown, form, dialog>>
navVars == <<nav, navSession, outs>>
vars == <<bffVars, browser, navVars, cache, early, sends>>

ASSUME CallersAssumption ==
  /\ Callers = Tabs \cup {Client} /\ Client \notin Tabs
  /\ ClientToken \in Tokens

Blank == [subs |-> NoSubs, apis |-> {}, keys |-> {}]
NoDialog == [doc |-> "none", arg |-> "none"]
At(p, a) == [page |-> p, arg |-> a]

Init ==
  /\ BffInit
  /\ token = [x \in Tokens |-> IF x = ClientToken THEN "live" ELSE "unused"]
  /\ world \in Worlds /\ (~world.subscribed => subs = NoSubs)
  /\ cookie = "none"
  /\ place = [t \in Tabs |-> At("login", "none")]
  /\ shown = [t \in Tabs |-> Blank]
  /\ form = [t \in Tabs |-> "idle"] /\ dialog = [t \in Tabs |-> NoDialog]
  /\ nav = [t \in Tabs |-> "idle"] /\ navSession = [t \in Tabs |-> FALSE]
  /\ outs = [t \in Tabs |-> 0]
  /\ cache = Tabs /\ early = {} /\ sends = 0

-----------------------------------------------------------------------------
(* Pages.                                                                  *)

Protected == {"dashboard", "keys"}

Login == At("login", "none")

\* The same forms at /login and /register, which the matcher of the middleware
\* leaves out and no page links to.
PlainLogin == At("login", "plain")

\* The portal has no other pages.
ASSUME WorldsAssumption ==
  \A w \in Worlds :
    /\ w.tabs \subseteq Tabs
    /\ \A p \in w.places :
         \/ p \in {Login, PlainLogin}
         \/ p.page \in {"dashboard", "keys", "catalogue", "detail"}

\* The query that renders a page.  dashboard is the overview, the list of
\* subscriptions and the list of keys; catalogue is / and /apis; detail is an
\* API's page and its docs.
Query(p) ==
  CASE p = "dashboard" -> "subscriptions" [] p = "keys" -> "subscription"
    [] p = "catalogue" -> "apis"          [] p = "detail" -> "api"

\* Mutant of middleware: a signed-in user may open the login page.
middleware_Open(p, s) ==
  IF p.page \in Protected /\ s = "none" THEN Login ELSE p

\* middleware: where the request for p ends up, with the cookie s.
middleware(p, s) ==
  CASE p.page \in Protected /\ s = "none" -> Login
    [] p = Login /\ s # "none" -> At("dashboard", "none")
    [] OTHER -> p

\* Tab t requests page p with the cookie s.
Open(t, p, s) ==
  LET q == middleware(p, s) IN
  /\ place' = [place EXCEPT ![t] = q]
  /\ shown' = [shown EXCEPT ![t] = Blank]
  /\ dialog' = [dialog EXCEPT ![t] = NoDialog]
  /\ IF q.page = "login" THEN op' = [op EXCEPT ![t] = Idle]
                         ELSE Sends(t, Query(q.page), q.arg, s)

\* What the router's cache keeps of a page it just showed.
Kept(t) == IF place'[t] = Login THEN {t} ELSE {}

\* router.refresh() and a full load render the layout anew and empty the cache.
Rendered(t, s) ==
  /\ navSession' = [navSession EXCEPT ![t] = s # "none"]
  /\ cache' = (cache \ {t}) \cup Kept(t)

Free(t) == op[t] = Idle /\ form[t] = "idle" /\ nav[t] # "sending"

\* A link: the layout and with it NavActions stay as they are.
Visit(t, p) ==
  /\ Free(t) /\ p # PlainLogin
  /\ Open(t, p, cookie)
  /\ cache' = cache \cup Kept(t)
  /\ early' = IF t \in cache THEN early ELSE early \ {t}
  /\ UNCHANGED <<services, token, failures, world, cookie, form, navVars, sends>>

\* Back, or a link to /auth/login that the router serves from its cache: no
\* request, so no middleware.
Restore(t) ==
  /\ Free(t) /\ t \in cache /\ place[t] # Login
  /\ place' = [place EXCEPT ![t] = Login]
  /\ shown' = [shown EXCEPT ![t] = Blank]
  /\ dialog' = [dialog EXCEPT ![t] = NoDialog]
  /\ UNCHANGED <<bffVars, world, cookie, form, navVars, cache, early, sends>>

\* A reload, or an address typed in.
Load(t, p) ==
  /\ Free(t)
  /\ Open(t, p, cookie)
  /\ Rendered(t, cookie)
  /\ nav' = [nav EXCEPT ![t] = "idle"] /\ outs' = [outs EXCEPT ![t] = 0]
  /\ early' = early \ {t}
  /\ UNCHANGED <<services, token, failures, world, cookie, form, sends>>

-----------------------------------------------------------------------------
(* The login and the registration form, and their API routes.              *)

Submit(t) ==
  /\ Free(t) /\ place[t].page = "login"
  /\ form' = [form EXCEPT ![t] = "sending"]
  /\ UNCHANGED <<bffVars, world, cookie, place, shown, dialog, navVars, cache, early, sends>>

\* What next names: the page that the middleware or SubscribeButton sent the
\* visitor here from, or the dashboard.
Nexts ==
  {At("dashboard", "none")} \cup {p \in world.places : p.page \in {"keys", "detail"}}

\* createSession and setSessionCookie, then router.push(next) and refresh().
SignIn(t) ==
  /\ form[t] = "sending"
  /\ \E x \in Tokens : token[x] = "unused"
  /\ LET x == CHOOSE y \in Tokens : token[y] = "unused" IN
       /\ token' = [token EXCEPT ![x] = "live"]
       /\ cookie' = x
       /\ \E p \in Nexts : Open(t, p, x)
       /\ Rendered(t, x)
  /\ form' = [form EXCEPT ![t] = "idle"]
  /\ early' = {u \in Tabs \ {t} : place[u].page = "login" \/ u \in cache}
  /\ UNCHANGED <<services, failures, world, nav, outs, sends>>

\* The auth service refuses, or its answer does not arrive.
SignInFails(t) ==
  /\ form[t] = "sending"
  /\ form' = [form EXCEPT ![t] = "idle"]
  /\ UNCHANGED <<bffVars, world, cookie, place, shown, dialog, navVars, cache, early, sends>>

-----------------------------------------------------------------------------
(* NavActions.handleLogout                                                 *)

Logout(t) ==
  /\ Free(t) /\ navSession[t] /\ nav[t] = "idle"
  /\ nav' = [nav EXCEPT ![t] = "sending"] /\ outs' = [outs EXCEPT ![t] = @ + 1]
  /\ UNCHANGED <<bffVars, browser, navSession, cache, early, sends>>

\* Mutant of LogoutDone: loading is reset.
LogoutDone_Resets(t) ==
  /\ nav[t] = "sending"
  /\ cookie' = "none"
  /\ nav' = [nav EXCEPT ![t] = "idle"]
  /\ Open(t, At("catalogue", "none"), "none") /\ Rendered(t, "none")
  /\ UNCHANGED <<services, token, failures, world, form, outs, early, sends>>

\* The route only clears the cookie; push('/') and refresh() follow, and
\* nothing sets loading back: NavActions stays mounted in the root layout.
LogoutDone(t) ==
  /\ nav[t] = "sending"
  /\ cookie' = "none"
  /\ nav' = [nav EXCEPT ![t] = "stuck"]
  /\ Open(t, At("catalogue", "none"), "none") /\ Rendered(t, "none")
  /\ UNCHANGED <<services, token, failures, world, form, outs, early, sends>>

\* fetch rejects: nothing catches it.
LogoutFails(t) ==
  /\ nav[t] = "sending" /\ Failing
  /\ nav' = [nav EXCEPT ![t] = "stuck"]
  /\ UNCHANGED <<services, token, op, browser, navSession, outs, cache, early, sends>>

-----------------------------------------------------------------------------
(* The buttons of the dashboard.                                           *)

\* SubscriptionsPage: a button for every subscription that is active.
CancelControls(t) ==
  {[doc |-> "cancelSubscription", arg |-> a] : a \in {b \in Apis : shown[t].subs[b] = "active"}}

\* KeysPage of a subscription, whatever its status; APIKeyCard has a button for
\* a key it shows as not revoked.
KeyControls(t, a) ==
  {[doc |-> "createAPIKey", arg |-> a]} \cup
    {[doc |-> "revokeAPIKey", arg |-> k[1]] : k \in {j \in shown[t].keys : j[2] # "revoked"}}

\* The controls that the page in tab t shows.
Controls(t) ==
  LET p == place[t] IN
  CASE p.page = "dashboard" -> CancelControls(t)
    [] p.page = "keys" /\ shown[t].subs[p.arg] # "none" -> KeyControls(t, p.arg)
    [] OTHER -> {}

OpenDialog(t, d) ==
  /\ dialog[t] = NoDialog /\ d \in Controls(t)
  /\ dialog' = [dialog EXCEPT ![t] = d]
  /\ UNCHANGED <<bffVars, world, cookie, place, shown, form, navVars, cache, early, sends>>

\* Its cancel button works while the mutation is under way, too.
CloseDialog(t) ==
  /\ dialog[t] # NoDialog
  /\ dialog' = [dialog EXCEPT ![t] = NoDialog]
  /\ UNCHANGED <<bffVars, world, cookie, place, shown, form, navVars, cache, early, sends>>

\* The proxy takes the token from the cookie of the moment.
Confirm(t) ==
  /\ Free(t) /\ dialog[t] # NoDialog
  /\ Sends(t, dialog[t].doc, dialog[t].arg, cookie)
  /\ UNCHANGED <<services, token, failures, browser, navVars, cache, early, sends>>

Asked(t) == op[t].stage = "answered"

\* A page whose query failed shows an empty list, or "not found".
Displayed(o) ==
  IF o.err THEN Blank ELSE [subs |-> o.seen, apis |-> o.found, keys |-> o.listed]

ShowPage(t) ==
  /\ Asked(t) /\ op[t].doc \notin Mutations
  /\ shown' = [shown EXCEPT ![t] = Displayed(op[t])]
  /\ op' = [op EXCEPT ![t] = Idle]
  /\ UNCHANGED <<services, token, failures, world, cookie, place, form, dialog,
                 navVars, cache, early, sends>>

\* Mutant of MutationFails: loading goes on after an error.
MutationFails_Loading(t) ==
  /\ Asked(t) /\ op[t].doc = "createAPIKey" /\ op[t].err
  /\ op' = [op EXCEPT ![t] = Idle]
  /\ UNCHANGED <<services, token, failures, browser, navVars, cache, early, sends>>

\* The dialog stays; only CreateAPIKeyButton shows the error.
MutationFails(t) ==
  /\ Asked(t) /\ op[t].doc \in Mutations /\ op[t].err
  /\ op' = [op EXCEPT ![t] = Idle]
  /\ UNCHANGED <<services, token, failures, browser, navVars, cache, early, sends>>

\* onCompleted: the dialog goes with the page that router.refresh() renders.
MutationDone(t) ==
  /\ Asked(t) /\ op[t].doc \in Mutations /\ ~op[t].err
  /\ Open(t, place[t], cookie) /\ Rendered(t, cookie)
  /\ early' = early \ {t}
  /\ UNCHANGED <<services, token, failures, world, cookie, form, nav, outs, sends>>

-----------------------------------------------------------------------------
(* The other client, and time.                                             *)

ClientSends(doc, a) ==
  /\ op[Client] = Idle /\ sends < world.sends
  /\ Sends(Client, doc, a, ClientToken)
  /\ sends' = sends + 1
  /\ UNCHANGED <<services, token, failures, browser, navVars, cache, early>>

ClientDone ==
  /\ op[Client].stage = "answered"
  /\ op' = [op EXCEPT ![Client] = Idle]
  /\ UNCHANGED <<services, token, failures, browser, navVars, cache, early, sends>>

ExpireToken(x) ==
  /\ token[x] = "live" /\ x # ClientToken
  /\ token' = [token EXCEPT ![x] = "expired"]
  /\ UNCHANGED <<services, op, failures, browser, navVars, cache, early, sends>>

ExpireCookie ==
  /\ cookie # "none" /\ token[cookie] = "expired"
  /\ cookie' = "none"
  /\ UNCHANGED <<bffVars, world, place, shown, form, dialog, navVars, cache, early, sends>>

TabSettles(t) ==
  ShowPage(t) \/ MutationFails(t) \/ MutationDone(t)

TabStep(t) ==
  \/ \E p \in world.places : Visit(t, p) \/ Load(t, p)
  \/ Restore(t)
  \/ Submit(t) \/ SignIn(t) \/ SignInFails(t)
  \/ Logout(t) \/ LogoutDone(t) \/ LogoutFails(t)
  \/ \E d \in Controls(t) : OpenDialog(t, d)
  \/ CloseDialog(t) \/ Confirm(t)
  \/ TabSettles(t)

Serve(c) == BffStep(c) /\ UNCHANGED <<browser, navVars, cache, early, sends>>

Next ==
  \/ \E t \in world.tabs : TabStep(t)
  \/ \E c \in Callers : Serve(c)
  \/ \E doc \in world.docs, a \in Apis : ClientSends(doc, a)
  \/ ClientDone
  \/ \E x \in Tokens : ExpireToken(x)
  \/ ExpireCookie

Spec == Init /\ [][Next]_vars

\* Every call ends, by its answer or by UPSTREAM_TIMEOUT_MS, and callbacks run.
Fairness ==
  /\ \A c \in Callers : WF_vars(Serve(c))
  /\ \A t \in Tabs : WF_vars(TabSettles(t))
  /\ WF_vars(ClientDone)

LiveSpec == Spec /\ Fairness

-----------------------------------------------------------------------------
(* Properties.                                                             *)

(***************************************************************************)
(* An operation that reports success has made its change, and one that     *)
(* reports an error has not: except that a call of it failed (the answer   *)
(* was lost, or the subscription could not be read back), or that createAPI*)
(* was asked for fields the registry does not send.                        *)
(***************************************************************************)
AnswersHonest ==
  \A c \in Callers :
    op[c].stage = "answered" =>
      /\ op[c].err /\ op[c].done => op[c].sick \/ op[c].doc = "createAPI"
      /\ ~op[c].err /\ op[c].doc \in Mutations => op[c].done

(***************************************************************************)
(* The catalogue page, asked for with a live session and answered without  *)
(* a failed call, lists every published API; told before the other client  *)
(* changes any.  It does not: what the registry sends lacks fields that    *)
(* the BFF's schema declares non-null, one such API fails the whole query, *)
(* and the page takes a failed query for an empty list.                    *)
(***************************************************************************)
CatalogueShown ==
  [][\A t \in Tabs :
       /\ Asked(t) /\ op'[t] = Idle /\ place[t].page = "catalogue"
       /\ op[t].token # "none" /\ token[op[t].token] = "live"
       /\ ~op[t].sick /\ sends = 0
       => {a \in Apis : apis[a] = "published"} \subseteq shown'[t].apis]_vars

(***************************************************************************)
(* NavActions keeps loading set after a logout and is not mounted anew, so *)
(* a tab logs out at most once until it is reloaded, even when the user    *)
(* has signed in again in between.                                         *)
(***************************************************************************)
OneLogoutPerLoad == \A t \in Tabs : outs[t] <= 1

(***************************************************************************)
(* The middleware keeps a signed-in user off /auth/login, even when the    *)
(* wrapped token has expired: a session is replaced by another one only    *)
(* through a form that was loaded before the session began (and is still   *)
(* open, or came back from the router's cache), or at /login or /register, *)
(* which the middleware does not see.                                      *)
(***************************************************************************)
RenewalOnlyFromOldForm ==
  [][cookie # "none" /\ cookie' \notin {cookie, "none"} =>
       \E t \in Tabs : /\ form[t] # "idle" /\ form'[t] = "idle"
                       /\ (t \in early \/ place[t] = PlainLogin)]_vars

\* Whatever a tab or a client asks of the BFF is answered, and taken.
Settles == \A c \in Callers : op[c] # Idle ~> op[c] = Idle
=============================================================================
