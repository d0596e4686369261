----------------------------- MODULE WebConsole -----------------------------
(***************************************************************************)
(* The single-page console of frontend/assets/js: the session (auth.js),   *)
(* the shell, its router and its expiry watch (app.js, router.js), the     *)
(* store of findings and of AI results (store.js), and the pages that      *)
(* share them (pages/login.js, dashboard.js, findings.js, finding.js,       *)
(* settings.js, which stands for all that wait for nothing to be shown).   *)
(*                                                                         *)
(* JavaScript runs one handler at a time, so an action is a handler up to  *)
(* the await of a request, or what follows that await.  A continuation     *)
(* keeps the DOM element its page was given: "mounted" says whether that   *)
(* element is still in the document, and what it writes is seen only then. *)
(*                                                                         *)
(* Abstractions: a finding belongs to one tenant, and stands for its own   *)
(* page's path; the list of findings is the tenant it belongs to; times    *)
(* are the two bits that matter, whether the token has expired and whether *)
(* the list is younger than 60 s.                                          *)
(***************************************************************************)
EXTENDS Naturals, Bags

CONSTANTS
    Tenants,
    Findings,
    Owner,          \* the tenant each finding belongs to
    Capabilities,   \* the AI buttons of the finding page, "explain" among them
    None,
    MaxFlight       \* bounds the requests in flight

ListPages == {"dashboard", "findings"}
Paths == ListPages \cup {"settings"} \cup Findings

ASSUME ConsoleAssumption ==
    /\ Owner \in [Findings -> Tenants]
    /\ "explain" \in Capabilities
    /\ Findings \cap {"dashboard", "findings", "settings"} = {}
    /\ None \notin Tenants \cup Capabilities \cup Paths
    /\ MaxFlight \in Nat

VARIABLES
    session,    \* _session: whose token, and whether it has not expired
    watching,   \* the interval of watchExpiry runs
    path,       \* location.hash
    view,       \* what #app shows
    store,      \* state.findings and state.loadedAt
    ai,         \* the keys of state.ai
    flying,     \* the bag of requests whose answers have not been handled
    races       \* history: the overlaps whose traces may still be seen

vars == <<session, watching, path, view, store, ai, flying, races>>

-----------------------------------------------------------------------------
SignedOut == [tenant |-> None, live |-> FALSE]
EmptyStore == [tenant |-> None, fresh |-> FALSE]

\* at: the path a page was rendered for; list: whose findings its table shows;
\* picked: the highlighted AI button; box: what #ai-result shows.
NoBox == [state |-> "none", cap |-> None, of |-> None]
Screen(phase, p) ==
    [phase |-> phase, at |-> p, list |-> None, picked |-> None, box |-> NoBox]
LoginScreen == Screen("login", None)
ListScreen(p, t) == [Screen("shown", p) EXCEPT !.list = t]

\* A request carries the token of the moment it was sent.
Request(kind, s, p, c, mounted) ==
    [kind |-> kind, tenant |-> s.tenant, at |-> p, cap |-> c, mounted |-> mounted]

IsRender(r) == r.kind \in {"list", "get"}
MountedIn(fl, kinds) == {r \in BagToSet(fl) : r.mounted /\ r.kind \in kinds}

\* Mutants of ShellReplaced, PageReplaced: an answer is written to what is shown.
ShellKept(fl) == fl
PageKept(fl) == fl

\* The bag fl once the elements that its requests in lost hold are out of the
\* document.
Detached(r) == [r EXCEPT !.mounted = FALSE]
Attached(r) == [r EXCEPT !.mounted = TRUE]
Loosened(fl, lost) ==
    [r \in BagToSet(fl) \ lost |-> fl[r]] (+) [r \in {Detached(q) : q \in lost} |-> fl[Attached(r)]]

\* Replacing #app detaches what every continuation holds; replacing the content
\* of #view detaches the result box of the page that was in it.
ShellReplaced(fl) == Loosened(fl, {r \in BagToSet(fl) : r.mounted})
PageReplaced(fl) == Loosened(fl, {r \in BagToSet(fl) : r.mounted /\ ~IsRender(r)})

\* The requests of rs are sent, those of fl being in flight.
Send(fl, rs) ==
    /\ flying' = fl (+) SetToBag(rs)
    /\ BagCardinality(fl (+) SetToBag(rs)) <= MaxFlight
Handled(r) == flying (-) SetToBag({r})

-----------------------------------------------------------------------------
(* Pages: what a render shows at once, and the request it waits for. *)

\* A click on an AI button: the cached result, or a request for it.
Result(c, f) == [state |-> "done", cap |-> c, of |-> f]
Picking(c, f, s, cache, mounted) ==
    IF <<c, f>> \in cache
    THEN [box |-> Result(c, f), sends |-> {}]
    ELSE [box |-> [NoBox EXCEPT !.state = "loading"],
          sends |-> {Request("ai", s, f, c, mounted)}]

\* The finding page explains the finding without being asked.
Detail(f, s, cache, mounted) ==
    LET explain == Picking("explain", f, s, cache, mounted)
    IN [view |-> [Screen("shown", f) EXCEPT !.picked = "explain", !.box = explain.box],
        sends |-> explain.sends]

\* loadFindings() has the list at hand for 60 s, findFinding() for as long as the
\* store does.
Listing(p, s, st) ==
    IF st.fresh THEN [view |-> ListScreen(p, st.tenant), sends |-> {}]
    ELSE [view |-> Screen("loading", p), sends |-> {Request("list", s, p, None, TRUE)}]

Inspecting(f, s, st, cache) ==
    IF st.tenant = Owner[f] THEN Detail(f, s, cache, TRUE)
    ELSE [view |-> Screen("loading", f), sends |-> {Request("get", s, f, None, TRUE)}]

Rendering(p, s, st, cache) ==
    IF p \in ListPages THEN Listing(p, s, st)
    ELSE IF p \in Findings THEN Inspecting(p, s, st, cache)
    ELSE [view |-> Screen("shown", p), sends |-> {}]

Render(p, s, st, cache, fl) ==
    LET page == Rendering(p, s, st, cache)
    IN view' = page.view /\ Send(fl, page.sends)

\* Mutant of Boot: it always opens the dashboard.
BootAtHome(s, p, st, cache, fl, timer) ==
    IF s.live
    THEN Render("dashboard", s, st, cache, fl) /\ watching' = TRUE
    ELSE view' = LoginScreen /\ flying' = fl /\ watching' = timer

\* boot(): the login view, or a new shell with the routed page and a new watch.
Boot(s, p, st, cache, fl, timer) ==
    IF s.live
    THEN Render(p, s, st, cache, fl) /\ watching' = TRUE
    ELSE view' = LoginScreen /\ flying' = fl /\ watching' = timer

-----------------------------------------------------------------------------
Init ==
    /\ session = SignedOut /\ watching = FALSE
    /\ path \in Paths
    /\ view = LoginScreen
    /\ store = EmptyStore /\ ai = {}
    /\ flying = EmptyBag
    /\ races = {}

(* The session. *)

\* setSession() and boot().  Nothing is cleared: the store is what the session
\* before left, if that one did not end by signing out.
SignsIn(t, fl) ==
    /\ session' = [tenant |-> t, live |-> TRUE]
    /\ races' = (races \ {"view", "box"}) \cup (IF session.tenant \in {None, t} THEN {} ELSE {"carried"})
    /\ Boot(session', path, store, ai, ShellReplaced(fl), watching)
    /\ UNCHANGED <<path, store, ai>>

\* A token is pasted.
SignInWithToken(t) ==
    /\ view.phase = "login"
    /\ SignsIn(t, flying)

\* A token is asked of the backend (the button is busy meanwhile, but a login view
\* that is drawn again has another) ...
MintToken(t) ==
    /\ view.phase = "login"
    /\ Send(flying, {Request("mint", [tenant |-> t], None, None, FALSE)})
    /\ UNCHANGED <<session, watching, path, view, store, ai, races>>

\* ... and signs in when it comes, whatever the user has done meanwhile.
TokenMinted(r) ==
    /\ r.kind = "mint"
    /\ SignsIn(r.tenant, Handled(r))

\* Mutants of SignOut: it leaves the store, or the interval, as it is.
SignOutKeepingStore ==
    /\ session' = SignedOut
    /\ races' = {"carried" : r \in {r \in BagToSet(flying) : r.kind = "list"}}
    /\ Boot(session', path, store, ai, ShellReplaced(flying), FALSE)
    /\ UNCHANGED <<path, store, ai>>

SignOutKeepingWatch ==
    /\ session' = SignedOut
    /\ store' = EmptyStore /\ ai' = {}
    /\ races' = {"carried" : r \in {r \in BagToSet(flying) : r.kind = "list"}}
    /\ Boot(session', path, store', ai', ShellReplaced(flying), watching)
    /\ UNCHANGED path

\* signOut() of the user menu, which hangs on the body and may outlive the shell;
\* the page stays loaded.
SignOut ==
    /\ session' = SignedOut
    /\ store' = EmptyStore /\ ai' = {}
    /\ races' = {"carried" : r \in {r \in BagToSet(flying) : r.kind = "list"}}
    /\ Boot(session', path, store', ai', ShellReplaced(flying), FALSE)
    /\ UNCHANGED path

\* A new JavaScript heap: restoreSession() and boot().
Load(s, p) ==
    /\ session' = (IF s.live THEN s ELSE SignedOut)
    /\ path' = p
    /\ store' = EmptyStore /\ ai' = {} /\ races' = {}
    /\ Boot(session', p, store', ai', EmptyBag, FALSE)

Reload == Load(session, path)

\* The button of the settings page, which reloads the page.
SignOutOfSettings ==
    /\ view.phase = "shown" /\ view.at = "settings"
    /\ Load(SignedOut, "dashboard")

Expire ==
    /\ session.live
    /\ session' = [session EXCEPT !.live = FALSE]
    /\ UNCHANGED <<watching, path, view, store, ai, flying, races>>

\* The interval of watchExpiry: to the login view, without signing out.
ExpiryWatch ==
    /\ watching /\ ~session.live
    /\ Boot(session, path, store, ai, ShellReplaced(flying), FALSE)
    /\ races' = races \ {"view", "box"}
    /\ UNCHANGED <<session, path, store, ai>>

\* The list turns 60 s old.
Age ==
    /\ store.fresh
    /\ store' = [store EXCEPT !.fresh = FALSE]
    /\ UNCHANGED <<session, watching, path, view, ai, flying, races>>

-----------------------------------------------------------------------------
(* The user, in the shell. *)

\* A page replaces another whose render still waits for its answer.
Overtaken(p) ==
    {"view" : r \in {r \in MountedIn(flying, {"list", "get"}) : r.at # p}}

\* The handler of a route.
Navigate(p) ==
    /\ path' = p
    /\ IF session.live
       THEN /\ Render(p, session, store, ai, PageReplaced(flying))
            /\ races' = (races \ {"view", "box"}) \cup Overtaken(p)
            /\ UNCHANGED watching
       ELSE /\ Boot(session, p, store, ai, ShellReplaced(flying), watching)
            /\ races' = races \ {"view", "box"}
    /\ UNCHANGED <<session, store, ai>>

\* The retry button of a list that could not be loaded.
Retry ==
    /\ view.phase = "error" /\ view.at \in ListPages
    /\ Render(view.at, session, store, ai, PageReplaced(flying))
    /\ races' = (races \ {"box"}) \cup Overtaken(view.at)
    /\ UNCHANGED <<session, watching, path, store, ai>>

\* The refresh button of the findings page: loadFindings({force: true}).  It is
\* disabled meanwhile, the one of a page that is drawn again is not.
Refresh ==
    /\ view.phase = "shown" /\ view.at = "findings"
    /\ Send(flying, {Request("list", session, "findings", None, FALSE)})
    /\ UNCHANGED <<session, watching, path, view, store, ai, races>>

\* An AI button of the finding page; it is disabled while its request is out.
Pick(c) ==
    /\ view.phase = "shown" /\ view.at \in Findings
    /\ \A r \in MountedIn(flying, {"ai"}) : r.cap # c
    /\ LET pick == Picking(c, view.at, session, ai, TRUE)
       IN /\ view' = [view EXCEPT !.picked = c, !.box = pick.box]
          /\ Send(flying, pick.sends)
    /\ races' = (races \ {"box"}) \cup {"box" : r \in MountedIn(flying, {"ai"})}
    /\ UNCHANGED <<session, watching, path, store, ai>>

-----------------------------------------------------------------------------
(* The answers.  The backend refuses what is not the token's tenant's. *)

\* loadFindings() stores the list whoever is signed in by now.  A page in the
\* document is painted; findings.js also repaints whatever #table-wrap there is.
ListArrives(r) ==
    /\ r.kind = "list" /\ r.tenant # None
    /\ store' = [tenant |-> r.tenant, fresh |-> TRUE]
    /\ IF r.mounted
       THEN /\ view' = ListScreen(r.at, r.tenant)
            /\ flying' = PageReplaced(Handled(r))
       ELSE /\ view' = (IF r.at = "findings" /\ view.phase = "shown" /\ view.at = "findings"
                        THEN [view EXCEPT !.list = r.tenant] ELSE view)
            /\ flying' = Handled(r)
    /\ UNCHANGED <<session, watching, path, ai, races>>

\* The finding's page is filled in, and asks for the explanation: also when it
\* is no longer in the document, and then with the token of now.
FindingArrives(r) ==
    LET page == Detail(r.at, session, ai, r.mounted)
        rest == IF r.mounted THEN PageReplaced(Handled(r)) ELSE Handled(r)
    IN
    /\ r.kind = "get" /\ r.tenant = Owner[r.at]
    /\ view' = (IF r.mounted THEN page.view ELSE view)
    /\ Send(rest, page.sends)
    /\ UNCHANGED <<session, watching, path, store, ai, races>>

AiArrives(r) ==
    /\ r.kind = "ai" /\ r.tenant = Owner[r.at]
    /\ ai' = ai \cup {<<r.cap, r.at>>}
    /\ view' = (IF r.mounted THEN [view EXCEPT !.box = Result(r.cap, r.at)] ELSE view)
    /\ flying' = Handled(r)
    /\ UNCHANGED <<session, watching, path, store, races>>

\* Mutant of RequestFails: a failed analysis is only reported by a toast.
AnalysisFailsQuietly(r) ==
    /\ view' = (IF r.mounted /\ IsRender(r) THEN Screen("error", r.at) ELSE view)
    /\ flying' = (IF r.mounted /\ IsRender(r) THEN PageReplaced(Handled(r)) ELSE Handled(r))
    /\ UNCHANGED <<session, watching, path, store, ai, races>>

\* An ApiError: refused, timed out or unreachable.
RequestFails(r) ==
    /\ view' = (IF ~r.mounted THEN view
                ELSE IF IsRender(r) THEN Screen("error", r.at)
                ELSE [view EXCEPT !.box = [NoBox EXCEPT !.state = "error"]])
    /\ flying' = (IF r.mounted /\ IsRender(r) THEN PageReplaced(Handled(r)) ELSE Handled(r))
    /\ UNCHANGED <<session, watching, path, store, ai, races>>

Next ==
    \/ \E t \in Tenants : SignInWithToken(t) \/ MintToken(t)
    \/ SignOut \/ SignOutOfSettings \/ Reload
    \/ Expire \/ ExpiryWatch \/ Age
    \/ \E p \in Paths : Navigate(p)
    \/ Retry \/ Refresh
    \/ \E c \in Capabilities : Pick(c)
    \/ \E r \in BagToSet(flying) :
            TokenMinted(r) \/ ListArrives(r) \/ FindingArrives(r) \/ AiArrives(r) \/ RequestFails(r)

Spec == Init /\ [][Next]_vars

-----------------------------------------------------------------------------
Requests ==
    [kind : {"list", "get", "ai", "mint"}, tenant : Tenants \cup {None},
     at : Paths \cup {None}, cap : Capabilities \cup {None}, mounted : BOOLEAN]

TypeOK ==
    /\ session \in [tenant : Tenants, live : BOOLEAN] \cup {SignedOut}
    /\ watching \in BOOLEAN
    /\ watching => session # SignedOut
    /\ path \in Paths
    /\ view.phase \in {"login", "loading", "shown", "error"}
    /\ view.at \in Paths \cup {None}
    /\ store \in [tenant : Tenants, fresh : BOOLEAN] \cup {EmptyStore}
    /\ ai \subseteq Capabilities \X Findings
    /\ IsABag(flying) /\ BagToSet(flying) \subseteq Requests
    /\ races \subseteq {"carried", "view", "box"}

\* app.js:2-3, 175-185: however late an answer comes, and whatever the user does
\* in whichever order, the shell is shown only to somebody who has signed in,
\* and only while the watch runs that takes it away when the token expires.
ShellIsGuarded == view.phase # "login" => (session # SignedOut /\ watching)

\* store.js:1-4: what the store, the list and the finding page hold is of the
\* tenant that is signed in, unless this session replaced another tenant's that
\* was not signed out, or a list was under way at the last sign-out.
ShownIsOwn ==
    "carried" \notin races =>
        /\ store.tenant \in {None, session.tenant}
        /\ view.list \in {None, session.tenant}
        /\ (view.phase = "shown" /\ view.at \in Findings) => Owner[view.at] = session.tenant

\* The analysis under a finding is of that finding, and the highlighted one
\* unless two were out at once (finding.js:94-112).
AnalysisMatchesFinding ==
    view.box.state = "done" =>
        /\ view.box.of = view.at
        /\ "box" \notin races => view.box.cap = view.picked

\* The page shown is the routed one, unless it replaced a page that was still
\* waiting for its data (app.js:188-207, router.js:1-3).
RoutedPageIsShown ==
    (view.phase # "login" /\ "view" \notin races) => view.at = path

\* Whatever shows a spinner has a request out that will replace it: a page, an
\* analysis (api.js:1-4).
NoOrphanSpinner ==
    /\ view.phase = "loading" => MountedIn(flying, {"list", "get"}) # {}
    /\ view.box.state = "loading" => MountedIn(flying, {"ai"}) # {}

\* store.js:1-4: the store "Holds the current tenant's findings" and is
\* "Cleared on sign-out".
StoreIsCurrentTenants == store.tenant # None => store.tenant = session.tenant
=============================================================================
