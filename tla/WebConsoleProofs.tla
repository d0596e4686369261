-------------------------- MODULE WebConsoleProofs --------------------------
(***************************************************************************)
(* The safety of the console, for any tenants, findings and AI buttons and *)
(* any number of requests in flight.  None of the invariants the runs      *)
(* check is inductive: what a page shows next depends on the answers under *)
(* way.  IInv says of each of these, by Fits, what it still agrees with:   *)
(* one whose element is in the document was sent for the session and, if   *)
(* no page has been overtaken, for the page that are there now.            *)
(***************************************************************************)
EXTENDS WebConsole, Integers, TLAPS

Box ==
    [state : {"none", "loading", "done", "error"}, cap : Capabilities \cup {None},
     of : Findings \cup {None}]
View ==
    [phase : {"login", "loading", "shown", "error"}, at : Paths \cup {None},
     list : Tenants \cup {None}, picked : Capabilities \cup {None}, box : Box]
Session == [tenant : Tenants, live : BOOLEAN] \cup {SignedOut}
Store == [tenant : Tenants, fresh : BOOLEAN] \cup {EmptyStore}

\* What a request asks for is of its kind.
Sound(r) ==
    /\ r \in Requests
    /\ r.kind = "list" => r.at \in ListPages
    /\ r.kind \in {"get", "ai"} => r.at \in Findings
    /\ r.kind = "ai" => r.cap \in Capabilities
    /\ r.kind = "mint" => r.tenant \in Tenants /\ ~r.mounted

\* A list under way is this tenant's, unless a sign-in or sign-out lost track.
OwnList(r, s, rc) ==
    (r.kind = "list" /\ "carried" \notin rc) => r.tenant \in {None, s.tenant}

\* What a request agrees with whose element is in the document: the session s,
\* the view v and the path p, with the overlaps rc.
Fits(r, s, v, p, rc) ==
    /\ Sound(r) /\ OwnList(r, s, rc)
    /\ r.mounted => v.phase # "login" /\ r.tenant = s.tenant
    /\ r.mounted /\ r.kind = "ai" => r.at = v.at /\ ("box" \notin rc => r.cap = v.picked)
    /\ r.mounted /\ IsRender(r) /\ "view" \notin rc => r.at = p

FlightInv(fl, s, v, p, rc) ==
    IsABag(fl) /\ \A r \in BagToSet(fl) : Fits(r, s, v, p, rc)

\* What a view agrees with.
Shows(v, s, p, rc) ==
    /\ v \in View
    /\ "carried" \notin rc =>
          /\ v.list \in {None, s.tenant}
          /\ (v.phase = "shown" /\ v.at \in Findings) => Owner[v.at] = s.tenant
    /\ v.box.state = "done" =>
          v.box.of = v.at /\ ("box" \notin rc => v.box.cap = v.picked)
    /\ (v.phase # "login" /\ "view" \notin rc) => v.at = p

Spins(v, fl) ==
    /\ v.phase = "loading" => MountedIn(fl, {"list", "get"}) # {}
    /\ v.box.state = "loading" => MountedIn(fl, {"ai"}) # {}

StoreInv(st, s, rc) ==
    st \in Store /\ ("carried" \notin rc => st.tenant \in {None, s.tenant})

IInv ==
    /\ session \in Session /\ watching \in BOOLEAN /\ path \in Paths
    /\ ai \subseteq Capabilities \X Findings
    /\ races \subseteq {"carried", "view", "box"}
    /\ StoreInv(store, session, races)
    /\ Shows(view, session, path, races)
    /\ FlightInv(flying, session, view, path, races)
    /\ Spins(view, flying)
    /\ watching => session # SignedOut
    /\ session.live => view.phase # "login"
    /\ ShellIsGuarded

-----------------------------------------------------------------------------
(* What the operations on the bag of requests do to it. *)

LEMMA SentBag ==
    ASSUME NEW fl, NEW rs, IsABag(fl)
    PROVE  /\ IsABag(fl (+) SetToBag(rs))
           /\ BagToSet(fl (+) SetToBag(rs)) = BagToSet(fl) \cup rs
<1> DEFINE b == fl (+) SetToBag(rs)
<1>1. b = [e \in DOMAIN fl \cup rs |->
              (IF e \in DOMAIN fl THEN fl[e] ELSE 0) + (IF e \in rs THEN 1 ELSE 0)]
  BY DEF (+), SetToBag
<1>2. \A e \in DOMAIN fl : fl[e] \in Nat /\ fl[e] > 0
  BY DEF IsABag
<1>3. DOMAIN b = DOMAIN fl \cup rs
  BY <1>1
<1>4. \A e \in DOMAIN b : b[e] \in Nat /\ b[e] > 0
  BY <1>1, <1>2
<1>5. b = [e \in DOMAIN b |-> b[e]]
  BY <1>1
<1> HIDE DEF b
<1>6. b \in [DOMAIN b -> {n \in Nat : n > 0}]
  BY <1>4, <1>5
<1> QED BY <1>3, <1>6 DEF IsABag, BagToSet, b

LEMMA HandledBag ==
    ASSUME NEW r, IsABag(flying)
    PROVE  /\ IsABag(Handled(r))
           /\ BagToSet(Handled(r)) \subseteq BagToSet(flying)
           /\ BagToSet(flying) \ {r} \subseteq BagToSet(Handled(r))
<1> DEFINE c == [e \in DOMAIN flying |-> IF e \in {r} THEN flying[e] - 1 ELSE flying[e]]
           b == Handled(r)
<1>1. \A e \in DOMAIN flying : flying[e] \in Nat /\ flying[e] > 0
  BY DEF IsABag
<1>2. b = [e \in {d \in DOMAIN c : c[d] > 0} |-> c[e]]
  BY DEF Handled, (-), SetToBag
<1>3. \A e \in DOMAIN flying : c[e] \in Int /\ (e # r => c[e] > 0)
  BY <1>1
<1>4. DOMAIN c = DOMAIN flying
  OBVIOUS
<1> HIDE DEF b, c
<1>5. b \in [DOMAIN b -> {n \in Nat : n > 0}]
  BY <1>2, <1>3, <1>4
<1> QED BY <1>2, <1>3, <1>4, <1>5 DEF IsABag, BagToSet, b

LEMMA DetachedSound ==
    ASSUME NEW r, Sound(r)
    PROVE  /\ Sound(Detached(r)) /\ ~Detached(r).mounted
           /\ Detached(r).kind = r.kind /\ Detached(r).tenant = r.tenant
           /\ r.mounted => Attached(Detached(r)) = r
BY DEF Sound, Requests, Detached, Attached

LEMMA LoosenedBag ==
    ASSUME NEW fl, NEW lost \in SUBSET BagToSet(fl), IsABag(fl),
           \A q \in lost : Attached(Detached(q)) = q
    PROVE  /\ IsABag(Loosened(fl, lost))
           /\ BagToSet(Loosened(fl, lost)) = (BagToSet(fl) \ lost) \cup {Detached(q) : q \in lost}
<1> DEFINE kept == [r \in BagToSet(fl) \ lost |-> fl[r]]
           loose == [r \in {Detached(q) : q \in lost} |-> fl[Attached(r)]]
           b == Loosened(fl, lost)
<1>1. \A e \in DOMAIN fl : fl[e] \in Nat /\ fl[e] > 0
  BY DEF IsABag
<1>2. /\ DOMAIN kept = BagToSet(fl) \ lost /\ DOMAIN loose = {Detached(q) : q \in lost}
      /\ \A e \in DOMAIN kept : kept[e] \in Nat /\ kept[e] > 0
      /\ \A e \in DOMAIN loose : loose[e] \in Nat /\ loose[e] > 0
  BY <1>1 DEF BagToSet
<1>3. b = kept (+) loose
  BY DEF Loosened
<1> HIDE DEF kept, loose, b
<1>4. b = [e \in DOMAIN kept \cup DOMAIN loose |->
              (IF e \in DOMAIN kept THEN kept[e] ELSE 0)
              + (IF e \in DOMAIN loose THEN loose[e] ELSE 0)]
  BY <1>3 DEF (+)
<1>5. b \in [DOMAIN b -> {n \in Nat : n > 0}]
  BY <1>2, <1>4
<1> QED BY <1>2, <1>4, <1>5 DEF IsABag, BagToSet, b

LEMMA EmptyFlight ==
    IsABag(EmptyBag) /\ BagToSet(EmptyBag) = {}
BY DEF IsABag, EmptyBag, SetToBag, BagToSet

-----------------------------------------------------------------------------
(* What is in flight after the shell or the page it belongs to is replaced. *)

\* A request that holds nothing of the document agrees with any view.
Adrift(r, s, rc) == Sound(r) /\ OwnList(r, s, rc) /\ ~r.mounted

\* One that fits whatever page the shell shows next, but for its path.
Seated(r, s, p, rc) ==
    /\ Sound(r) /\ OwnList(r, s, rc)
    /\ r.mounted => IsRender(r) /\ r.tenant = s.tenant /\ ("view" \notin rc => r.at = p)

LEMMA ShellLoosened ==
    ASSUME NEW fl, NEW s, NEW rc, IsABag(fl),
           \A r \in BagToSet(fl) : Sound(r) /\ OwnList(r, s, rc)
    PROVE  /\ IsABag(ShellReplaced(fl))
           /\ \A r \in BagToSet(ShellReplaced(fl)) : Adrift(r, s, rc)
<1> DEFINE lost == {r \in BagToSet(fl) : r.mounted}
<1>1. \A q \in lost : Attached(Detached(q)) = q /\ Adrift(Detached(q), s, rc)
  BY DetachedSound DEF Adrift, OwnList
<1>2. /\ IsABag(Loosened(fl, lost))
      /\ BagToSet(Loosened(fl, lost)) = (BagToSet(fl) \ lost) \cup {Detached(q) : q \in lost}
  BY <1>1, LoosenedBag
<1>3. \A r \in BagToSet(fl) \ lost : Adrift(r, s, rc)
  BY DEF Adrift
<1> QED BY <1>1, <1>2, <1>3 DEF ShellReplaced

LEMMA PageLoosened ==
    ASSUME NEW fl, NEW s, NEW rc, IsABag(fl),
           \A r \in BagToSet(fl) : Sound(r) /\ OwnList(r, s, rc)
    PROVE  /\ IsABag(PageReplaced(fl))
           /\ \A r \in BagToSet(PageReplaced(fl)) :
                  /\ Sound(r) /\ OwnList(r, s, rc)
                  /\ r.mounted => IsRender(r) /\ r \in BagToSet(fl)
<1> DEFINE lost == {r \in BagToSet(fl) : r.mounted /\ ~IsRender(r)}
<1>1. \A q \in lost : Attached(Detached(q)) = q /\ Adrift(Detached(q), s, rc)
  BY DetachedSound DEF Adrift, OwnList
<1>2. /\ IsABag(Loosened(fl, lost))
      /\ BagToSet(Loosened(fl, lost)) = (BagToSet(fl) \ lost) \cup {Detached(q) : q \in lost}
  BY <1>1, LoosenedBag
<1>3. \A r \in BagToSet(fl) \ lost : r.mounted => IsRender(r)
  OBVIOUS
<1> QED BY <1>1, <1>2, <1>3 DEF PageReplaced, Adrift

-----------------------------------------------------------------------------
(* What a page shows at once, and what it sends. *)

LEMMA RequestFields ==
    ASSUME NEW k, NEW s, NEW p, NEW c, NEW m
    PROVE  LET r == Request(k, s, p, c, m)
           IN  /\ r.kind = k /\ r.tenant = s.tenant /\ r.at = p /\ r.cap = c /\ r.mounted = m
               /\ (k \in {"list", "get", "ai", "mint"} /\ s.tenant \in Tenants \cup {None}
                   /\ p \in Paths \cup {None} /\ c \in Capabilities \cup {None}
                   /\ m \in BOOLEAN) => r \in Requests
BY DEF Request, Requests

LEMMA SessionTenant ==
    ASSUME NEW s \in Session
    PROVE  s.tenant \in Tenants \cup {None}
BY DEF Session, SignedOut

\* The state of the result box after a click on c on the page of f.
Boxed(box, sends, c, f, s, m) ==
    /\ box \in Box
    /\ box.state = "done" => box.of = f /\ box.cap = c
    /\ box.state = "loading" => sends # {}
    /\ \A r \in sends :
          Sound(r) /\ r.kind = "ai" /\ r.tenant = s.tenant /\ r.at = f /\ r.cap = c /\ r.mounted = m

LEMMA PickingShows ==
    ASSUME NEW c \in Capabilities, NEW f \in Findings, NEW s \in Session, NEW m \in BOOLEAN,
           NEW cache
    PROVE  Boxed(Picking(c, f, s, cache, m).box, Picking(c, f, s, cache, m).sends, c, f, s, m)
<1>1. CASE <<c, f>> \in cache
  <2>1. Picking(c, f, s, cache, m) = [box |-> Result(c, f), sends |-> {}]
    BY <1>1 DEF Picking
  <2> QED BY <2>1 DEF Boxed, Box, Result
<1>2. CASE <<c, f>> \notin cache
  <2> DEFINE r == Request("ai", s, f, c, m)
  <2>1. Picking(c, f, s, cache, m) = [box |-> [NoBox EXCEPT !.state = "loading"], sends |-> {r}]
    BY <1>2 DEF Picking
  <2>2. Sound(r) /\ r.kind = "ai" /\ r.tenant = s.tenant /\ r.at = f /\ r.cap = c /\ r.mounted = m
    BY RequestFields, SessionTenant DEF Sound, Paths
  <2> HIDE DEF r
  <2> QED BY <2>1, <2>2 DEF Boxed, Box, NoBox
<1> QED BY <1>1, <1>2

LEMMA ScreenView ==
    ASSUME NEW ph \in {"login", "loading", "shown", "error"}, NEW p \in Paths \cup {None}
    PROVE  /\ Screen(ph, p) \in View
           /\ Screen(ph, p).phase = ph /\ Screen(ph, p).at = p /\ Screen(ph, p).list = None
           /\ Screen(ph, p).picked = None /\ Screen(ph, p).box.state = "none"
BY DEF Screen, View, Box, NoBox

LEMMA DetailShows ==
    ASSUME NEW f \in Findings, NEW s \in Session, NEW m \in BOOLEAN, NEW cache
    PROVE  LET page == Detail(f, s, cache, m)
           IN  /\ page.view \in View
               /\ page.view.phase = "shown" /\ page.view.at = f
               /\ page.view.list = None /\ page.view.picked = "explain"
               /\ Boxed(page.view.box, page.sends, "explain", f, s, m)
<1> DEFINE explain == Picking("explain", f, s, cache, m)
           v == [Screen("shown", f) EXCEPT !.picked = "explain", !.box = explain.box]
<1>1. Boxed(explain.box, explain.sends, "explain", f, s, m)
  BY PickingShows, ConsoleAssumption DEF ConsoleAssumption
<1>2. Detail(f, s, cache, m) = [view |-> v, sends |-> explain.sends]
  BY DEF Detail
<1>3. /\ v \in View /\ v.phase = "shown" /\ v.at = f /\ v.list = None /\ v.picked = "explain"
      /\ v.box = explain.box
  <2>1. "explain" \in Capabilities /\ explain.box \in Box
    BY <1>1, ConsoleAssumption DEF ConsoleAssumption, Boxed
  <2>2. f \in Paths
    BY DEF Paths
  <2> HIDE DEF explain
  <2> QED BY <2>1, <2>2, ScreenView DEF View, Screen
<1> HIDE DEF explain, v
<1> QED BY <1>1, <1>2, <1>3

\* A page as a route's handler leaves it: what it shows, and what it sends.
Opens(page, p, s) ==
    /\ page.view \in View /\ page.view.at = p /\ page.view.phase # "login"
    /\ page.view.phase = "loading" => page.sends # {} /\ \A r \in page.sends : IsRender(r)
    /\ page.view.box.state = "loading" => page.sends # {} /\ \A r \in page.sends : r.kind = "ai"
    /\ page.view.box.state = "done" =>
          page.view.box.of = p /\ page.view.box.cap = page.view.picked
    /\ \A r \in page.sends :
          /\ Sound(r) /\ r.mounted /\ r.tenant = s.tenant /\ r.at = p
          /\ r.kind = "ai" => r.cap = page.view.picked

LEMMA RenderingOpens ==
    ASSUME NEW p \in Paths, NEW s \in Session, NEW st \in Store, NEW cache
    PROVE  LET page == Rendering(p, s, st, cache)
           IN  /\ Opens(page, p, s)
               /\ page.view.list \in {None, st.tenant}
               /\ (page.view.phase = "shown" /\ p \in Findings) => Owner[p] = st.tenant
<1>0. /\ st.tenant \in Tenants \cup {None}
      /\ Findings \cap {"dashboard", "findings", "settings"} = {}
  BY ConsoleAssumption DEF Store, EmptyStore, ConsoleAssumption
<1>1. CASE p \in ListPages /\ st.fresh
  <2>1. Rendering(p, s, st, cache) = [view |-> ListScreen(p, st.tenant), sends |-> {}]
    BY <1>1 DEF Rendering, Listing
  <2>2. /\ ListScreen(p, st.tenant) \in View /\ ListScreen(p, st.tenant).phase = "shown"
        /\ ListScreen(p, st.tenant).at = p /\ ListScreen(p, st.tenant).list = st.tenant
        /\ ListScreen(p, st.tenant).box.state = "none"
    BY <1>0, ScreenView DEF ListScreen, View, Screen
  <2> QED BY <1>0, <1>1, <2>1, <2>2 DEF Opens, ListPages
<1>2. CASE p \in ListPages /\ ~st.fresh
  <2> DEFINE r == Request("list", s, p, None, TRUE)
  <2>1. Rendering(p, s, st, cache) = [view |-> Screen("loading", p), sends |-> {r}]
    BY <1>2 DEF Rendering, Listing
  <2>2. /\ r.kind = "list" /\ r.tenant = s.tenant /\ r.at = p /\ r.mounted
        /\ r \in Requests
    BY SessionTenant DEF Request, Requests
  <2>4. Sound(r)
    BY <1>2, <2>2 DEF Sound
  <2>3. IsRender(r)
    BY <2>2 DEF IsRender
  <2> HIDE DEF r
  <2> QED BY <1>0, <2>1, <2>2, <2>3, <2>4, ScreenView DEF Opens
<1>3. CASE p \in Findings /\ st.tenant = Owner[p]
  <2>1. Rendering(p, s, st, cache) = Detail(p, s, cache, TRUE)
    BY <1>0, <1>3 DEF Rendering, Inspecting, ListPages
  <2>2. LET page == Detail(p, s, cache, TRUE)
        IN  /\ page.view \in View
            /\ page.view.phase = "shown" /\ page.view.at = p
            /\ page.view.list = None /\ page.view.picked = "explain"
            /\ Boxed(page.view.box, page.sends, "explain", p, s, TRUE)
    BY <1>3, DetailShows
  <2> QED BY <1>3, <2>1, <2>2 DEF Opens, Boxed
<1>4. CASE p \in Findings /\ st.tenant # Owner[p]
  <2> DEFINE r == Request("get", s, p, None, TRUE)
  <2>1. Rendering(p, s, st, cache) = [view |-> Screen("loading", p), sends |-> {r}]
    BY <1>0, <1>4 DEF Rendering, Inspecting, ListPages
  <2>2. /\ r.kind = "get" /\ r.tenant = s.tenant /\ r.at = p /\ r.mounted
        /\ r \in Requests
    BY SessionTenant DEF Request, Requests
  <2>4. Sound(r)
    BY <1>4, <2>2 DEF Sound
  <2>3. IsRender(r)
    BY <2>2 DEF IsRender
  <2> HIDE DEF r
  <2> QED BY <1>0, <2>1, <2>2, <2>3, <2>4, ScreenView DEF Opens
<1>5. CASE p = "settings"
  <2>1. Rendering(p, s, st, cache) = [view |-> Screen("shown", p), sends |-> {}]
    BY <1>0, <1>5 DEF Rendering, ListPages
  <2> QED BY <1>0, <1>5, <2>1, ScreenView DEF Opens
<1> QED BY <1>1, <1>2, <1>3, <1>4, <1>5 DEF Paths

LEMMA SeatedFits ==
    ASSUME NEW r, NEW s, NEW v, NEW p, NEW rc, Seated(r, s, p, rc), v.phase # "login"
    PROVE  Fits(r, s, v, p, rc)
BY DEF Seated, Fits, IsRender

LEMMA AdriftFits ==
    ASSUME NEW r, NEW s, NEW v, NEW p, NEW rc, Adrift(r, s, rc)
    PROVE  Fits(r, s, v, p, rc) /\ Seated(r, s, p, rc)
BY DEF Adrift, Seated, Fits

\* A render leaves a page, and requests that fit it.
LEMMA RenderLeaves ==
    ASSUME NEW p \in Paths, NEW s \in Session, NEW st, NEW cache, NEW fl, NEW rc,
           StoreInv(st, s, rc), IsABag(fl),
           \A r \in BagToSet(fl) : Seated(r, s, p, rc),
           Render(p, s, st, cache, fl)
    PROVE  /\ Shows(view', s, p, rc) /\ view'.phase # "login"
           /\ FlightInv(flying', s, view', p, rc)
           /\ Spins(view', flying')
<1> DEFINE page == Rendering(p, s, st, cache)
<1>1. /\ Opens(page, p, s)
      /\ page.view.list \in {None, st.tenant}
      /\ (page.view.phase = "shown" /\ p \in Findings) => Owner[p] = st.tenant
  BY RenderingOpens DEF StoreInv
<1>2. view' = page.view /\ flying' = fl (+) SetToBag(page.sends)
  BY DEF Render, Send
<1> HIDE DEF page
<1>3. /\ IsABag(flying')
      /\ BagToSet(flying') = BagToSet(fl) \cup page.sends
  BY <1>2, SentBag
<1>4. \A r \in page.sends : Fits(r, s, view', p, rc)
  BY <1>1, <1>2 DEF Fits, Opens, OwnList
<1>5. \A r \in BagToSet(fl) : Fits(r, s, view', p, rc)
  BY <1>1, <1>2, SeatedFits DEF Opens
<1>6. Shows(view', s, p, rc)
  <2>1. "carried" \notin rc => view'.list \in {None, s.tenant}
    BY <1>1, <1>2 DEF StoreInv
  <2>2. ASSUME "carried" \notin rc, view'.phase = "shown", view'.at \in Findings
        PROVE  Owner[view'.at] = s.tenant
    <3>1. p \in Findings /\ view'.at = p /\ Owner[p] = st.tenant /\ st.tenant \in {None, s.tenant}
      BY <1>1, <1>2, <2>2 DEF StoreInv, Opens
    <3>2. Owner[p] # None
      BY <3>1, ConsoleAssumption DEF ConsoleAssumption
    <3> QED BY <3>1, <3>2
  <2> QED BY <1>1, <1>2, <2>1, <2>2 DEF Shows, Opens
<1>7. Spins(view', flying')
  <2>1. view'.phase = "loading" => MountedIn(flying', {"list", "get"}) # {}
    BY <1>1, <1>2, <1>3 DEF Opens, MountedIn, IsRender
  <2>2. view'.box.state = "loading" => MountedIn(flying', {"ai"}) # {}
    BY <1>1, <1>2, <1>3 DEF Opens, MountedIn
  <2> QED BY <2>1, <2>2 DEF Spins
<1>8. view'.phase # "login"
  BY <1>1, <1>2 DEF Opens
<1> QED BY <1>3, <1>4, <1>5, <1>6, <1>7, <1>8 DEF FlightInv

\* boot() leaves the shell with a watch, or the login view.
LEMMA BootLeaves ==
    ASSUME NEW p \in Paths, NEW s \in Session, NEW st, NEW cache, NEW fl, NEW rc,
           NEW timer \in BOOLEAN,
           StoreInv(st, s, rc), IsABag(fl),
           \A r \in BagToSet(fl) : Adrift(r, s, rc),
           Boot(s, p, st, cache, fl, timer)
    PROVE  /\ Shows(view', s, p, rc)
           /\ FlightInv(flying', s, view', p, rc)
           /\ Spins(view', flying')
           /\ watching' \in BOOLEAN
           /\ watching' => s.live \/ timer
           /\ s.live => view'.phase # "login"
           /\ view'.phase # "login" => (s.live /\ watching')
<1>1. CASE s.live
  <2>1. Render(p, s, st, cache, fl) /\ watching' = TRUE
    BY <1>1 DEF Boot
  <2>2. \A r \in BagToSet(fl) : Seated(r, s, p, rc)
    BY AdriftFits
  <2>3. /\ Shows(view', s, p, rc) /\ view'.phase # "login"
        /\ FlightInv(flying', s, view', p, rc)
        /\ Spins(view', flying')
    BY <2>1, <2>2, RenderLeaves
  <2> QED BY <1>1, <2>1, <2>3
<1>2. CASE ~s.live
  <2>1. view' = LoginScreen /\ flying' = fl /\ watching' = timer
    BY <1>2 DEF Boot
  <2>2. /\ view' \in View /\ view'.phase = "login" /\ view'.list = None
        /\ view'.box.state = "none"
    BY <2>1, ScreenView DEF LoginScreen
  <2>3. FlightInv(flying', s, view', p, rc)
    BY <2>1, AdriftFits DEF FlightInv
  <2> QED BY <1>2, <2>1, <2>2, <2>3 DEF Shows, Spins
<1> QED BY <1>1, <1>2

-----------------------------------------------------------------------------
LEMMA InitOK == Init => IInv
<1> SUFFICES ASSUME Init PROVE IInv
  OBVIOUS
<1>1. LoginScreen \in View /\ LoginScreen.phase = "login" /\ LoginScreen.list = None
      /\ LoginScreen.box.state = "none"
  BY ScreenView DEF LoginScreen
<1>2. Shows(view, session, path, races) /\ Spins(view, flying)
  BY <1>1 DEF Init, Shows, Spins
<1>3. FlightInv(flying, session, view, path, races)
  BY EmptyFlight DEF Init, FlightInv
<1>4. StoreInv(store, session, races)
  BY DEF Init, StoreInv, Store, EmptyStore
<1>5. session \in Session /\ ~session.live
  BY DEF Init, Session, SignedOut
<1> QED BY <1>1, <1>2, <1>3, <1>4, <1>5 DEF Init, IInv, ShellIsGuarded

\* What boot() leaves is good, whatever session it found.
LEMMA BootKeeps ==
    ASSUME path' \in Paths, session' \in Session, NEW fl, NEW timer \in BOOLEAN,
           ai' \subseteq Capabilities \X Findings,
           races' \subseteq {"carried", "view", "box"},
           StoreInv(store', session', races'), IsABag(fl),
           \A r \in BagToSet(fl) : Adrift(r, session', races'),
           timer => session' # SignedOut,
           Boot(session', path', store', ai', fl, timer)
    PROVE  IInv'
<1>1. /\ Shows(view', session', path', races')
      /\ FlightInv(flying', session', view', path', races')
      /\ Spins(view', flying')
      /\ watching' \in BOOLEAN
      /\ watching' => session'.live \/ timer
      /\ session'.live => view'.phase # "login"
      /\ view'.phase # "login" => (session'.live /\ watching')
  BY BootLeaves
<1>2. session'.live => session' # SignedOut
  BY DEF SignedOut
<1> QED BY <1>1, <1>2 DEF IInv, ShellIsGuarded

\* What is in flight can always be loosened, and one of it dropped.
LEMMA FlightFacts ==
    ASSUME IInv
    PROVE  /\ IsABag(flying)
           /\ \A r \in BagToSet(flying) :
                 Fits(r, session, view, path, races) /\ Sound(r) /\ OwnList(r, session, races)
BY DEF IInv, FlightInv, Fits

LEMMA SignsInOK ==
    ASSUME IInv, NEW t \in Tenants, NEW fl, IsABag(fl),
           BagToSet(fl) \subseteq BagToSet(flying), SignsIn(t, fl)
    PROVE  IInv'
<1>1. session' = [tenant |-> t, live |-> TRUE] /\ path' = path /\ store' = store /\ ai' = ai
  BY DEF SignsIn
<1>2. /\ races' \subseteq {"carried", "view", "box"}
      /\ "carried" \notin races' => "carried" \notin races /\ session.tenant \in {None, t}
  BY DEF SignsIn, IInv
<1>3. session' \in Session /\ session'.tenant = t
  BY <1>1 DEF Session
<1>4. \A r \in BagToSet(fl) : Sound(r) /\ OwnList(r, session', races')
  BY <1>2, <1>3, FlightFacts DEF OwnList
<1>5. /\ IsABag(ShellReplaced(fl))
      /\ \A r \in BagToSet(ShellReplaced(fl)) : Adrift(r, session', races')
  BY <1>4, ShellLoosened
<1>6. StoreInv(store', session', races')
  BY <1>1, <1>2, <1>3 DEF StoreInv, IInv
<1>7. session' # SignedOut
  BY <1>1 DEF SignedOut
<1>8. Boot(session', path', store', ai', ShellReplaced(fl), watching)
  BY <1>1 DEF SignsIn
<1> QED BY <1>1, <1>2, <1>3, <1>5, <1>6, <1>7, <1>8, BootKeeps DEF IInv

LEMMA LoadOK ==
    ASSUME IInv, NEW s \in Session, NEW p \in Paths, Load(s, p)
    PROVE  IInv'
<1>1. session' \in Session /\ path' = p /\ store' = EmptyStore /\ ai' = {} /\ races' = {}
  BY DEF Load, Session
<1>2. StoreInv(store', session', races')
  BY <1>1 DEF StoreInv, Store, EmptyStore
<1>3. Boot(session', path', store', ai', EmptyBag, FALSE)
  BY <1>1 DEF Load
<1> QED BY <1>1, <1>2, <1>3, EmptyFlight, BootKeeps

LEMMA SignOutOK ==
    ASSUME IInv, SignOut
    PROVE  IInv'
<1>1. session' = SignedOut /\ path' = path /\ store' = EmptyStore /\ ai' = {}
  BY DEF SignOut
<1>2. /\ races' \subseteq {"carried", "view", "box"}
      /\ "carried" \notin races' => \A r \in BagToSet(flying) : r.kind # "list"
  BY DEF SignOut
<1>3. session' \in Session
  BY <1>1 DEF Session
<1>4. \A r \in BagToSet(flying) : Sound(r) /\ OwnList(r, session', races')
  BY <1>2, FlightFacts DEF OwnList
<1>5. /\ IsABag(ShellReplaced(flying))
      /\ \A r \in BagToSet(ShellReplaced(flying)) : Adrift(r, session', races')
  BY <1>4, FlightFacts, ShellLoosened
<1>6. StoreInv(store', session', races')
  BY <1>1 DEF StoreInv, Store, EmptyStore
<1>7. Boot(session', path', store', ai', ShellReplaced(flying), FALSE)
  BY <1>1 DEF SignOut
<1> QED BY <1>1, <1>2, <1>3, <1>5, <1>6, <1>7, BootKeeps DEF IInv

\* A step that leaves the shell, or the login view, in its place.
LEMMA ShellKeeps ==
    ASSUME IInv, UNCHANGED <<session, watching>>, path' \in Paths,
           ai' \subseteq Capabilities \X Findings,
           races' \subseteq {"carried", "view", "box"},
           StoreInv(store', session, races'),
           Shows(view', session, path', races'),
           FlightInv(flying', session, view', path', races'),
           Spins(view', flying'),
           view'.phase # "login" <=> view.phase # "login"
    PROVE  IInv'
BY DEF IInv, ShellIsGuarded

LEMMA ExpiryWatchOK ==
    ASSUME IInv, ExpiryWatch
    PROVE  IInv'
<1>1. session' = session /\ path' = path /\ store' = store /\ ai' = ai
      /\ races' = races \ {"view", "box"}
  BY DEF ExpiryWatch
<1>2. /\ IsABag(ShellReplaced(flying))
      /\ \A r \in BagToSet(ShellReplaced(flying)) : Adrift(r, session, races')
  <2>1. \A r \in BagToSet(flying) : Sound(r) /\ OwnList(r, session, races')
    BY <1>1, FlightFacts DEF OwnList
  <2> QED BY <2>1, FlightFacts, ShellLoosened
<1>3. StoreInv(store', session', races')
  BY <1>1 DEF StoreInv, IInv
<1>4. Boot(session', path', store', ai', ShellReplaced(flying), FALSE)
  BY <1>1 DEF ExpiryWatch
<1> QED BY <1>1, <1>2, <1>3, <1>4, BootKeeps DEF IInv

\* What another page finds in flight when it replaces this one.
LEMMA OvertakenSeated ==
    ASSUME IInv, NEW p \in Paths, NEW rc \in SUBSET {"carried", "view", "box"},
           Overtaken(p) \subseteq rc, "carried" \in races => "carried" \in rc
    PROVE  /\ IsABag(PageReplaced(flying))
           /\ \A r \in BagToSet(PageReplaced(flying)) : Seated(r, session, p, rc)
<1>1. \A r \in BagToSet(flying) : Sound(r) /\ OwnList(r, session, rc)
  BY FlightFacts DEF OwnList
<1>2. /\ IsABag(PageReplaced(flying))
      /\ \A r \in BagToSet(PageReplaced(flying)) :
             /\ Sound(r) /\ OwnList(r, session, rc)
             /\ r.mounted => IsRender(r) /\ r \in BagToSet(flying)
  BY <1>1, FlightFacts, PageLoosened
<1>3. ASSUME NEW r \in BagToSet(flying), r.mounted, IsRender(r)
      PROVE  r.tenant = session.tenant /\ ("view" \notin rc => r.at = p)
  <2>1. r.tenant = session.tenant
    BY <1>3, FlightFacts DEF Fits
  <2>2. r \in MountedIn(flying, {"list", "get"})
    BY <1>3 DEF MountedIn, IsRender
  <2> QED BY <2>1, <2>2 DEF Overtaken
<1> QED BY <1>2, <1>3 DEF Seated

LEMMA NavigateOK ==
    ASSUME IInv, NEW p \in Paths, Navigate(p)
    PROVE  IInv'
<1>0. session' = session /\ path' = p /\ store' = store /\ ai' = ai
  BY DEF Navigate
<1>1. CASE session.live
  <2>1. /\ Render(p, session, store, ai, PageReplaced(flying))
        /\ races' = (races \ {"view", "box"}) \cup Overtaken(p)
        /\ watching' = watching
    BY <1>1 DEF Navigate
  <2>2. races' \subseteq {"carried", "view", "box"}
    BY <2>1 DEF IInv, Overtaken
  <2>3. /\ IsABag(PageReplaced(flying))
        /\ \A r \in BagToSet(PageReplaced(flying)) : Seated(r, session, p, races')
    BY <2>1, <2>2, OvertakenSeated
  <2>4. StoreInv(store, session, races')
    BY <2>1 DEF StoreInv, IInv
  <2>5. /\ Shows(view', session, p, races') /\ view'.phase # "login"
        /\ FlightInv(flying', session, view', p, races')
        /\ Spins(view', flying')
    BY <2>1, <2>3, <2>4, RenderLeaves DEF IInv
  <2>6. view.phase # "login"
    BY <1>1 DEF IInv
  <2> QED BY <1>0, <2>1, <2>2, <2>4, <2>5, <2>6, ShellKeeps DEF IInv
<1>2. CASE ~session.live
  <2>1. /\ Boot(session, p, store, ai, ShellReplaced(flying), watching)
        /\ races' = races \ {"view", "box"}
    BY <1>2 DEF Navigate
  <2>2. /\ IsABag(ShellReplaced(flying))
        /\ \A r \in BagToSet(ShellReplaced(flying)) : Adrift(r, session, races')
    <3>1. \A r \in BagToSet(flying) : Sound(r) /\ OwnList(r, session, races')
      BY <2>1, FlightFacts DEF OwnList
    <3> QED BY <3>1, FlightFacts, ShellLoosened
  <2>3. StoreInv(store', session', races')
    BY <1>0, <2>1 DEF StoreInv, IInv
  <2>4. Boot(session', path', store', ai', ShellReplaced(flying), watching)
    BY <1>0, <2>1
  <2> QED BY <1>0, <2>1, <2>2, <2>3, <2>4, BootKeeps DEF IInv
<1> QED BY <1>1, <1>2

LEMMA RetryOK ==
    ASSUME IInv, Retry
    PROVE  IInv'
<1> DEFINE p == view.at
<1>1. /\ p \in Paths /\ view.phase = "error"
      /\ Render(p, session, store, ai, PageReplaced(flying))
      /\ races' = (races \ {"box"}) \cup Overtaken(p)
      /\ UNCHANGED <<session, watching, path, store, ai>>
  BY DEF Retry, Paths
<1>2. races' \subseteq {"carried", "view", "box"}
  BY <1>1 DEF IInv, Overtaken
<1>3. /\ IsABag(PageReplaced(flying))
      /\ \A r \in BagToSet(PageReplaced(flying)) : Seated(r, session, p, races')
  BY <1>1, <1>2, OvertakenSeated
<1>4. StoreInv(store, session, races')
  BY <1>1, <1>2 DEF StoreInv, IInv
<1>5. /\ Shows(view', session, p, races') /\ view'.phase # "login"
      /\ FlightInv(flying', session, view', p, races')
      /\ Spins(view', flying')
  BY <1>1, <1>3, <1>4, RenderLeaves DEF IInv
<1>6. "view" \notin races' => p = path
  BY <1>1 DEF IInv, Shows
<1>7. Shows(view', session, path, races') /\ FlightInv(flying', session, view', path, races')
  BY <1>5, <1>6 DEF Shows, FlightInv, Fits
<1> QED BY <1>1, <1>2, <1>4, <1>5, <1>7, ShellKeeps DEF IInv

\* Sending what fits, with the view as it is.
LEMMA SendKeeps ==
    ASSUME IInv, NEW rs, Send(flying, rs),
           \A r \in rs : Fits(r, session, view, path, races)
    PROVE  FlightInv(flying', session, view, path, races) /\ Spins(view, flying')
<1>1. flying' = flying (+) SetToBag(rs)
  BY DEF Send
<1>2. IsABag(flying') /\ BagToSet(flying') = BagToSet(flying) \cup rs
  BY <1>1, FlightFacts, SentBag
<1>3. FlightInv(flying', session, view, path, races)
  BY <1>2, FlightFacts DEF FlightInv
<1>4. Spins(view, flying')
  BY <1>2 DEF IInv, Spins, MountedIn
<1> QED BY <1>3, <1>4

LEMMA MintTokenOK ==
    ASSUME IInv, NEW t \in Tenants, MintToken(t)
    PROVE  IInv'
<1> DEFINE r == Request("mint", [tenant |-> t], None, None, FALSE)
<1>1. r.kind = "mint" /\ r.tenant = t /\ ~r.mounted /\ r \in Requests
  BY DEF Request, Requests
<1>2. Fits(r, session, view, path, races)
  BY <1>1 DEF Fits, Sound, OwnList
<1> HIDE DEF r
<1>3. Send(flying, {r}) /\ UNCHANGED <<session, watching, path, view, store, ai, races>>
  BY DEF MintToken, r
<1> QED BY <1>2, <1>3, SendKeeps, ShellKeeps DEF IInv

LEMMA RefreshOK ==
    ASSUME IInv, Refresh
    PROVE  IInv'
<1> DEFINE r == Request("list", session, "findings", None, FALSE)
<1>0. session.tenant \in Tenants \cup {None}
  BY SessionTenant DEF IInv
<1>1. /\ r.kind = "list" /\ r.tenant = session.tenant /\ r.at = "findings" /\ ~r.mounted
      /\ r \in Requests
  BY <1>0 DEF Request, Requests, Paths, ListPages
<1>2. Fits(r, session, view, path, races)
  BY <1>1 DEF Fits, Sound, OwnList, ListPages
<1> HIDE DEF r
<1>3. Send(flying, {r}) /\ UNCHANGED <<session, watching, path, view, store, ai, races>>
  BY DEF Refresh, r
<1> QED BY <1>2, <1>3, SendKeeps, ShellKeeps DEF IInv

LEMMA PickOK ==
    ASSUME IInv, NEW c \in Capabilities, Pick(c)
    PROVE  IInv'
<1> DEFINE f == view.at
           pick == Picking(c, f, session, ai, TRUE)
<1>1. /\ view.phase = "shown" /\ f \in Findings
      /\ view' = [view EXCEPT !.picked = c, !.box = pick.box]
      /\ Send(flying, pick.sends)
      /\ races' = (races \ {"box"}) \cup {"box" : r \in MountedIn(flying, {"ai"})}
      /\ UNCHANGED <<session, watching, path, store, ai>>
  BY DEF Pick
<1>2. Boxed(pick.box, pick.sends, c, f, session, TRUE)
  BY <1>1, PickingShows DEF IInv
<1> HIDE DEF pick
<1>3. /\ view \in View /\ view' \in View /\ view'.phase = view.phase /\ view'.at = f
      /\ view'.list = view.list /\ view'.picked = c /\ view'.box = pick.box
  BY <1>1, <1>2 DEF IInv, Shows, View, Boxed
<1>4. /\ races' \subseteq {"carried", "view", "box"}
      /\ "view" \in races' <=> "view" \in races
      /\ "carried" \in races' <=> "carried" \in races
      /\ "box" \notin races' => MountedIn(flying, {"ai"}) = {}
  BY <1>1 DEF IInv
<1>5. IsABag(flying') /\ BagToSet(flying') = BagToSet(flying) \cup pick.sends
  BY <1>1, FlightFacts, SentBag DEF Send
<1>6. \A r \in pick.sends : Fits(r, session, view', path, races')
  BY <1>1, <1>2, <1>3 DEF Boxed, Fits, OwnList, IsRender
<1>7. ASSUME NEW r \in BagToSet(flying)
      PROVE  Fits(r, session, view', path, races')
  <2>1. Fits(r, session, view, path, races)
    BY FlightFacts
  <2>2. ~(r.mounted /\ r.kind = "ai" /\ "box" \notin races')
    BY <1>4 DEF MountedIn
  <2> QED BY <1>1, <1>3, <1>4, <2>1, <2>2 DEF Fits, OwnList
<1>8. FlightInv(flying', session, view', path, races')
  BY <1>5, <1>6, <1>7 DEF FlightInv
<1>9. Shows(view', session, path, races')
  BY <1>1, <1>2, <1>3, <1>4 DEF IInv, Shows, Boxed
<1>10. Spins(view', flying')
  <2>1. view'.box.state = "loading" => \E r \in pick.sends : r.mounted /\ r.kind = "ai"
    BY <1>2, <1>3 DEF Boxed
  <2> QED BY <1>1, <1>3, <1>5, <2>1 DEF Spins, MountedIn
<1>11. StoreInv(store', session, races')
  BY <1>1, <1>4 DEF IInv, StoreInv
<1> QED BY <1>1, <1>3, <1>4, <1>8, <1>9, <1>10, <1>11, ShellKeeps DEF IInv

LEMMA ExpireOK ==
    ASSUME IInv, Expire
    PROVE  IInv'
<1>1. session.live /\ session' = [session EXCEPT !.live = FALSE]
      /\ UNCHANGED <<watching, path, view, store, ai, flying, races>>
  BY DEF Expire
<1>2. session \in [tenant : Tenants, live : BOOLEAN]
  BY <1>1 DEF IInv, Session, SignedOut
<1>3. /\ session' \in [tenant : Tenants, live : BOOLEAN] /\ ~session'.live
      /\ session'.tenant = session.tenant
  BY <1>1, <1>2
<1>4. session' \in Session /\ session' # SignedOut
  BY <1>3, ConsoleAssumption DEF Session, SignedOut, ConsoleAssumption
<1>5. StoreInv(store', session', races') /\ Shows(view', session', path', races')
  BY <1>1, <1>3 DEF IInv, StoreInv, Shows
<1>6. FlightInv(flying', session', view', path', races')
  BY <1>1, <1>3 DEF IInv, FlightInv, Fits, OwnList
<1> QED BY <1>1, <1>3, <1>4, <1>5, <1>6 DEF IInv, ShellIsGuarded

LEMMA AgeOK ==
    ASSUME IInv, Age
    PROVE  IInv'
<1>1. store.fresh /\ store' = [store EXCEPT !.fresh = FALSE]
      /\ UNCHANGED <<session, watching, path, view, ai, flying, races>>
  BY DEF Age
<1>2. store \in [tenant : Tenants, fresh : BOOLEAN]
  BY <1>1 DEF IInv, StoreInv, Store, EmptyStore
<1>3. store' \in [tenant : Tenants, fresh : BOOLEAN] /\ store'.tenant = store.tenant
  BY <1>1, <1>2
<1>4. StoreInv(store', session, races')
  BY <1>1, <1>3 DEF IInv, StoreInv, Store
<1> QED BY <1>1, <1>4, ShellKeeps DEF IInv

LEMMA TokenMintedOK ==
    ASSUME IInv, NEW r \in BagToSet(flying), TokenMinted(r)
    PROVE  IInv'
<1>1. r.tenant \in Tenants
  BY FlightFacts DEF Sound, TokenMinted
<1>2. IsABag(Handled(r)) /\ BagToSet(Handled(r)) \subseteq BagToSet(flying)
  BY FlightFacts, HandledBag
<1> QED BY <1>1, <1>2, SignsInOK DEF TokenMinted

\* What is left when an answer is handled.
LEMMA HandledFacts ==
    ASSUME IInv, NEW r \in BagToSet(flying)
    PROVE  /\ IsABag(Handled(r))
           /\ \A q \in BagToSet(Handled(r)) :
                 /\ Fits(q, session, view, path, races) /\ Sound(q)
                 /\ OwnList(q, session, races)
           /\ BagToSet(flying) \ {r} \subseteq BagToSet(Handled(r))
BY FlightFacts, HandledBag

\* A page that replaces another one when its own answer comes finds in flight
\* what fits it, if its request did.
LEMMA RepaintedSeated ==
    ASSUME IInv, NEW r \in BagToSet(flying)
    PROVE  /\ IsABag(PageReplaced(Handled(r)))
           /\ \A q \in BagToSet(PageReplaced(Handled(r))) : Seated(q, session, path, races)
<1>1. /\ IsABag(PageReplaced(Handled(r)))
      /\ \A q \in BagToSet(PageReplaced(Handled(r))) :
             /\ Sound(q) /\ OwnList(q, session, races)
             /\ q.mounted => IsRender(q) /\ q \in BagToSet(Handled(r))
  BY HandledFacts, PageLoosened
<1> QED BY <1>1, HandledFacts DEF Seated, Fits

\* Spinners other than those of the answered request keep their requests.
LEMMA SpinsOn ==
    ASSUME IInv, NEW r \in BagToSet(flying), ~r.mounted
    PROVE  Spins(view, Handled(r))
<1>1. \A kinds : MountedIn(flying, kinds) \subseteq MountedIn(Handled(r), kinds)
  BY HandledFacts DEF MountedIn
<1> QED BY <1>1 DEF IInv, Spins

LEMMA ListArrivesOK ==
    ASSUME IInv, NEW r \in BagToSet(flying), ListArrives(r)
    PROVE  IInv'
<1>0. /\ Fits(r, session, view, path, races) /\ Sound(r) /\ OwnList(r, session, races)
      /\ r.kind = "list" /\ r.tenant \in Tenants /\ r.at \in ListPages
      /\ r.at \in Paths /\ r.at \notin Findings
  <2>1. Findings \cap {"dashboard", "findings", "settings"} = {}
    BY ConsoleAssumption DEF ConsoleAssumption
  <2> QED BY <2>1, FlightFacts DEF Sound, Requests, ListArrives, ListPages, Paths
<1>1. /\ store' = [tenant |-> r.tenant, fresh |-> TRUE]
      /\ UNCHANGED <<session, watching, path, ai, races>>
  BY DEF ListArrives
<1>2. StoreInv(store', session, races')
  BY <1>0, <1>1 DEF StoreInv, Store, OwnList
<1>3. CASE r.mounted
  <2>1. view' = ListScreen(r.at, r.tenant) /\ flying' = PageReplaced(Handled(r))
    BY <1>3 DEF ListArrives
  <2>2. /\ view' \in View /\ view'.phase = "shown" /\ view'.at = r.at
        /\ view'.list = r.tenant /\ view'.box.state = "none"
    BY <1>0, <2>1, ScreenView DEF ListScreen, View, Screen
  <2>3. view.phase # "login" /\ r.tenant = session.tenant /\ ("view" \notin races => r.at = path)
    BY <1>0, <1>3 DEF Fits, IsRender
  <2>4. Shows(view', session, path, races)
    BY <1>0, <2>2, <2>3 DEF Shows
  <2>5. FlightInv(flying', session, view', path, races)
    BY <2>1, <2>2, RepaintedSeated, SeatedFits DEF FlightInv
  <2>6. Spins(view', flying')
    BY <2>2 DEF Spins
  <2> QED BY <1>1, <1>2, <2>2, <2>3, <2>4, <2>5, <2>6, ShellKeeps DEF IInv
<1>4. CASE ~r.mounted
  <2>1. /\ flying' = Handled(r)
        /\ \/ view' = view
           \/ view' = [view EXCEPT !.list = r.tenant]
    BY <1>4 DEF ListArrives
  <2>2. /\ view \in View /\ view' \in View /\ view'.phase = view.phase /\ view'.at = view.at
        /\ view'.picked = view.picked /\ view'.box = view.box
        /\ view'.list \in {view.list, r.tenant}
    BY <1>0, <2>1 DEF IInv, Shows, View
  <2>3. Shows(view', session, path, races)
    BY <1>0, <2>2 DEF IInv, Shows, OwnList
  <2>4. FlightInv(flying', session, view', path, races)
    BY <2>1, <2>2, HandledFacts DEF FlightInv, Fits
  <2>5. Spins(view', flying')
    BY <1>4, <2>1, <2>2, SpinsOn DEF Spins
  <2> QED BY <1>1, <1>2, <2>2, <2>3, <2>4, <2>5, ShellKeeps DEF IInv
<1> QED BY <1>3, <1>4

LEMMA FindingArrivesOK ==
    ASSUME IInv, NEW r \in BagToSet(flying), FindingArrives(r)
    PROVE  IInv'
<1> DEFINE f == r.at
           page == Detail(f, session, ai, r.mounted)
<1>0. /\ Fits(r, session, view, path, races) /\ r.kind = "get"
      /\ f \in Findings /\ f \in Paths /\ r.tenant = Owner[f] /\ r.mounted \in BOOLEAN
  BY FlightFacts DEF FindingArrives, Sound, Requests, Paths
<1>1. /\ page.view \in View /\ page.view.phase = "shown" /\ page.view.at = f
      /\ page.view.list = None /\ page.view.picked = "explain"
      /\ Boxed(page.view.box, page.sends, "explain", f, session, r.mounted)
  BY <1>0, DetailShows DEF IInv
<1>2. UNCHANGED <<session, watching, path, store, ai, races>>
  BY DEF FindingArrives
<1>3. StoreInv(store', session, races')
  BY <1>2 DEF IInv
<1>4. CASE r.mounted
  <2>1. view' = page.view /\ flying' = PageReplaced(Handled(r)) (+) SetToBag(page.sends)
    BY <1>4 DEF FindingArrives, Send
  <2>2. view.phase # "login" /\ r.tenant = session.tenant /\ ("view" \notin races => f = path)
    BY <1>0, <1>4 DEF Fits, IsRender
  <2> HIDE DEF page
  <2>3. /\ IsABag(flying')
        /\ BagToSet(flying') = BagToSet(PageReplaced(Handled(r))) \cup page.sends
    BY <2>1, RepaintedSeated, SentBag
  <2>4. \A q \in page.sends : Fits(q, session, view', path, races)
    BY <1>1, <2>1 DEF Boxed, Fits, OwnList, IsRender
  <2>5. \A q \in BagToSet(PageReplaced(Handled(r))) : Fits(q, session, view', path, races)
    BY <1>1, <2>1, RepaintedSeated, SeatedFits
  <2>6. FlightInv(flying', session, view', path, races)
    BY <2>3, <2>4, <2>5 DEF FlightInv
  <2>7. Shows(view', session, path, races)
    BY <1>0, <1>1, <2>1, <2>2 DEF Shows, Boxed
  <2>8. Spins(view', flying')
    <3>1. view'.box.state = "loading" => \E q \in page.sends : q.mounted /\ q.kind = "ai"
      BY <1>1, <1>4, <2>1 DEF Boxed
    <3> QED BY <1>1, <2>1, <2>3, <3>1 DEF Spins, MountedIn
  <2> QED BY <1>1, <1>2, <1>3, <2>1, <2>2, <2>6, <2>7, <2>8, ShellKeeps DEF IInv
<1>5. CASE ~r.mounted
  <2>1. view' = view /\ flying' = Handled(r) (+) SetToBag(page.sends)
    BY <1>5 DEF FindingArrives, Send
  <2> HIDE DEF page
  <2>2. IsABag(flying') /\ BagToSet(flying') = BagToSet(Handled(r)) \cup page.sends
    BY <2>1, HandledFacts, SentBag
  <2>3. \A q \in page.sends : Fits(q, session, view, path, races)
    BY <1>1, <1>5 DEF Boxed, Fits, OwnList
  <2>4. FlightInv(flying', session, view, path, races)
    BY <2>2, <2>3, HandledFacts DEF FlightInv
  <2>5. Spins(view, flying')
    BY <1>5, <2>2, SpinsOn DEF Spins, MountedIn
  <2> QED BY <1>2, <1>3, <2>1, <2>4, <2>5, ShellKeeps DEF IInv
<1> QED BY <1>4, <1>5

\* The result box of the page, filled in by an answer or an error.
LEMMA BoxFilled ==
    ASSUME IInv, NEW r \in BagToSet(flying), r.kind = "ai", r.mounted, NEW b \in Box,
           b.state = "error" \/ b = Result(r.cap, r.at),
           view' = [view EXCEPT !.box = b], flying' = Handled(r),
           UNCHANGED <<session, watching, path, races>>
    PROVE  /\ Shows(view', session, path, races')
           /\ FlightInv(flying', session, view', path, races')
           /\ Spins(view', flying')
           /\ view'.phase # "login" <=> view.phase # "login"
<1>1. /\ view \in View /\ view' \in View /\ view'.phase = view.phase /\ view'.at = view.at
      /\ view'.picked = view.picked /\ view'.list = view.list /\ view'.box = b
  BY DEF IInv, Shows, View
<1>2. r.at = view.at /\ ("box" \notin races => r.cap = view.picked)
  BY FlightFacts DEF Fits
<1>3. b.state \in {"error", "done"} /\ (b.state = "done" => b.of = r.at /\ b.cap = r.cap)
  BY DEF Result
<1>4. Shows(view', session, path, races')
  BY <1>1, <1>2, <1>3 DEF IInv, Shows
<1>5. FlightInv(flying', session, view', path, races')
  BY <1>1, HandledFacts DEF FlightInv, Fits
<1>6. MountedIn(flying, {"list", "get"}) \subseteq MountedIn(flying', {"list", "get"})
  BY HandledFacts DEF MountedIn
<1>7. Spins(view', flying')
  BY <1>1, <1>3, <1>6 DEF IInv, Spins
<1> QED BY <1>1, <1>4, <1>5, <1>7

\* A step that only takes what holds nothing of the document out of flight.
LEMMA AdriftHandled ==
    ASSUME IInv, NEW r \in BagToSet(flying), ~r.mounted, flying' = Handled(r),
           UNCHANGED <<session, watching, path, view, races>>
    PROVE  /\ Shows(view', session, path, races')
           /\ FlightInv(flying', session, view', path, races')
           /\ Spins(view', flying')
<1>1. FlightInv(flying', session, view', path, races')
  BY HandledFacts DEF FlightInv
<1> QED BY <1>1, SpinsOn DEF IInv

LEMMA AiArrivesOK ==
    ASSUME IInv, NEW r \in BagToSet(flying), AiArrives(r)
    PROVE  IInv'
<1>1. r.kind = "ai" /\ r.cap \in Capabilities /\ r.at \in Findings
  BY FlightFacts DEF AiArrives, Sound
<1>2. /\ ai' = ai \cup {<<r.cap, r.at>>} /\ flying' = Handled(r)
      /\ UNCHANGED <<session, watching, path, store, races>>
  BY DEF AiArrives
<1>3. ai' \subseteq Capabilities \X Findings /\ StoreInv(store', session, races')
  BY <1>1, <1>2 DEF IInv
<1>4. CASE r.mounted
  <2>1. view' = [view EXCEPT !.box = Result(r.cap, r.at)]
    BY <1>4 DEF AiArrives
  <2>2. Result(r.cap, r.at) \in Box
    BY <1>1 DEF Result, Box
  <2> QED BY <1>1, <1>2, <1>3, <1>4, <2>1, <2>2, BoxFilled, ShellKeeps DEF IInv
<1>5. CASE ~r.mounted
  <2>1. view' = view
    BY <1>5 DEF AiArrives
  <2> QED BY <1>2, <1>3, <1>5, <2>1, AdriftHandled, ShellKeeps DEF IInv
<1> QED BY <1>4, <1>5

LEMMA RequestFailsOK ==
    ASSUME IInv, NEW r \in BagToSet(flying), RequestFails(r)
    PROVE  IInv'
<1>1. /\ UNCHANGED <<session, watching, path, store, ai, races>>
      /\ Fits(r, session, view, path, races) /\ Sound(r)
  BY FlightFacts DEF RequestFails
<1>2. StoreInv(store', session, races')
  BY <1>1 DEF IInv
<1>3. CASE r.mounted /\ IsRender(r)
  <2>1. view' = Screen("error", r.at) /\ flying' = PageReplaced(Handled(r))
    BY <1>3 DEF RequestFails
  <2>2. r.at \in Paths
    BY <1>1, <1>3 DEF Sound, IsRender, Paths
  <2>3. /\ view' \in View /\ view'.phase = "error" /\ view'.at = r.at /\ view'.list = None
        /\ view'.box.state = "none"
    BY <2>1, <2>2, ScreenView
  <2>4. view.phase # "login" /\ ("view" \notin races => r.at = path)
    BY <1>1, <1>3 DEF Fits
  <2>5. Shows(view', session, path, races) /\ Spins(view', flying')
    BY <2>3, <2>4 DEF Shows, Spins
  <2>6. FlightInv(flying', session, view', path, races)
    BY <2>1, <2>3, RepaintedSeated, SeatedFits DEF FlightInv
  <2> QED BY <1>1, <1>2, <2>3, <2>4, <2>5, <2>6, ShellKeeps DEF IInv
<1>4. CASE r.mounted /\ ~IsRender(r)
  <2> DEFINE b == [NoBox EXCEPT !.state = "error"]
  <2>1. view' = [view EXCEPT !.box = b] /\ flying' = Handled(r)
    BY <1>4 DEF RequestFails
  <2>2. r.kind = "ai"
    BY <1>1, <1>4 DEF IsRender, Sound, Requests
  <2>3. b \in Box /\ b.state = "error"
    BY DEF NoBox, Box
  <2> HIDE DEF b
  <2> QED BY <1>1, <1>2, <1>4, <2>1, <2>2, <2>3, BoxFilled, ShellKeeps DEF IInv
<1>5. CASE ~r.mounted
  <2>1. view' = view /\ flying' = Handled(r)
    BY <1>5 DEF RequestFails
  <2> QED BY <1>1, <1>2, <1>5, <2>1, AdriftHandled, ShellKeeps DEF IInv
<1> QED BY <1>3, <1>4, <1>5

-----------------------------------------------------------------------------
LEMMA NextOK == IInv /\ [Next]_vars => IInv'
<1> SUFFICES ASSUME IInv, [Next]_vars PROVE IInv'
  OBVIOUS
<1>1. ASSUME NEW t \in Tenants, SignInWithToken(t) PROVE IInv'
  BY <1>1, FlightFacts, SignsInOK DEF SignInWithToken
<1>2. CASE SignOutOfSettings
  <2>1. SignedOut \in Session /\ "dashboard" \in Paths
    BY DEF Session, Paths, ListPages
  <2> QED BY <1>2, <2>1, LoadOK DEF SignOutOfSettings
<1>3. CASE Reload
  BY <1>3, LoadOK DEF Reload, IInv
<1>4. CASE UNCHANGED vars
  BY <1>4 DEF vars, IInv, ShellIsGuarded
<1> QED BY <1>1, <1>2, <1>3, <1>4, MintTokenOK, SignOutOK, ExpireOK, ExpiryWatchOK, AgeOK,
           NavigateOK, RetryOK, RefreshOK, PickOK, TokenMintedOK, ListArrivesOK,
           FindingArrivesOK, AiArrivesOK, RequestFailsOK
        DEF Next

LEMMA Inductive == Spec => []IInv
BY InitOK, NextOK, PTL DEF Spec

\* The session, the shell, the store, the cache of analyses and the requests in
\* flight keep their types, and the watch runs for nobody who is signed out.
THEOREM TypeCorrect == Spec => []TypeOK
<1>1. IInv => TypeOK
  BY DEF IInv, TypeOK, Shows, View, StoreInv, Store, Session, FlightInv, Fits, Sound
<1> QED BY <1>1, Inductive, PTL

\* The shell is shown only to somebody who has signed in, with the watch running
\* that will close it when the token expires (app.js:2-3, 175-185, 212-221).
THEOREM Guarded == Spec => []ShellIsGuarded
<1>1. IInv => ShellIsGuarded
  BY DEF IInv
<1> QED BY <1>1, Inductive, PTL

\* Nothing of another tenant is in the store, the list or the finding page, but
\* after a sign-in over a session that never signed out, or a sign-out while a
\* list was under way (store.js:1-4).
THEOREM OwnIsShown == Spec => []ShownIsOwn
<1>1. IInv => ShownIsOwn
  BY DEF IInv, ShownIsOwn, StoreInv, Shows
<1> QED BY <1>1, Inductive, PTL

\* Whichever of several analyses comes last, the one under a finding is of that
\* finding (finding.js:94-112).
THEOREM AnalysisMatches == Spec => []AnalysisMatchesFinding
<1>1. IInv => AnalysisMatchesFinding
  BY DEF IInv, AnalysisMatchesFinding, Shows
<1> QED BY <1>1, Inductive, PTL

\* The shell shows the page of the current path, unless a page was left before
\* its data came (app.js:188-207).
THEOREM RouteIsShown == Spec => []RoutedPageIsShown
<1>1. IInv => RoutedPageIsShown
  BY DEF IInv, RoutedPageIsShown, Shows
<1> QED BY <1>1, Inductive, PTL

\* However requests overtake one another, a spinner is never left without the
\* request that will replace it (api.js:1-4).
THEOREM SpinnersAwait == Spec => []NoOrphanSpinner
<1>1. IInv => NoOrphanSpinner
  BY DEF IInv, NoOrphanSpinner, Spins
<1> QED BY <1>1, Inductive, PTL
=============================================================================
