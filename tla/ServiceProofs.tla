--------------------------- MODULE ServiceProofs ---------------------------
(***************************************************************************)
(* Proofs about Service for any requests, tenants, tokens and deployments, *)
(* whatever the Core, the store and the providers answer.                  *)
(*                                                                         *)
(* The invariant is about one request at a time (RequestInv): requests     *)
(* share only the clock, the buckets, the tokens and the metrics.  What a  *)
(* handler has to see to is said of the request it is about to proceed     *)
(* with, before the first node of its plan has begun (Ready): the lemmas   *)
(* about Begin and Proceed lead from there to every state it may leave the *)
(* request in, so that a handler needs no more than a plan that fits.      *)
(*                                                                         *)
(* The time of a request is accounted for by a second invariant, TimesInv: *)
(* what is left of its node and of its plan, at the limits of their nodes, *)
(* fits what its route may take.  A third one, GroundsInv, is about the    *)
(* answers: which of the items have one, which nodes the others still have *)
(* in the plan, and where in what was spent the source of each answer is.  *)
(***************************************************************************)
EXTENDS Service, FiniteSetTheorems, TLAPS

-----------------------------------------------------------------------------
\* Sequences whose items may be anything.

IsSeq(s) == \E S : s \in Seq(S)

LEMMA SeqFacts ==
    ASSUME NEW s, IsSeq(s)
    PROVE  /\ Len(s) \in Nat /\ DOMAIN s = 1..Len(s)
           /\ s # <<>> <=> Len(s) > 0
           /\ s = <<>> <=> DOMAIN s = {}
<1>1. PICK S : s \in Seq(S)
  BY DEF IsSeq
<1>2. QED
  BY <1>1

LEMMA TailFacts ==
    ASSUME NEW s, IsSeq(s), s # <<>>
    PROVE  /\ IsSeq(Tail(s)) /\ Len(Tail(s)) = Len(s) - 1
           /\ \A i \in DOMAIN Tail(s) : i + 1 \in DOMAIN s /\ Tail(s)[i] = s[i + 1]
<1>1. PICK S : s \in Seq(S)
  BY DEF IsSeq
<1>2. Tail(s) \in Seq(S)
  BY <1>1
<1>3. QED
  BY <1>1, <1>2 DEF IsSeq

LEMMA WiderSeq ==
    ASSUME NEW S, NEW T, S \subseteq T, NEW s \in Seq(S)
    PROVE  s \in Seq(T)
OBVIOUS

LEMMA ConcatFacts ==
    ASSUME NEW s, NEW t, IsSeq(s), IsSeq(t)
    PROVE  /\ IsSeq(s \o t) /\ Len(s \o t) = Len(s) + Len(t)
           /\ \A i \in DOMAIN s : i \in DOMAIN (s \o t) /\ (s \o t)[i] = s[i]
           /\ \A i \in DOMAIN (s \o t) :
                 i \notin DOMAIN s => i - Len(s) \in DOMAIN t /\ (s \o t)[i] = t[i - Len(s)]
<1>1. PICK S : s \in Seq(S)
  BY DEF IsSeq
<1>2. PICK T : t \in Seq(T)
  BY DEF IsSeq
<1>3. s \in Seq(S \cup T) /\ t \in Seq(S \cup T)
  BY <1>1, <1>2, WiderSeq
<1>4. QED
  BY <1>3 DEF IsSeq

LEMMA AppendFacts ==
    ASSUME NEW s, NEW e, IsSeq(s)
    PROVE  /\ IsSeq(Append(s, e)) /\ Len(Append(s, e)) = Len(s) + 1
           /\ Append(s, e) # <<>>
           /\ \A i \in DOMAIN Append(s, e) :
                 (i \in DOMAIN s /\ Append(s, e)[i] = s[i])
                 \/ (i = Len(s) + 1 /\ Append(s, e)[i] = e)
<1>1. PICK S : s \in Seq(S)
  BY DEF IsSeq
<1>2. s \in Seq(S \cup {e})
  BY <1>1, WiderSeq
<1>3. Append(s, e) \in Seq(S \cup {e})
  BY <1>2
<1>4. QED
  BY <1>2, <1>3 DEF IsSeq

\* Replacing one item.
LEMMA ExceptFacts ==
    ASSUME NEW s, NEW j, NEW e, IsSeq(s)
    PROVE  LET t == [s EXCEPT ![j] = e]
           IN  /\ IsSeq(t) /\ DOMAIN t = DOMAIN s /\ Len(t) = Len(s)
               /\ \A i \in DOMAIN s : t[i] = IF i = j THEN e ELSE s[i]
<1> DEFINE t == [s EXCEPT ![j] = e]
<1>1. PICK S : s \in Seq(S)
  BY DEF IsSeq
<1>2. s \in Seq(S \cup {e})
  BY <1>1, WiderSeq
<1>3. t \in Seq(S \cup {e})
  <2>1. s \in [1..Len(s) -> S \cup {e}] /\ Len(s) \in Nat
    BY <1>2
  <2>2. t \in [1..Len(s) -> S \cup {e}]
    BY <2>1
  <2>3. QED
    BY <2>1, <2>2
<1>4. DOMAIN t = DOMAIN s /\ Len(t) = Len(s)
  BY <1>2, <1>3
<1>5. QED
  BY <1>3, <1>4 DEF IsSeq

LEMMA TupleFacts ==
    /\ IsSeq(<<>>)
    /\ \A a : IsSeq(<<a>>) /\ <<a>> # <<>> /\ Tail(<<a>>) = <<>> /\ Len(<<a>>) = 1
    /\ \A a, b : IsSeq(<<a, b>>) /\ Len(<<a, b>>) = 2
<1>1. <<>> \in Seq({})
  OBVIOUS
<1>2. ASSUME NEW a
      PROVE  <<a>> \in Seq({a}) /\ <<a>> # <<>> /\ Tail(<<a>>) = <<>> /\ Len(<<a>>) = 1
  OBVIOUS
<1>3. ASSUME NEW a, NEW b
      PROVE  <<a, b>> \in Seq({a, b}) /\ Len(<<a, b>>) = 2
  OBVIOUS
<1>4. QED
  BY <1>1, <1>2, <1>3 DEF IsSeq

-----------------------------------------------------------------------------
\* The answers.

Errors == DomainErrors \cup {"unexpected"}

LEMMA NamedErrors ==
    {"ValidationError", "NotFoundError", "AuthenticationError", "AuthorizationError",
     "RateLimitError", "UnsafeContentError", "ModelNotAvailableError", "ProviderError",
     "DependencyUnavailableError", "PromptError", "WorkflowError", "TenantIsolationError",
     "BudgetExceededError", "ProviderTimeoutError", "EmbeddingModelMismatchError",
     "unexpected"} \subseteq Errors
BY DEF Errors, DomainErrors, Parent

\* The first of the rows that match is one of them.
LEMMA FirstRow ==
    ASSUME NEW rows \in SUBSET (1..11), rows # {}
    PROVE  Min(rows) \in rows
<1>1. \E i \in rows : \A j \in rows : i =< j
  <2> SUFFICES ASSUME \A i \in rows : \E j \in rows : j < i
               PROVE  FALSE
    OBVIOUS
  <2>1. rows \cap (1..3) = {}
    OBVIOUS
  <2>2. rows \cap (1..6) = {}
    BY <2>1
  <2>3. rows \cap (1..9) = {}
    BY <2>2
  <2>4. 10 \notin rows
    BY <2>3
  <2>5. 11 \notin rows
    BY <2>3, <2>4
  <2>6. PICK i \in rows : i \in 1..11
    OBVIOUS
  <2>7. QED
    BY <2>3, <2>4, <2>5, <2>6
<1>2. QED
  BY <1>1 DEF Min

\* Every error has its status, and a status is never mistaken for "waiting".
LEMMA StatusFacts ==
    /\ \A error \in Errors : StatusFor[error] \in Statuses
    /\ {200, 413, 500, 503} \subseteq Statuses /\ Statuses \subseteq Nat \ {0, 1}
<1>1. ASSUME NEW error \in Errors
      PROVE  StatusFor[error] \in Statuses
  <2> DEFINE rows == {i \in DOMAIN StatusTable : IsA(error, StatusTable[i][1])}
  <2>1. StatusFor[error] = IF rows = {} THEN 500 ELSE StatusTable[Min(rows)][2]
    BY DEF StatusFor, Errors
  <2>2. DOMAIN StatusTable = 1..11
    BY DEF StatusTable
  <2>3. rows # {} => Min(rows) \in DOMAIN StatusTable
    BY <2>2, FirstRow
  <2>4. 500 \in Statuses /\ \A i \in DOMAIN StatusTable : StatusTable[i][2] \in Statuses
    BY DEF Statuses
  <2> HIDE DEF rows
  <2>5. QED
    BY <2>1, <2>3, <2>4
<1>2. \A i \in DOMAIN StatusTable : StatusTable[i][2] \in Nat \ {0, 1}
  BY DEF StatusTable
<1>3. QED
  BY <1>1, <1>2 DEF Statuses

-----------------------------------------------------------------------------
\* The inductive invariant.  A request is said to be Ready when its handler has
\* just decided on its plan and is about to begin the first node of it.

Fields == {"phase", "call", "token", "tenant", "since", "age", "kept", "plan", "left",
           "context", "session", "made", "spent", "status"}
Left == {NoLimit} \cup 0..(NodeTimeout + CoreTimeout + EmbedLimit + CompletionLimit)
Buckets == [Tenants \cup {Platform} -> 0..Allowance]

Own(x, f) == f.tenant = x.tenant
OwnRoutes == {"enrich/by-ids", "map"}

\* What has been spent.
Booked(x) ==
    /\ IsSeq(x.spent)
    /\ \A i \in DOMAIN x.spent :
          /\ DOMAIN x.spent[i] = {"payer", "item", "found"}
          /\ x.spent[i].payer \in {x.tenant, Platform}
          /\ x.call.route \in OwnRoutes => Own(x, x.spent[i].item)

MadeOwn(x) ==
    x.call.route \in CoreRoutes => \A i \in DOMAIN x.made : \A f \in x.made[i] : Own(x, f)

Entitled(x) ==
    /\ x.token.signer = VerifierOf(settings).key
    /\ x.since <= x.token.exp + Leeway
    /\ x.tenant = x.token.tenant
    /\ x.call.json /\ x.call.size # "over"
    /\ x.call.route # "report" => Len(x.call.items) <= MaxBatch
    /\ x.call.route \in AIRoutes \ {"ask", "enrich/by-ids"} =>
          \A i \in DOMAIN x.call.items : Own(x, x.call.items[i])

\* The plan of a request that works on ids or maps a finding: only what is
\* still to be fetched is not known to be its own, and a retrieval, which may
\* make it skip the node after it, comes first and has one after it.
PlanOwn(x) ==
    /\ IsSeq(x.plan)
    /\ \A i \in DOMAIN x.plan :
          /\ x.plan[i].node \in {"fetch", "retrieve", "generate"}
          /\ x.plan[i].node # "fetch" => Own(x, x.plan[i].item)
          /\ i > 1 => x.plan[i].node # "retrieve"
    /\ x.plan # <<>> /\ x.plan[1].node = "retrieve" => Len(x.plan) > 1

\* Requests nobody has to be entitled to, and those to the Core, spend nothing.
PlanFits(x) ==
    /\ x.call.route \in OpenRoutes =>
          /\ x.spent = <<>>
          /\ x.plan # <<>> => x.plan[1].node = "probe"
    /\ x.call.route \in CoreRoutes =>
          /\ x.spent = <<>>
          /\ x.plan # <<>> => x.plan[1].node \in {"fetch", "list"} /\ Tail(x.plan) = <<>>
    /\ x.call.route \in OwnRoutes => PlanOwn(x)
    /\ x.call.route \in AIRoutes => Entitled(x)

Common(r, x) ==
    /\ DOMAIN x = Fields
    /\ x.call \in CallsOf[r] \cup {NoCall}
    /\ x.tenant \in Tenants \cup {Nobody}
    /\ x.age \in 0..WallClock /\ x.kept \in Int
    /\ x.left \in Left
    /\ Booked(x)
    /\ MadeOwn(x)

Ready(r, x) ==
    /\ Common(r, x)
    /\ x.phase = "working" /\ x.status = 0
    /\ x.call \in CallsOf[r]
    /\ PlanFits(x)

RequestInv(r, x) ==
    /\ Common(r, x)
    /\ x.phase \in {"idle", "arrived", "working", "done"}
    /\ IF x.phase = "done" THEN x.status \in Statuses ELSE x.status = 0
    /\ x.phase # "working" => x.plan = <<>>
    /\ x.phase \in {"idle", "arrived"} => x.spent = <<>> /\ x.made = <<>>
    /\ x.phase = "arrived" => x.call \in CallsOf[r] /\ x.token \in TenantTokens
    /\ x.phase = "working" => Ready(r, x) /\ x.plan # <<>>

RequestsInv ==
    /\ DOMAIN req = Requests
    /\ \A r \in Requests : RequestInv(r, req[r])

IInv ==
    /\ settings \in Deployments
    /\ now \in 0..MaxTime
    /\ bucket \in Buckets
    /\ tokens \subseteq TenantTokens
    /\ IsABag(metrics) /\ DOMAIN metrics \subseteq Routes \X Statuses
    /\ RequestsInv

-----------------------------------------------------------------------------
\* The ticks a node may have.
LEMMA LimitFacts ==
    /\ 0 \in 0..WallClock /\ WallClock \in Nat
    /\ 0 \in Left /\ \A node : Limit(node) \in Left
    /\ \A n \in Left : n > 0 => n - 1 \in Left
<1>1. /\ NodeTimeout \in Nat /\ CoreTimeout \in Nat /\ EmbedLimit \in Nat
      /\ CompletionLimit \in Nat /\ WallClock \in Nat
  BY ServiceAssumption
<1>2. QED
  BY <1>1 DEF Left, Limit, Immediate, NoLimit

LEMMA AtMost ==
    ASSUME NEW n, NEW m \in Nat \ {0}, n = 1 \/ n \in 1..m
    PROVE  n <= m
OBVIOUS

\* A response.
LEMMA ClosedIs ==
    ASSUME NEW r \in Requests, NEW x, Common(r, x), NEW status \in Statuses
    PROVE  /\ RequestInv(r, Closed(x, status))
           /\ Closed(x, status).phase = "done" /\ Closed(x, status).status = status
<1> DEFINE done == [Fresh EXCEPT !.phase = "done", !.status = status]
           full == [done EXCEPT !.call = x.call, !.tenant = x.tenant, !.made = x.made,
                                !.spent = x.spent]
<1>1. 0 \in 0..WallClock /\ 0 \in Left
  BY LimitFacts
<1>2. /\ DOMAIN done = Fields /\ done.phase = "done" /\ done.status = status
      /\ done.call = NoCall /\ done.tenant = Nobody /\ done.age = 0 /\ done.left = 0
      /\ done.kept = 0
      /\ done.spent = <<>> /\ done.made = <<>> /\ done.plan = <<>>
  BY DEF Fresh, Fields
<1>3. /\ DOMAIN full = Fields /\ full.phase = "done" /\ full.status = status
      /\ full.call = x.call /\ full.tenant = x.tenant /\ full.age = 0 /\ full.left = 0
      /\ full.kept = 0
      /\ full.spent = x.spent /\ full.made = x.made /\ full.plan = <<>>
  BY <1>2 DEF Fields
<1>4. Closed(x, status) = IF status # 200 THEN done ELSE full
  BY DEF Closed
<1> HIDE DEF done, full
<1>5. Booked(done) /\ MadeOwn(done)
  BY <1>2, TupleFacts DEF Booked, MadeOwn
<1>6. RequestInv(r, done)
  BY <1>1, <1>2, <1>5 DEF RequestInv, Common
<1>7. Booked(full) /\ MadeOwn(full)
  BY <1>3 DEF Common, Booked, MadeOwn, Own
<1>8. RequestInv(r, full)
  BY <1>1, <1>3, <1>7 DEF RequestInv, Common
<1>9. QED
  BY <1>2, <1>3, <1>4, <1>6, <1>8

LEMMA FailedIs ==
    ASSUME NEW r \in Requests, NEW x, Common(r, x), NEW error \in Errors
    PROVE  RequestInv(r, Failed(x, error)) /\ Failed(x, error).phase = "done"
<1>1. StatusFor[error] \in Statuses
  BY StatusFacts
<1>2. QED
  BY <1>1, ClosedIs DEF Failed

-----------------------------------------------------------------------------
\* Beginning a node.

\* What Begin makes of x when the node is free, and when it is paid for.
Begun(x) == [x EXCEPT !.left = Limit(x.plan[1].node),
                      !.session = IF x.plan[1].node = "search"
                                  THEN Recorded(@, x.plan[1].item) ELSE @]
Charge(x) == [payer |-> Account(x, x.plan[1].node), item |-> x.plan[1].item, found |-> {}]
Paid(x) == [Begun(x) EXCEPT !.spent = Append(@, Charge(x))]

LEMMA CallFacts ==
    ASSUME NEW r \in Requests, NEW c \in CallsOf[r]
    PROVE  /\ c.route \in AIRoutes \cup CoreRoutes \cup OpenRoutes
           /\ IsSeq(c.items)
           /\ c.route = "dev-token" => /\ c.items[1].tenant \in Tenants \cup {Nobody}
                                       /\ c.items[1].ttl \in Nat
<1>1. /\ c.route \in Routes \ {"raw path"} /\ c.items \in Seq(ToSet(c.items))
      /\ c.route = "dev-token" => /\ c.items[1].tenant \in Tenants \cup {Nobody}
                                  /\ c.items[1].ttl \in Nat
  BY ServiceAssumption
<1>2. QED
  BY <1>1 DEF IsSeq, Routes

LEMMA BegunIs ==
    ASSUME NEW r \in Requests, NEW x, Ready(r, x)
    PROVE  Ready(r, Begun(x)) /\ Begun(x).plan = x.plan /\ Begun(x).spent = x.spent
<1>1. /\ DOMAIN Begun(x) = Fields /\ Begun(x).left = Limit(x.plan[1].node)
      /\ Begun(x).phase = x.phase /\ Begun(x).status = x.status
      /\ Begun(x).call = x.call /\ Begun(x).token = x.token /\ Begun(x).tenant = x.tenant
      /\ Begun(x).since = x.since /\ Begun(x).age = x.age /\ Begun(x).kept = x.kept
      /\ Begun(x).plan = x.plan
      /\ Begun(x).made = x.made /\ Begun(x).spent = x.spent
  BY DEF Ready, Common, Fields, Begun
<1>2. Limit(x.plan[1].node) \in Left
  BY LimitFacts
<1>3. Common(r, Begun(x))
  BY <1>1, <1>2 DEF Ready, Common, Booked, MadeOwn, Own
<1>4. PlanFits(Begun(x))
  BY <1>1 DEF Ready, PlanFits, PlanOwn, Entitled, Own
<1>5. QED
  BY <1>1, <1>3, <1>4 DEF Ready

\* Only the nodes of AI routes are paid for, and a node that is paid for is
\* about a finding of the tenant's own where PlanOwn says so.
LEMMA PaidIs ==
    ASSUME NEW r \in Requests, NEW x, Ready(r, x), x.plan # <<>>,
           Account(x, x.plan[1].node) # Nobody
    PROVE  Ready(r, Paid(x)) /\ Paid(x).plan = x.plan /\ Paid(x).call = x.call
<1> DEFINE y == Begun(x)
           e == Charge(x)
<1>1. Ready(r, y) /\ y.plan = x.plan /\ y.spent = x.spent
  BY BegunIs
<1>2. /\ x.plan[1].node \in {"retrieve", "search", "generate", "narrate"}
      /\ e.payer \in {x.tenant, Platform} /\ e.item = x.plan[1].item
      /\ DOMAIN e = {"payer", "item", "found"}
  BY DEF Account, Charge
<1>3. x.call \in CallsOf[r] /\ PlanFits(x)
  BY DEF Ready
<1>4. x.call.route \in AIRoutes
  BY <1>2, <1>3, CallFacts DEF PlanFits
<1>5. x.call.route \in OwnRoutes => Own(x, e.item)
  <2> SUFFICES ASSUME x.call.route \in OwnRoutes
               PROVE  Own(x, e.item)
    OBVIOUS
  <2>1. PlanOwn(x)
    BY <1>3 DEF PlanFits
  <2>2. 1 \in DOMAIN x.plan
    BY <2>1, SeqFacts DEF PlanOwn
  <2>3. QED
    BY <1>2, <2>1, <2>2 DEF PlanOwn
<1>6. y.call = x.call /\ y.tenant = x.tenant /\ y.token = x.token
  BY DEF Begun, Ready, Common, Fields
<1> HIDE DEF y, e
<1>7. Paid(x) = [y EXCEPT !.spent = Append(@, e)]
  BY DEF Paid, y, e
<1>8. DOMAIN y = Fields
  BY <1>1 DEF Ready, Common
<1> DEFINE p == [y EXCEPT !.spent = Append(@, e)]
<1>9. /\ DOMAIN p = Fields /\ p.spent = Append(y.spent, e)
      /\ p.phase = y.phase /\ p.status = y.status /\ p.left = y.left
      /\ p.call = y.call /\ p.token = y.token /\ p.tenant = y.tenant
      /\ p.since = y.since /\ p.age = y.age /\ p.kept = y.kept /\ p.plan = y.plan /\ p.made = y.made
  BY <1>8 DEF Fields
<1> HIDE DEF p
<1>10. Booked(p)
  <2>1. Booked(y)
    BY <1>1 DEF Ready, Common
  <2>2. /\ IsSeq(p.spent)
        /\ \A i \in DOMAIN p.spent : (i \in DOMAIN y.spent /\ p.spent[i] = y.spent[i])
                                     \/ p.spent[i] = e
    BY <1>9, <2>1, AppendFacts DEF Booked
  <2>3. QED
    BY <1>2, <1>5, <1>6, <1>9, <2>1, <2>2 DEF Booked, Own
<1>11. Common(r, p)
  BY <1>1, <1>9, <1>10 DEF Ready, Common, MadeOwn, Own
<1>12. PlanFits(p)
  <2>1. p.call.route \in AIRoutes /\ p.call.route \notin OpenRoutes \cup CoreRoutes
    BY <1>4, <1>6, <1>9 DEF AIRoutes, GraphRoutes, OpenRoutes, CoreRoutes
  <2>2. PlanFits(y)
    BY <1>1 DEF Ready
  <2>3. QED
    BY <1>9, <2>1, <2>2 DEF PlanFits, PlanOwn, Entitled, Own
<1>13. Ready(r, p)
  BY <1>1, <1>9, <1>11, <1>12 DEF Ready
<1>14. QED
  BY <1>1, <1>6, <1>7, <1>9, <1>13 DEF p

\* How a step of a handler leaves its request and the buckets.
Moves(r, call, n, b) ==
    /\ RequestInv(r, n) /\ n.phase \in {"working", "done"} /\ b \in Buckets
    /\ n.phase = "working" => n.call = call

LEMMA WorkingIs ==
    ASSUME NEW r \in Requests, NEW x, Ready(r, x), x.plan # <<>>
    PROVE  RequestInv(r, x)
BY DEF Ready, RequestInv

LEMMA BeginIs ==
    ASSUME NEW r \in Requests, NEW x, Ready(r, x), bucket \in Buckets,
           NEW after \in Begin(x)
    PROVE  Moves(r, x.call, after[1], after[2])
<1> DEFINE node == x.plan[1].node
           payer == Account(x, node)
<1>1. Common(r, x) /\ x.phase = "working"
  BY DEF Ready
<1>2. CASE x.plan = <<>>
  <2>1. after = <<Closed(x, 200), bucket>>
    BY <1>2 DEF Begin
  <2>2. QED
    BY <1>1, <2>1, ClosedIs, StatusFacts DEF Moves
<1>3. CASE x.plan # <<>> /\ BeginError(x) # "none"
  <2>1. after = <<Failed(x, BeginError(x)), bucket>>
    BY <1>3 DEF Begin
  <2>2. BeginError(x) \in Errors
    BY <1>3, NamedErrors DEF BeginError, RenderError
  <2>3. QED
    BY <1>1, <2>1, <2>2, FailedIs DEF Moves
<1>4. CASE x.plan # <<>> /\ BeginError(x) = "none" /\ payer = Nobody
  <2>1. after = <<Begun(x), bucket>>
    BY <1>4 DEF Begin, Begun
  <2>2. Begun(x).call = x.call
    BY <1>1 DEF Common, Fields, Begun
  <2>3. QED
    BY <1>1, <1>4, <2>1, <2>2, BegunIs, WorkingIs DEF Moves, Ready
<1>5. CASE x.plan # <<>> /\ BeginError(x) = "none" /\ payer # Nobody /\ bucket[payer] = 0
  <2>1. after = <<Failed(x, "RateLimitError"), bucket>>
    BY <1>5 DEF Begin
  <2>2. QED
    BY <1>1, <2>1, FailedIs, NamedErrors DEF Moves
<1>6. CASE x.plan # <<>> /\ BeginError(x) = "none" /\ payer # Nobody /\ bucket[payer] # 0
  <2> DEFINE less == [bucket EXCEPT ![payer] = @ - 1]
  <2>1. after \in ({IF Blocked(x) THEN Failed(Paid(x), "UnsafeContentError") ELSE Paid(x)}
                   \cup (IF payer = x.tenant THEN {Failed(Paid(x), "BudgetExceededError")}
                         ELSE {}))
                  \X {less}
    BY <1>6 DEF Begin, Paid, Begun, Charge
  <2>2. /\ after[2] = less
        /\ after[1] \in {Failed(Paid(x), "UnsafeContentError"), Paid(x),
                         Failed(Paid(x), "BudgetExceededError")}
    BY <2>1
  <2>3. Ready(r, Paid(x)) /\ Paid(x).plan # <<>> /\ Paid(x).call = x.call
    BY <1>6, PaidIs
  <2>4. RequestInv(r, Paid(x)) /\ Paid(x).phase = "working" /\ Common(r, Paid(x))
    BY <2>3, WorkingIs DEF Ready
  <2>5. /\ RequestInv(r, Failed(Paid(x), "UnsafeContentError"))
        /\ Failed(Paid(x), "UnsafeContentError").phase = "done"
        /\ RequestInv(r, Failed(Paid(x), "BudgetExceededError"))
        /\ Failed(Paid(x), "BudgetExceededError").phase = "done"
    BY <2>4, FailedIs, NamedErrors
  <2>6. less \in Buckets
    <3>1. bucket \in [Tenants \cup {Platform} -> 0..Allowance] /\ Allowance \in Nat
      BY ServiceAssumption DEF Buckets
    <3>2. payer \in {x.tenant, Platform} /\ payer \in Tenants \cup {Platform}
      BY <1>1, <1>6 DEF Account, Common
    <3>3. bucket[payer] - 1 \in 0..Allowance
      BY <1>6, <3>1, <3>2
    <3>4. QED
      BY <3>1, <3>2, <3>3 DEF Buckets
  <2>7. QED
    BY <2>2, <2>3, <2>4, <2>5, <2>6 DEF Moves
<1>7. QED
  BY <1>2, <1>3, <1>4, <1>5, <1>6

-----------------------------------------------------------------------------
\* The handlers.

LEMMA ProceedIs ==
    ASSUME NEW r \in Requests, NEW x, Ready(r, x), bucket \in Buckets, Proceed(r, x)
    PROVE  \E n, b : Step(r, n, b) /\ Moves(r, x.call, n, b)
<1>1. PICK after \in Begin(x) : Step(r, after[1], after[2])
  BY DEF Proceed
<1>2. Moves(r, x.call, after[1], after[2])
  BY BeginIs
<1>3. QED
  BY <1>1, <1>2

-----------------------------------------------------------------------------
\* The time a request takes.  Due: what holds of a request whose next node is
\* about to begin; Underway: while it waits for it.  Most plans are nodes with
\* one and the same limit; ids are fetched and enriched one by one; the analyst
\* stops searching when the clock of its session is up.

PlainRoutes == (GraphRoutes \ {"enrich/by-ids"}) \cup CoreRoutes
PlainNodes(call) ==
    IF call.route \in CoreRoutes THEN {"fetch", "list"} ELSE {"retrieve", "generate"}
Each(call) == IF call.route \in CoreRoutes THEN CoreTimeout ELSE NodeTimeout

PlainPlan(x) ==
    \A i \in DOMAIN x.plan : /\ x.plan[i].node \in PlainNodes(x.call)
                             /\ x.plan[i].node = "retrieve" => i < Len(x.plan)
\* The longest x waits for its first node without being held up: the Core that is
\* sending may fall silent yet.
Remains(x) ==
    IF x.left # NoLimit THEN x.left
    ELSE IF x.plan[1].node \in {"fetch", "list"} THEN CoreTimeout ELSE 0

PlainDue(x) ==
    PlainPlan(x) /\ x.kept + Len(x.plan) * Each(x.call) <= LongestOf(x.call)
PlainUnderway(x) ==
    PlainPlan(x) /\ x.kept + Remains(x) + (Len(x.plan) - 1) * Each(x.call) <= LongestOf(x.call)

\* The first p nodes are what is left of the graph of an id, the others fetch.
OneId == CoreTimeout + 2 * NodeTimeout
IdsPlan(x, p) ==
    \A i \in DOMAIN x.plan :
        x.plan[i].node \in IF i <= p THEN {"retrieve", "generate"} ELSE {"fetch"}
IdsDue(x) ==
    \E p \in 0..2 :
        /\ p <= Len(x.plan) /\ IdsPlan(x, p)
        /\ x.kept + p * NodeTimeout + (Len(x.plan) - p) * OneId <= LongestOf(x.call)
IdsUnderway(x) ==
    \E p \in 0..2 :
        /\ p <= Len(x.plan) /\ IdsPlan(x, p)
        /\ x.kept + Remains(x) + (IF p = 0 THEN 2 * NodeTimeout + (Len(x.plan) - 1) * OneId
                             ELSE (p - 1) * NodeTimeout + (Len(x.plan) - p) * OneId)
              <= LongestOf(x.call)

\* Every search that is paid for counts against the budget of the session.
AnalystPlan(x) ==
    \A i \in DOMAIN x.plan : x.plan[i].node = IF i = Len(x.plan) THEN "narrate" ELSE "search"
Accounted(x) ==
    /\ x.session.iterations \in 0..MaxIterations
    /\ Len(x.spent) <= x.session.iterations
AnalystDue(x) ==
    AnalystPlan(x) /\ Accounted(x) /\ x.kept <= WallClock - 1 + EmbedLimit
AnalystUnderway(x) ==
    /\ AnalystPlan(x)
    /\ Len(x.plan) > 1 => Accounted(x) /\ x.kept + Remains(x) <= WallClock - 1 + EmbedLimit
    /\ x.kept + Remains(x) <= LongestOf(x.call)

\* The clocks: what is kept is a part of the age, until that stops.
Clocked(x) == x.kept \in Nat /\ (x.kept <= x.age \/ x.age = WallClock)

\* Only what holds x up has no limit, and of a Core call what is kept has been
\* so since the Core was last heard of.
Timed(x) ==
    /\ Clocked(x)
    /\ x.left = NoLimit => x.plan[1].node \in {"fetch", "list", "search", "probe"}
    /\ x.plan[1].node \in {"fetch", "list"} /\ x.left # NoLimit =>
          x.left <= CoreTimeout /\ x.kept >= Limit(x.plan[1].node) - x.left
    /\ x.call.route \in OpenRoutes => x.kept = 0 /\ x.left \in {0, NoLimit}

Due(x) ==
    /\ IsSeq(x.plan)
    /\ x.plan # <<>> =>
          /\ Clocked(x)
          /\ x.call.route \in PlainRoutes => PlainDue(x)
          /\ x.call.route = "enrich/by-ids" => IdsDue(x)
          /\ x.call.route = "correlate" => AnalystDue(x)
          /\ x.call.route \in OpenRoutes => x.call.route = "health/ready" /\ x.kept = 0

Underway(x) ==
    /\ IsSeq(x.plan) /\ x.plan # <<>> /\ Timed(x)
    /\ x.call.route \in PlainRoutes => PlainUnderway(x)
    /\ x.call.route = "enrich/by-ids" => IdsUnderway(x)
    /\ x.call.route = "correlate" => AnalystUnderway(x)
    /\ x.call.route \in OpenRoutes => x.call.route = "health/ready"

WithinBudget(x) ==
    x.call.route = "correlate" =>
        \A i \in DOMAIN x.spent : x.spent[i].payer = Platform => i <= MaxIterations

TimeInv(x) ==
    /\ WithinBudget(x)
    /\ x.phase # "working" => x.age = 0 /\ x.kept = 0
    /\ x.phase \in {"idle", "arrived"} => x.session = OpenSession
    /\ x.phase = "working" => Underway(x)

TimesInv == \A r \in Requests : TimeInv(req[r])

-----------------------------------------------------------------------------
LEMMA RemainsFacts ==
    ASSUME NEW x, x.left \in Left
    PROVE  Remains(x) \in Nat
<1>1. /\ NodeTimeout \in Nat /\ CoreTimeout \in Nat /\ EmbedLimit \in Nat
      /\ CompletionLimit \in Nat
  BY ServiceAssumption
<1>2. x.left # NoLimit => x.left \in Nat
  BY <1>1 DEF Left
<1>3. QED
  BY <1>1, <1>2 DEF Remains

LEMMA TimeConstants ==
    /\ NodeTimeout \in Nat /\ CoreTimeout \in Nat /\ EmbedLimit \in Nat /\ OneId \in Nat
    /\ CompletionLimit \in Nat /\ WallClock \in Nat \ {0} /\ MaxIterations \in Nat
    /\ WallClock \in Nat /\ Platform \notin Tenants
    /\ \A call : Each(call) \in Nat
<1>1. /\ NodeTimeout \in Nat /\ CoreTimeout \in Nat /\ EmbedLimit \in Nat
      /\ CompletionLimit \in Nat /\ WallClock \in Nat \ {0} /\ MaxIterations \in 1..100
      /\ WallClock \in Nat /\ Platform \notin Tenants
  BY ServiceAssumption
<1>2. OneId \in Nat
  BY <1>1 DEF OneId
<1>3. QED
  BY <1>1, <1>2 DEF Each

\* Products are bounded as their factors are.
LEMMA Times ==
    /\ \A a, b \in Nat : a * b \in Nat
    /\ \A a, b, c \in Nat : a <= b => a * c <= b * c
    /\ \A a, c \in Nat : (a + 1) * c = a * c + c
<1>1. \A a, b \in Nat : a * b \in Nat
  OBVIOUS
<1>2. \A a, b, c \in Nat : a <= b => a * c <= b * c
  OBVIOUS
<1>3. \A a, c \in Nat : (a + 1) * c = a * c + c
  OBVIOUS
<1>4. QED
  BY <1>1, <1>2, <1>3

LEMMA LongestFacts ==
    ASSUME NEW r \in Requests, NEW c \in CallsOf[r]
    PROVE  /\ LongestOf(c) \in Nat
           /\ c.route = "correlate" => LongestOf(c) = WallClock - 1 + EmbedLimit + CompletionLimit
           /\ c.route = "enrich/by-ids" => LongestOf(c) = Len(c.items) * OneId
           /\ c.route = "enrich" => LongestOf(c) = (2 * Len(c.items)) * NodeTimeout
<1>1. Len(c.items) \in Nat
  BY CallFacts, SeqFacts
<1> DEFINE n == Len(c.items)
<1> HIDE DEF n
<1>2. LongestOf(c) =
        IF c.route = "enrich" THEN n * 2 * NodeTimeout
        ELSE IF c.route = "enrich/by-ids" THEN n * (CoreTimeout + 2 * NodeTimeout)
        ELSE IF c.route \in {"ask", "remediate", "map"} THEN 2 * NodeTimeout
        ELSE IF c.route \in {"financial", "report"} THEN NodeTimeout
        ELSE IF c.route = "correlate" THEN WallClock - 1 + EmbedLimit + CompletionLimit
        ELSE IF c.route \in CoreRoutes THEN CoreTimeout
        ELSE 0
  BY DEF LongestOf, n
<1>3. n \in Nat
  BY <1>1 DEF n
<1>4. /\ n * 2 * NodeTimeout \in Nat /\ n * (CoreTimeout + 2 * NodeTimeout) \in Nat
      /\ n * 2 * NodeTimeout = (2 * n) * NodeTimeout
  BY <1>3, TimeConstants, Times
<1>5. LongestOf(c) \in Nat
  BY <1>2, <1>3, <1>4, TimeConstants
<1>6. QED
  BY <1>2, <1>4, <1>5 DEF n, OneId, CoreRoutes

LEMMA PredTimes ==
    ASSUME NEW m \in Nat, m > 0, NEW c \in Nat
    PROVE  (m - 1) * c \in Nat /\ m * c = (m - 1) * c + c
<1>1. PICK n \in Nat : m = n + 1
  <2>1. m - 1 \in Nat /\ m = (m - 1) + 1
    OBVIOUS
  <2>2. QED
    BY <2>1
<1>2. n * c \in Nat /\ (n + 1) * c = n * c + c
  BY Times
<1>3. m - 1 = n
  BY <1>1
<1>4. QED
  BY <1>1, <1>2, <1>3

\* A response takes no more time, and what it remembers was within the budget.
LEMMA ClosedTime ==
    ASSUME NEW x, WithinBudget(x), NEW status
    PROVE  TimeInv(Closed(x, status))
<1> DEFINE done == [Fresh EXCEPT !.phase = "done", !.status = status]
           full == [done EXCEPT !.call = x.call, !.tenant = x.tenant, !.made = x.made,
                                !.spent = x.spent]
<1>1. done.phase = "done" /\ done.call = NoCall /\ done.age = 0 /\ done.kept = 0
  BY DEF Fresh
<1>2. /\ full.phase = "done" /\ full.call = x.call /\ full.age = 0 /\ full.kept = 0
      /\ full.spent = x.spent
  BY DEF Fresh
<1>3. Closed(x, status) = IF status # 200 THEN done ELSE full
  BY DEF Closed
<1> HIDE DEF done, full
<1>4. TimeInv(done)
  BY <1>1 DEF TimeInv, WithinBudget, NoCall
<1>5. TimeInv(full)
  BY <1>2 DEF TimeInv, WithinBudget
<1>6. QED
  BY <1>3, <1>4, <1>5

LEMMA FailedTime ==
    ASSUME NEW x, WithinBudget(x), NEW error
    PROVE  TimeInv(Failed(x, error))
BY ClosedTime DEF Failed

\* The first node begins, as y: its limit is what it may take.
LEMMA BegunTime ==
    ASSUME NEW r \in Requests, NEW x, Ready(r, x), Due(x), x.plan # <<>>,
           NEW y, y.call = x.call, y.plan = x.plan, y.age = x.age, y.kept = x.kept,
           y.left = Limit(x.plan[1].node),
           x.call.route = "correlate" /\ x.plan[1].node = "search" =>
               x.age < WallClock /\ Accounted(y)
    PROVE  Underway(y)
<1> DEFINE node == x.plan[1].node
           m == Len(x.plan)
<1>1. IsSeq(x.plan) /\ m \in Nat /\ m > 0 /\ 1 \in DOMAIN x.plan /\ DOMAIN x.plan = 1..m
  BY SeqFacts DEF Due
<1>2. /\ x.call \in CallsOf[r] /\ LongestOf(x.call) \in Nat /\ x.kept \in Nat
      /\ x.age \in Nat /\ Clocked(x) /\ y.left \in Left
  BY LimitFacts, LongestFacts DEF Ready, Common, Due, Clocked
<1> DEFINE wait == Remains(y)
<1>3. wait \in Nat
  BY <1>2, RemainsFacts
<1>4. /\ node \in {"retrieve", "generate"} => wait = NodeTimeout
      /\ node \in {"fetch", "list"} => wait <= CoreTimeout
      /\ node = "search" => wait <= EmbedLimit
      /\ node = "narrate" => wait = CompletionLimit
  BY TimeConstants DEF Remains, Limit, Immediate, NoLimit
<1> HIDE DEF m, node, wait
<1>5. ASSUME x.call.route \in PlainRoutes
      PROVE  PlainUnderway(y)
  <2>1. PlainPlan(x) /\ x.kept + m * Each(x.call) <= LongestOf(x.call)
    BY <1>5 DEF Due, PlainDue, m
  <2>2. wait <= Each(x.call)
    <3>1. node \in PlainNodes(x.call)
      BY <1>1, <2>1 DEF PlainPlan, node
    <3>2. QED
      BY <1>3, <1>4, <3>1, TimeConstants DEF PlainNodes, Each
  <2>3. Each(x.call) \in Nat
    BY TimeConstants
  <2>4. (m - 1) * Each(x.call) \in Nat /\ m * Each(x.call) = (m - 1) * Each(x.call) + Each(x.call)
    BY <1>1, <2>3, PredTimes
  <2>5. y.kept + wait + (m - 1) * Each(y.call) <= LongestOf(y.call)
    BY <1>2, <1>3, <2>1, <2>2, <2>3, <2>4
  <2>6. PlainPlan(y)
    BY <2>1 DEF PlainPlan
  <2>7. QED
    BY <2>5, <2>6 DEF PlainUnderway, m, wait
<1>6. ASSUME x.call.route = "enrich/by-ids"
      PROVE  IdsUnderway(y)
  <2>1. PICK p \in 0..2 : /\ p <= m /\ IdsPlan(x, p)
                          /\ x.kept + p * NodeTimeout + (m - p) * OneId <= LongestOf(x.call)
    BY <1>6 DEF Due, IdsDue, m
  <2>2. IdsPlan(y, p)
    BY <2>1 DEF IdsPlan
  <2>3. wait <= IF p = 0 THEN CoreTimeout ELSE NodeTimeout
    <3>1. node \in IF 1 <= p THEN {"retrieve", "generate"} ELSE {"fetch"}
      BY <1>1, <2>1 DEF IdsPlan, node
    <3>2. QED
      BY <1>4, <2>1, <3>1, TimeConstants
  <2>4. NodeTimeout \in Nat /\ CoreTimeout \in Nat /\ OneId \in Nat
    BY TimeConstants
  <2>5. (m - 1) * OneId \in Nat /\ m * OneId = (m - 1) * OneId + OneId
    BY <1>1, <2>4, PredTimes
  <2>6. (m - p) * OneId \in Nat
    BY <1>1, <2>1, <2>4, Times
  <2>7. p > 0 => p * NodeTimeout = (p - 1) * NodeTimeout + NodeTimeout
    BY <2>4, PredTimes
  <2>8. CASE p = 0
    <3>1. y.kept + wait + 2 * NodeTimeout + (m - 1) * OneId <= LongestOf(y.call)
      <4>1. OneId = CoreTimeout + 2 * NodeTimeout
        BY DEF OneId
      <4>2. x.kept + m * OneId <= LongestOf(x.call)
        BY <1>1, <1>2, <2>1, <2>4, <2>5, <2>8
      <4>3. wait <= CoreTimeout
        BY <2>3, <2>8
      <4> DEFINE rest == (m - 1) * OneId
      <4>4. rest \in Nat /\ x.kept + rest + CoreTimeout + 2 * NodeTimeout <= LongestOf(x.call)
        BY <1>2, <2>4, <2>5, <4>1, <4>2
      <4> HIDE DEF rest
      <4>5. x.kept + wait + 2 * NodeTimeout + rest <= LongestOf(x.call)
        BY <1>2, <1>3, <2>4, <4>3, <4>4
      <4>6. QED
        BY <4>5 DEF rest
    <3>2. /\ p <= Len(y.plan) /\ IdsPlan(y, p)
          /\ y.kept + wait + (IF p = 0 THEN 2 * NodeTimeout + (Len(y.plan) - 1) * OneId
                               ELSE (p - 1) * NodeTimeout + (Len(y.plan) - p) * OneId)
                <= LongestOf(y.call)
      <4>1. Len(y.plan) = m
        BY DEF m
      <4>2. y.kept + wait + (2 * NodeTimeout + (m - 1) * OneId) <= LongestOf(y.call)
        BY <1>2, <1>3, <2>4, <2>5, <3>1
      <4>3. QED
        BY <2>1, <2>2, <2>8, <4>1, <4>2
    <3>3. QED
      BY <2>1, <3>2 DEF IdsUnderway, wait
  <2>9. CASE p > 0
    <3>1. (p - 1) * NodeTimeout \in Nat
      BY <2>4, <2>9, Times
    <3>2. y.kept + wait + ((p - 1) * NodeTimeout + (m - p) * OneId) <= LongestOf(y.call)
      BY <1>2, <1>3, <2>1, <2>3, <2>4, <2>6, <2>7, <2>9, <3>1
    <3>3. /\ p <= Len(y.plan) /\ IdsPlan(y, p)
          /\ y.kept + wait + (IF p = 0 THEN 2 * NodeTimeout + (Len(y.plan) - 1) * OneId
                               ELSE (p - 1) * NodeTimeout + (Len(y.plan) - p) * OneId)
                <= LongestOf(y.call)
      <4>1. Len(y.plan) = m
        BY DEF m
      <4>2. QED
        BY <2>1, <2>2, <2>9, <3>2, <4>1
    <3>4. QED
      BY <2>1, <3>3 DEF IdsUnderway, wait
  <2>10. QED
    BY <2>8, <2>9
<1>7. ASSUME x.call.route = "correlate"
      PROVE  AnalystUnderway(y)
  <2>1. AnalystPlan(x) /\ Accounted(x) /\ x.kept <= WallClock - 1 + EmbedLimit
    BY <1>7 DEF Due, AnalystDue
  <2>2. node = IF m = 1 THEN "narrate" ELSE "search"
    BY <1>1, <2>1 DEF AnalystPlan, node, m
  <2>3. wait <= IF m = 1 THEN CompletionLimit ELSE EmbedLimit
    BY <1>4, <2>2, TimeConstants
  <2>4. m # 1 => Accounted(y) /\ x.kept <= WallClock - 1
    BY <1>2, <1>7, <2>2, TimeConstants DEF node, Clocked
  <2>5. LongestOf(y.call) = WallClock - 1 + EmbedLimit + CompletionLimit
    BY <1>2, <1>7, LongestFacts
  <2>6. AnalystPlan(y)
    BY <2>1 DEF AnalystPlan
  <2>7. /\ m > 1 => y.kept + wait <= WallClock - 1 + EmbedLimit
        /\ y.kept + wait <= LongestOf(y.call)
    BY <1>1, <1>2, <1>3, <2>1, <2>3, <2>4, <2>5, TimeConstants
  <2>8. Len(y.plan) = m
    BY DEF m
  <2>9. Len(y.plan) > 1 => Accounted(y) /\ y.kept + wait <= WallClock - 1 + EmbedLimit
    BY <1>1, <2>4, <2>7, <2>8
  <2>10. QED
    BY <2>6, <2>7, <2>9 DEF AnalystUnderway, wait
<1>8. x.call.route \in OpenRoutes => x.call.route = "health/ready" /\ x.kept = 0
  BY DEF Due
<1>9. Timed(y)
  <2>1. /\ y.kept = x.kept /\ y.age = x.age /\ y.plan = x.plan /\ y.call = x.call
        /\ y.left = Limit(node) /\ y.left \in Int
    BY <1>2, LimitFacts DEF node, Left, NoLimit
  <2>2. x.call.route \in OpenRoutes => node = "probe"
    BY DEF Ready, PlanFits, node
  <2>3. node \in {"fetch", "list", "search", "probe"} \/ y.left # NoLimit
    <3>1. x.call.route \in PlainRoutes => node \in PlainNodes(x.call)
      BY <1>1 DEF Due, PlainDue, PlainPlan, node
    <3>2. x.call.route = "enrich/by-ids" => node \in {"retrieve", "generate", "fetch"}
      BY <1>1 DEF Due, IdsDue, IdsPlan, node
    <3>3. x.call.route = "correlate" => node \in {"search", "narrate"}
      BY <1>1 DEF Due, AnalystDue, AnalystPlan, node
    <3>4. x.call.route \in PlainRoutes \cup {"enrich/by-ids", "correlate"} \cup OpenRoutes
      BY <1>2, CallFacts DEF PlainRoutes, AIRoutes
    <3>5. node \in {"retrieve", "generate", "narrate"} => Limit(node) # NoLimit
      BY TimeConstants DEF Limit, Immediate, NoLimit
    <3>6. QED
      BY <2>1, <2>2, <3>1, <3>2, <3>3, <3>4, <3>5 DEF PlainNodes
  <2>4. node = "probe" => y.left \in {0, NoLimit}
    BY <2>1 DEF Limit
  <2>5. Clocked(y)
    BY <1>2, <2>1 DEF Clocked
  <2>6. node \in {"fetch", "list"} => /\ y.left <= CoreTimeout
                                      /\ y.kept >= Limit(node) - y.left
    <3>1. node \in {"fetch", "list"} => Limit(node) \in {0, CoreTimeout}
      BY DEF Limit
    <3>2. Limit(node) \in Int /\ Limit(node) - Limit(node) = 0
      BY <2>1
    <3>3. QED
      BY <1>2, <2>1, <3>1, <3>2, TimeConstants
  <2>7. x.call.route \in OpenRoutes => y.kept = 0 /\ y.left \in {0, NoLimit}
    BY <1>8, <2>1, <2>2, <2>4
  <2>8. y.left = NoLimit => y.plan[1].node \in {"fetch", "list", "search", "probe"}
    BY <2>1, <2>3 DEF node
  <2>9. QED
    BY <2>1, <2>5, <2>6, <2>7, <2>8 DEF Timed, node
<1>10. x.call.route \in PlainRoutes \cup {"enrich/by-ids", "correlate"} \cup OpenRoutes
  BY <1>2, CallFacts DEF PlainRoutes, AIRoutes
<1>11. QED
  BY <1>1, <1>5, <1>6, <1>7, <1>8, <1>9, <1>10 DEF Underway

\* A search that is begun is counted, and so are the searches paid for.
LEMMA BeginTime ==
    ASSUME NEW r \in Requests, NEW x, Ready(r, x), Due(x), WithinBudget(x),
           NEW after \in Begin(x)
    PROVE  TimeInv(after[1])
<1> DEFINE node == x.plan[1].node
           payer == Account(x, node)
           y == Begun(x)
           z == Paid(x)
<1>1. DOMAIN x = Fields /\ x.phase = "working" /\ Booked(x) /\ x.tenant \in Tenants \cup {Nobody}
  BY DEF Ready, Common
<1>2. CASE x.plan = <<>>
  <2>1. after[1] = Closed(x, 200)
    BY <1>2 DEF Begin
  <2>2. QED
    BY <2>1, ClosedTime
<1>3. CASE x.plan # <<>> /\ BeginError(x) # "none"
  <2>1. after[1] = Failed(x, BeginError(x))
    BY <1>3 DEF Begin
  <2>2. QED
    BY <2>1, FailedTime
<1>4. CASE x.plan # <<>> /\ BeginError(x) = "none"
  <2>1. /\ y.call = x.call /\ y.plan = x.plan /\ y.age = x.age /\ y.kept = x.kept
        /\ y.left = Limit(node)
        /\ y.phase = "working" /\ y.spent = x.spent /\ DOMAIN y = Fields
        /\ y.session = IF node = "search" THEN Recorded(x.session, x.plan[1].item) ELSE x.session
    BY <1>1 DEF Begun, Fields
  <2>2. /\ z.call = y.call /\ z.plan = y.plan /\ z.age = y.age /\ z.kept = y.kept
        /\ z.left = y.left
        /\ z.phase = y.phase /\ z.session = y.session /\ z.spent = Append(y.spent, Charge(x))
    BY <2>1 DEF Paid, Fields
  <2> HIDE DEF y, z
  <2>3. IsSeq(x.spent) /\ Len(x.spent) \in Nat
    BY <1>1, SeqFacts DEF Booked
  <2>4. /\ Len(z.spent) = Len(x.spent) + 1
        /\ \A i \in DOMAIN z.spent : \/ i \in DOMAIN x.spent /\ z.spent[i] = x.spent[i]
                                     \/ i = Len(x.spent) + 1 /\ z.spent[i] = Charge(x)
    BY <2>1, <2>2, <2>3, AppendFacts
  <2>5. ASSUME x.call.route = "correlate", node = "search"
        PROVE  /\ x.age < WallClock /\ Accounted(y) /\ Accounted(z)
               /\ Len(x.spent) + 1 <= MaxIterations
    <3>1. Accounted(x) /\ x.age \in Nat
      BY <1>4, <2>5, LimitFacts DEF Due, AnalystDue, Ready, Common
    <3>2. ~CallRefused(x.session, x.age, x.plan[1].item)
      BY <1>4, <2>5 DEF BeginError
    <3>3. x.age < WallClock /\ x.session.iterations < MaxIterations
      BY <3>1, <3>2, TimeConstants DEF CallRefused, Accounted
    <3>4. /\ y.session.iterations = x.session.iterations + 1
          /\ z.session.iterations = x.session.iterations + 1
      BY <2>1, <2>2, <2>5 DEF Recorded
    <3>5. QED
      BY <2>1, <2>3, <2>4, <3>1, <3>3, <3>4, TimeConstants DEF Accounted
  <2>6. Underway(y)
    BY <1>4, <2>1, <2>5, BegunTime
  <2>7. Underway(z)
    BY <1>4, <2>1, <2>2, <2>5, BegunTime
  <2>8. WithinBudget(y)
    BY <2>1 DEF WithinBudget
  <2>9. payer # Nobody => WithinBudget(z)
    <3> SUFFICES ASSUME payer # Nobody, x.call.route = "correlate", NEW i \in DOMAIN z.spent,
                        z.spent[i].payer = Platform
                 PROVE  i <= MaxIterations
      BY <2>1, <2>2 DEF WithinBudget
    <3>1. CASE i \in DOMAIN x.spent /\ z.spent[i] = x.spent[i]
      BY <3>1 DEF WithinBudget
    <3>2. CASE i = Len(x.spent) + 1 /\ z.spent[i] = Charge(x)
      <4>1. payer = Platform
        BY <3>2 DEF Charge
      <4>2. x.tenant # Platform \/ x.tenant = Nobody
        BY <1>1, TimeConstants
      <4>3. IsSeq(x.plan) /\ 1 \in DOMAIN x.plan /\ AnalystPlan(x)
        BY <1>4, SeqFacts DEF Due, AnalystDue
      <4>4. node \in {"search", "narrate"}
        BY <4>3 DEF AnalystPlan
      <4>5. node = "search"
        BY <4>1, <4>2, <4>4 DEF Account
      <4>6. QED
        BY <2>5, <3>2, <4>5
    <3>3. QED
      BY <2>4, <3>1, <3>2
  <2>10. after[1] \in {y, Failed(x, "RateLimitError")}
         \/ (payer # Nobody /\ after[1] \in {z, Failed(z, "UnsafeContentError"),
                                             Failed(z, "BudgetExceededError")})
    <3>1. CASE payer = Nobody
      <4>1. after = <<y, bucket>>
        BY <1>4, <3>1 DEF Begin, Begun, y
      <4>2. QED
        BY <4>1
    <3>2. CASE payer # Nobody /\ bucket[payer] = 0
      <4>1. after = <<Failed(x, "RateLimitError"), bucket>>
        BY <1>4, <3>2 DEF Begin
      <4>2. QED
        BY <4>1
    <3>3. CASE payer # Nobody /\ bucket[payer] # 0
      <4>1. after \in ({IF Blocked(x) THEN Failed(Paid(x), "UnsafeContentError") ELSE Paid(x)}
                       \cup (IF payer = x.tenant THEN {Failed(Paid(x), "BudgetExceededError")}
                             ELSE {}))
                      \X {[bucket EXCEPT ![payer] = @ - 1]}
        BY <1>4, <3>3 DEF Begin, Paid, Begun, Charge
      <4>2. QED
        BY <3>3, <4>1 DEF z
    <3>4. QED
      BY <3>1, <3>2, <3>3
  <2>11. TimeInv(y) /\ TimeInv(Failed(x, "RateLimitError"))
    BY <2>1, <2>6, <2>8, FailedTime DEF TimeInv
  <2>12. payer # Nobody => /\ TimeInv(z) /\ TimeInv(Failed(z, "UnsafeContentError"))
                           /\ TimeInv(Failed(z, "BudgetExceededError"))
    BY <2>1, <2>2, <2>7, <2>9, FailedTime DEF TimeInv
  <2>13. QED
    BY <2>10, <2>11, <2>12
<1>5. QED
  BY <1>2, <1>3, <1>4

LEMMA ProceedTime ==
    ASSUME NEW r \in Requests, NEW x, Ready(r, x), Due(x), WithinBudget(x), Proceed(r, x)
    PROVE  \E n, b : Step(r, n, b) /\ TimeInv(n)
<1>1. PICK after \in Begin(x) : Step(r, after[1], after[2])
  BY DEF Proceed
<1>2. QED
  BY <1>1, BeginTime

LEMMA ListIsSeq ==
    ASSUME NEW m \in Nat, NEW S, NEW f \in [1..m -> S]
    PROVE  IsSeq(f) /\ Len(f) = m /\ DOMAIN f = 1..m
<1>1. DOMAIN f = 1..m
  OBVIOUS
<1>2. f \in Seq(S)
  OBVIOUS
<1>3. Len(f) = m
  BY <1>1, <1>2
<1>4. IsSeq(f)
  BY <1>2 DEF IsSeq
<1>5. QED
  BY <1>1, <1>3, <1>4

\* The plan a handler starts with is within the time its route may take.
LEMMA PlanIsDue ==
    ASSUME NEW r \in Requests, NEW call \in CallsOf[r],
           NEW x, x.call = call, x.plan = PlanFor(call), x.age = 0, x.kept = 0, x.spent = <<>>,
           x.session = OpenSession
    PROVE  Due(x)
<1> DEFINE n == Len(call.items)
<1>1. IsSeq(call.items) /\ n \in Nat /\ DOMAIN call.items = 1..n
  BY CallFacts, SeqFacts
<1>2. /\ NodeTimeout \in Nat /\ CoreTimeout \in Nat /\ OneId \in Nat /\ EmbedLimit \in Nat
      /\ WallClock \in Nat \ {0} /\ MaxIterations \in Nat /\ Clocked(x)
  BY TimeConstants DEF Clocked
<1> HIDE DEF n
<1>3. CASE call.route = "enrich"
  <2> DEFINE m == 2 * n
             node(k) == IF k % 2 = 1 THEN "retrieve" ELSE "generate"
             step(k) == EnrichmentGraph(call.items[(k + 1) \div 2])[IF k % 2 = 1 THEN 1 ELSE 2]
             plan == [k \in 1..m |-> step(k)]
  <2>1. x.plan = plan
    BY <1>3 DEF PlanFor, EnrichmentGraphs, n
  <2>2. m \in Nat /\ \A k \in 1..m : k % 2 = 1 => k < m
    BY <1>1
  <2> HIDE DEF m
  <2>3. \A k \in 1..m : plan[k].node = node(k)
    BY DEF EnrichmentGraph, At
  <2> HIDE DEF step
  <2>4. IsSeq(x.plan) /\ Len(x.plan) = m /\ DOMAIN x.plan = 1..m
    <3>1. plan \in [1..m -> {step(k) : k \in 1..m}]
      OBVIOUS
    <3> HIDE DEF plan
    <3>2. IsSeq(plan) /\ Len(plan) = m /\ DOMAIN plan = 1..m
      <4>1. \A S : plan \in [1..m -> S] => IsSeq(plan) /\ Len(plan) = m /\ DOMAIN plan = 1..m
        BY <2>2, ListIsSeq
      <4>2. QED
        BY <3>1, <4>1
    <3>3. QED
      BY <2>1, <3>2
  <2>5. PlainPlan(x)
    <3>1. \A i \in DOMAIN x.plan : x.plan[i].node = node(i)
      BY <2>1, <2>3, <2>4
    <3>2. PlainNodes(x.call) = {"retrieve", "generate"}
      BY <1>3 DEF PlainNodes, CoreRoutes
    <3>3. QED
      BY <2>2, <2>4, <3>1, <3>2 DEF PlainPlan
  <2>6. x.kept + m * NodeTimeout <= LongestOf(call)
    <3>1. LongestOf(call) = m * NodeTimeout /\ LongestOf(call) \in Nat
      BY <1>3, LongestFacts DEF n, m
    <3>2. QED
      BY <3>1
  <2>7. Each(call) = NodeTimeout
    BY <1>3 DEF Each, CoreRoutes
  <2>8. PlainDue(x)
    BY <2>4, <2>5, <2>6, <2>7 DEF PlainDue
  <2>9. QED
    BY <1>2, <1>3, <2>4, <2>8 DEF Due, OpenRoutes
<1>4. CASE call.route = "enrich/by-ids"
  <2>1. x.plan = [i \in DOMAIN call.items |-> At("fetch", call.items[i])]
    BY <1>4 DEF PlanFor
  <2>2. \A i \in DOMAIN x.plan : x.plan[i].node = "fetch"
    BY <2>1 DEF At
  <2>3. /\ x.plan \in Seq({At("fetch", call.items[i]) : i \in DOMAIN call.items})
        /\ Len(x.plan) = n /\ DOMAIN x.plan = 1..n
    BY <1>1, <2>1
  <2>4. IsSeq(x.plan)
    BY <2>3 DEF IsSeq
  <2>5. LongestOf(call) = n * OneId /\ LongestOf(call) \in Nat
    BY <1>4, LongestFacts DEF n
  <2>6. IdsPlan(x, 0)
    BY <2>2, <2>3 DEF IdsPlan
  <2>7. 0 <= Len(x.plan) /\ x.kept + 0 * NodeTimeout + (Len(x.plan) - 0) * OneId <= LongestOf(x.call)
    <3>1. n - 0 = n /\ 0 * NodeTimeout = 0
      BY <1>1, <1>2
    <3>2. QED
      BY <1>1, <2>3, <2>5, <3>1
  <2>8. IdsDue(x)
    BY <2>6, <2>7 DEF IdsDue
  <2>9. QED
    BY <1>2, <1>4, <2>4, <2>8 DEF Due, PlainRoutes, CoreRoutes, OpenRoutes
<1>5. CASE call.route \in {"ask", "remediate", "map"}
  <2> DEFINE first == At("retrieve", call.items[1])
             second == At("generate", call.items[1])
  <2>1. x.plan = <<first, second>>
    BY <1>5 DEF PlanFor, CopilotGraph, RemediationGraph, MappingGraph
  <2>2. first.node = "retrieve" /\ second.node = "generate"
    BY DEF At
  <2> HIDE DEF first, second
  <2>3. IsSeq(x.plan) /\ Len(x.plan) = 2
    BY <2>1, TupleFacts
  <2>4. DOMAIN x.plan = 1..2 /\ x.plan[1] = first /\ x.plan[2] = second
    BY <2>1
  <2>5. PlainPlan(x)
    <3>1. PlainNodes(x.call) = {"retrieve", "generate"}
      BY <1>5 DEF PlainNodes, CoreRoutes
    <3>2. \A i \in DOMAIN x.plan : i = 1 \/ i = 2
      BY <2>4
    <3>3. QED
      BY <2>2, <2>3, <2>4, <3>1, <3>2 DEF PlainPlan
  <2>6. LongestOf(call) = 2 * NodeTimeout /\ Each(call) = NodeTimeout
    BY <1>5 DEF LongestOf, Each, CoreRoutes
  <2>7. PlainDue(x)
    BY <1>2, <2>3, <2>5, <2>6 DEF PlainDue
  <2>8. QED
    BY <1>2, <1>5, <2>3, <2>7 DEF Due, OpenRoutes
<1>6. CASE call.route \in {"financial", "report"} \cup CoreRoutes
  <2>1. PICK node, item : /\ x.plan = <<At(node, item)>>
                          /\ node \in PlainNodes(call) /\ node # "retrieve"
    BY <1>6 DEF PlanFor, FinancialGraph, ReportGraph, PlainNodes, CoreRoutes
  <2>2. IsSeq(x.plan) /\ Len(x.plan) = 1 /\ DOMAIN x.plan = 1..1 /\ x.plan[1].node = node
    BY <2>1, TupleFacts DEF At
  <2>3. PlainPlan(x)
    BY <2>1, <2>2 DEF PlainPlan
  <2>4. LongestOf(call) = Each(call) /\ Each(call) \in Nat
    BY <1>6, TimeConstants DEF LongestOf, Each, CoreRoutes
  <2>5. PlainDue(x)
    BY <2>2, <2>3, <2>4 DEF PlainDue
  <2>6. QED
    BY <1>2, <1>6, <2>2, <2>5 DEF Due, CoreRoutes, OpenRoutes
<1>7. CASE call.route = "correlate"
  <2> DEFINE m == IF n < MaxIterations THEN n ELSE MaxIterations
             front == [i \in 1..m |-> At("search", call.items[i])]
             back == <<At("narrate", call.items)>>
  <2>1. x.plan = front \o back
    BY <1>7 DEF PlanFor, CorrelatePlan, n
  <2>2. m \in Nat
    BY <1>1, <1>2
  <2> HIDE DEF m
  <2>3. /\ front \in Seq({front[i] : i \in 1..m}) /\ Len(front) = m /\ DOMAIN front = 1..m
        /\ \A i \in 1..m : front[i].node = "search"
    BY <2>2 DEF At
  <2>4. IsSeq(back) /\ Len(back) = 1 /\ DOMAIN back = 1..1 /\ back[1].node = "narrate"
    BY TupleFacts DEF At
  <2> HIDE DEF front, back
  <2>5. IsSeq(front)
    BY <2>3 DEF IsSeq
  <2>6. /\ IsSeq(x.plan) /\ Len(x.plan) = m + 1
        /\ \A i \in DOMAIN front : i \in DOMAIN x.plan /\ x.plan[i] = front[i]
        /\ \A i \in DOMAIN x.plan : i \notin DOMAIN front =>
              i - m \in DOMAIN back /\ x.plan[i] = back[i - m]
    <3> DEFINE whole == front \o back
    <3>1. /\ IsSeq(whole) /\ Len(whole) = Len(front) + Len(back)
          /\ \A i \in DOMAIN front : i \in DOMAIN whole /\ whole[i] = front[i]
          /\ \A i \in DOMAIN whole : i \notin DOMAIN front =>
                i - Len(front) \in DOMAIN back /\ whole[i] = back[i - Len(front)]
      BY <2>4, <2>5, ConcatFacts
    <3>2. x.plan = whole
      BY <2>1
    <3> HIDE DEF whole
    <3>3. QED
      BY <2>3, <2>4, <3>1, <3>2
  <2>7. DOMAIN x.plan = 1..(m + 1)
    BY <2>2, <2>6, SeqFacts
  <2>8. AnalystPlan(x)
    BY <2>2, <2>3, <2>4, <2>6, <2>7 DEF AnalystPlan
  <2>9. Accounted(x)
    BY <1>2 DEF Accounted, OpenSession
  <2>10. AnalystDue(x)
    BY <1>2, <2>8, <2>9 DEF AnalystDue
  <2>11. QED
    BY <1>2, <1>7, <2>6, <2>10 DEF Due, PlainRoutes, GraphRoutes, CoreRoutes, OpenRoutes
<1>8. CASE call.route \in OpenRoutes
  <2>1. IsSeq(x.plan) /\ (x.plan # <<>> => call.route = "health/ready")
    BY <1>8, TupleFacts DEF PlanFor, OpenRoutes
  <2>2. QED
    BY <1>2, <1>8, <2>1 DEF Due, PlainRoutes, GraphRoutes, CoreRoutes, OpenRoutes
<1>9. QED
  BY <1>3, <1>4, <1>5, <1>6, <1>7, <1>8, CallFacts DEF AIRoutes, GraphRoutes

\* When a node ends, or is skipped, there is time for the rest of the plan.
LEMMA RestIsDue ==
    ASSUME NEW r \in Requests, NEW x, NEW y, x.call \in CallsOf[r], x.left \in Left, x.plan # <<>>,
           Due(x) \/ Underway(x), y.call = x.call, y.age = x.age, y.kept = x.kept,
           y.session = x.session, Len(y.spent) = Len(x.spent), y.plan = Tail(x.plan)
    PROVE  Due(y)
<1> DEFINE m == Len(x.plan)
<1>1. IsSeq(x.plan) /\ m \in Nat /\ m > 0 /\ DOMAIN x.plan = 1..m
  BY SeqFacts DEF Due, Underway
<1>2. /\ IsSeq(y.plan) /\ Len(y.plan) = m - 1 /\ DOMAIN y.plan = 1..(m - 1)
      /\ \A i \in DOMAIN y.plan : i + 1 \in DOMAIN x.plan /\ y.plan[i] = x.plan[i + 1]
  BY <1>1, TailFacts, SeqFacts
<1>3. Remains(x) \in Nat /\ Clocked(x) /\ x.kept \in Nat
  BY RemainsFacts DEF Due, Underway, Timed, Clocked
<1>4. LongestOf(x.call) \in Nat
  BY LongestFacts
<1> SUFFICES ASSUME y.plan # <<>>
             PROVE  /\ y.call.route \in PlainRoutes => PlainDue(y)
                    /\ y.call.route = "enrich/by-ids" => IdsDue(y)
                    /\ y.call.route = "correlate" => AnalystDue(y)
  BY <1>2, <1>3 DEF Due, Underway, Timed, Clocked
<1>5. m > 1
  BY <1>1, <1>2, SeqFacts
<1> HIDE DEF m
<1>6. ASSUME x.call.route \in PlainRoutes
      PROVE  PlainDue(y)
  <2>1. PlainPlan(x) /\ x.call.route # "health/ready"
    BY <1>6 DEF Due, Underway, PlainDue, PlainUnderway, PlainRoutes, GraphRoutes, CoreRoutes
  <2>2. Each(x.call) \in Nat
    BY TimeConstants
  <2>3. (m - 1) * Each(x.call) \in Nat /\ m * Each(x.call) = (m - 1) * Each(x.call) + Each(x.call)
    BY <1>1, <2>2, PredTimes
  <2>4. x.kept + (m - 1) * Each(x.call) <= LongestOf(x.call)
    <3>1. CASE Due(x)
      <4>1. x.kept + m * Each(x.call) <= LongestOf(x.call)
        BY <1>6, <3>1 DEF Due, PlainDue, m
      <4>2. QED
        BY <1>3, <1>4, <2>2, <2>3, <4>1
    <3>2. CASE Underway(x)
      <4>1. x.kept + Remains(x) + (m - 1) * Each(x.call) <= LongestOf(x.call) /\ Remains(x) \in Nat
        BY <1>3, <1>6, <3>2 DEF Underway, PlainUnderway, m
      <4>2. QED
        BY <1>3, <1>4, <2>3, <4>1
    <3>3. QED
      BY <3>1, <3>2
  <2>5. PlainPlan(y)
    <3> SUFFICES ASSUME NEW i \in DOMAIN y.plan
                 PROVE  /\ y.plan[i].node \in PlainNodes(y.call)
                        /\ y.plan[i].node = "retrieve" => i < Len(y.plan)
      BY DEF PlainPlan
    <3>1. i \in 1..(m - 1) /\ i + 1 \in DOMAIN x.plan /\ y.plan[i] = x.plan[i + 1]
      BY <1>2
    <3>2. x.plan[i + 1].node = "retrieve" => i + 1 < m
      BY <2>1, <3>1 DEF PlainPlan, m
    <3>3. QED
      BY <1>1, <1>2, <2>1, <3>1, <3>2 DEF PlainPlan
  <2>6. QED
    BY <1>2, <2>4, <2>5 DEF PlainDue
<1>7. ASSUME x.call.route = "enrich/by-ids"
      PROVE  IdsDue(y)
  <2>1. NodeTimeout \in Nat /\ CoreTimeout \in Nat /\ OneId \in Nat /\ OneId = CoreTimeout + 2 * NodeTimeout
    BY TimeConstants DEF OneId
  \* One node less: of the graph of an id, or a fetch.
  <2>2. PICK p \in 0..2 :
           /\ p <= m /\ IdsPlan(x, p)
           /\ x.kept + (IF p = 0 THEN (m - 1) * OneId ELSE (p - 1) * NodeTimeout + (m - p) * OneId)
                <= LongestOf(x.call)
    <3>1. CASE Due(x)
      <4>1. PICK p \in 0..2 : /\ p <= m /\ IdsPlan(x, p)
                              /\ x.kept + p * NodeTimeout + (m - p) * OneId <= LongestOf(x.call)
        BY <1>7, <3>1 DEF Due, IdsDue, m
      <4>2. (m - 1) * OneId \in Nat /\ m * OneId = (m - 1) * OneId + OneId /\ (m - p) * OneId \in Nat
        <5>1. m - p \in Nat
          BY <1>1, <4>1
        <5>2. QED
          BY <1>1, <2>1, <5>1, PredTimes, Times
      <4>3. p > 0 => (p - 1) * NodeTimeout \in Nat /\ p * NodeTimeout = (p - 1) * NodeTimeout + NodeTimeout
        BY <2>1, PredTimes
      <4>4. p = 0 => x.kept + (m - 1) * OneId <= LongestOf(x.call)
        <5>1. p = 0 => p * NodeTimeout = 0 /\ m - p = m
          BY <1>1, <2>1
        <5>2. p = 0 => x.kept + m * OneId <= LongestOf(x.call)
          BY <1>3, <4>1, <4>2, <5>1
        <5>3. QED
          BY <1>3, <1>4, <2>1, <4>2, <5>2
      <4>5. p # 0 => x.kept + ((p - 1) * NodeTimeout + (m - p) * OneId) <= LongestOf(x.call)
        BY <1>3, <1>4, <2>1, <4>1, <4>2, <4>3
      <4>6. QED
        BY <4>1, <4>4, <4>5
    <3>2. CASE Underway(x)
      <4>1. PICK p \in 0..2 :
               /\ p <= m /\ IdsPlan(x, p)
               /\ x.kept + Remains(x) + (IF p = 0 THEN 2 * NodeTimeout + (m - 1) * OneId
                                    ELSE (p - 1) * NodeTimeout + (m - p) * OneId)
                    <= LongestOf(x.call)
        BY <1>7, <3>2 DEF Underway, IdsUnderway, m
      <4>2. Remains(x) \in Nat
        BY <1>3
      <4>3. (m - 1) * OneId \in Nat /\ (m - p) * OneId \in Nat
        <5>1. m - p \in Nat
          BY <1>1, <4>1
        <5>2. QED
          BY <1>1, <2>1, <5>1, PredTimes, Times
      <4>4. p > 0 => (p - 1) * NodeTimeout \in Nat
        BY <2>1, PredTimes
      <4>5. p = 0 => x.kept + (m - 1) * OneId <= LongestOf(x.call)
        BY <1>3, <1>4, <2>1, <4>1, <4>2, <4>3
      <4>6. p # 0 => x.kept + ((p - 1) * NodeTimeout + (m - p) * OneId) <= LongestOf(x.call)
        BY <1>3, <1>4, <2>1, <4>1, <4>2, <4>3, <4>4
      <4>7. QED
        BY <4>1, <4>5, <4>6
    <3>3. QED
      BY <3>1, <3>2
  <2> DEFINE q == IF p = 0 THEN 0 ELSE p - 1
  <2>3. q \in 0..2 /\ q <= m - 1
    BY <1>1, <1>5, <2>2
  <2>4. IdsPlan(y, q)
    <3> SUFFICES ASSUME NEW i \in DOMAIN y.plan
                 PROVE  y.plan[i].node \in IF i <= q THEN {"retrieve", "generate"} ELSE {"fetch"}
      BY DEF IdsPlan
    <3>1. i \in 1..(m - 1) /\ i + 1 \in DOMAIN x.plan /\ y.plan[i] = x.plan[i + 1]
      BY <1>2
    <3>2. i <= q <=> i + 1 <= p
      BY <1>1, <2>2, <3>1
    <3>3. QED
      BY <2>2, <3>1, <3>2 DEF IdsPlan
  <2>5. y.kept + q * NodeTimeout + (Len(y.plan) - q) * OneId <= LongestOf(y.call)
    <3>1. CASE p = 0
      <4>1. (m - 1) * OneId \in Nat /\ 0 * NodeTimeout = 0 /\ m - 1 - 0 = m - 1
        BY <1>1, <2>1, PredTimes
      <4>2. q = 0 /\ x.kept + (m - 1) * OneId <= LongestOf(x.call)
        BY <2>2, <3>1
      <4>3. x.kept + 0 * NodeTimeout + (m - 1 - 0) * OneId <= LongestOf(x.call)
        BY <1>3, <4>1, <4>2
      <4>4. QED
        BY <1>2, <4>2, <4>3
    <3>2. CASE p # 0
      <4>1. q = p - 1 /\ m - 1 - q = m - p
        BY <1>1, <2>2, <3>2
      <4>2. x.kept + ((p - 1) * NodeTimeout + (m - p) * OneId) <= LongestOf(x.call)
        BY <2>2, <3>2
      <4>3. (p - 1) * NodeTimeout \in Nat /\ (m - p) * OneId \in Nat
        <5>1. m - p \in Nat /\ p - 1 \in Nat
          BY <1>1, <2>2, <3>2
        <5>2. QED
          BY <2>1, <5>1, Times
      <4>4. x.kept + (p - 1) * NodeTimeout + (m - p) * OneId <= LongestOf(x.call)
        BY <1>3, <4>2, <4>3
      <4>5. QED
        BY <1>2, <4>1, <4>4
    <3>3. QED
      BY <3>1, <3>2
  <2> HIDE DEF q
  <2>6. QED
    BY <1>2, <2>3, <2>4, <2>5 DEF IdsDue
<1>8. ASSUME x.call.route = "correlate"
      PROVE  AnalystDue(y)
  <2>1. /\ AnalystPlan(x) /\ Accounted(x)
        /\ x.kept <= WallClock - 1 + EmbedLimit
    <3>1. Due(x) \/ (Remains(x) \in Nat /\ AnalystPlan(x) /\ Accounted(x)
                     /\ x.kept + Remains(x) <= WallClock - 1 + EmbedLimit)
      BY <1>3, <1>5, <1>8 DEF Underway, AnalystUnderway, m
    <3>2. QED
      BY <1>3, <1>8, <3>1, TimeConstants DEF Due, AnalystDue, m
  <2>2. Accounted(y)
    BY <2>1 DEF Accounted
  <2>3. AnalystPlan(y)
    <3> SUFFICES ASSUME NEW i \in DOMAIN y.plan
                 PROVE  y.plan[i].node = IF i = Len(y.plan) THEN "narrate" ELSE "search"
      BY DEF AnalystPlan
    <3>1. i \in 1..(m - 1) /\ i + 1 \in DOMAIN x.plan /\ y.plan[i] = x.plan[i + 1]
      BY <1>2
    <3>2. i = m - 1 <=> i + 1 = m
      BY <1>1, <3>1
    <3>3. x.plan[i + 1].node = IF i + 1 = m THEN "narrate" ELSE "search"
      BY <2>1, <3>1 DEF AnalystPlan, m
    <3>4. QED
      BY <1>2, <3>1, <3>2, <3>3
  <2>4. QED
    BY <2>1, <2>2, <2>3 DEF AnalystDue
<1>9. QED
  BY <1>6, <1>7, <1>8

\* A finding that has been fetched is enriched before the next is fetched.
LEMMA FetchedIsDue ==
    ASSUME NEW r \in Requests, NEW x, NEW y, x.call \in CallsOf[r], x.left \in Left,
           Underway(x), x.call.route = "enrich/by-ids", x.plan[1].node = "fetch",
           y.call = x.call, y.age = x.age, y.kept = x.kept, NEW first, NEW second,
           first.node = "retrieve", second.node = "generate",
           y.plan = <<first, second>> \o Tail(x.plan)
    PROVE  Due(y)
<1> DEFINE m == Len(x.plan)
           front == <<first, second>>
           rest == Tail(x.plan)
<1>1. /\ IsSeq(x.plan) /\ m \in Nat /\ m > 0 /\ DOMAIN x.plan = 1..m /\ 1 \in DOMAIN x.plan
      /\ Remains(x) \in Nat /\ Clocked(x) /\ x.kept \in Nat
  BY SeqFacts, RemainsFacts DEF Underway, Timed, Clocked
<1>2. /\ IsSeq(rest) /\ Len(rest) = m - 1 /\ DOMAIN rest = 1..(m - 1)
      /\ \A i \in DOMAIN rest : i + 1 \in DOMAIN x.plan /\ rest[i] = x.plan[i + 1]
  BY <1>1, TailFacts, SeqFacts DEF Underway
<1>3. /\ IsSeq(front) /\ Len(front) = 2 /\ DOMAIN front = 1..2
      /\ front[1] = first /\ front[2] = second
  BY TupleFacts
<1> DEFINE whole == front \o rest
<1>4. /\ IsSeq(whole) /\ Len(whole) = Len(front) + Len(rest)
      /\ \A i \in DOMAIN front : i \in DOMAIN whole /\ whole[i] = front[i]
      /\ \A i \in DOMAIN whole :
            i \notin DOMAIN front => i - Len(front) \in DOMAIN rest
                                     /\ whole[i] = rest[i - Len(front)]
  <2>1. IsSeq(front) /\ IsSeq(rest)
    BY <1>2, <1>3
  <2> HIDE DEF front, rest
  <2>2. QED
    BY ONLY <2>1, ConcatFacts
<1>5. y.plan = whole
  OBVIOUS
<1> HIDE DEF m, front, rest, whole
<1>6. IsSeq(y.plan) /\ Len(y.plan) = m + 1 /\ DOMAIN y.plan = 1..(m + 1)
  <2>1. Len(whole) = m + 1
    BY <1>1, <1>2, <1>3, <1>4
  <2>2. QED
    BY <1>1, <1>4, <1>5, <2>1, SeqFacts
<1>7. PICK p \in 0..2 :
         /\ p <= m /\ IdsPlan(x, p)
         /\ x.kept + Remains(x) + (IF p = 0 THEN 2 * NodeTimeout + (m - 1) * OneId
                              ELSE (p - 1) * NodeTimeout + (m - p) * OneId)
              <= LongestOf(x.call)
  BY DEF Underway, IdsUnderway, m
<1>8. p = 0
  <2>1. x.plan[1].node \in IF 1 <= p THEN {"retrieve", "generate"} ELSE {"fetch"}
    BY <1>1, <1>7 DEF IdsPlan
  <2>2. ~(1 <= p)
    BY <2>1
  <2>3. QED
    BY <1>7, <2>2
<1>9. IdsPlan(y, 2)
  <2> SUFFICES ASSUME NEW i \in DOMAIN y.plan
               PROVE  y.plan[i].node \in IF i <= 2 THEN {"retrieve", "generate"} ELSE {"fetch"}
    BY DEF IdsPlan
  <2>1. i \in 1..(m + 1)
    BY <1>6
  <2>2. CASE i <= 2
    <3>1. i = 1 \/ i = 2
      BY <2>1, <2>2
    <3>2. y.plan[i] = front[i]
      BY <1>3, <1>4, <1>5, <3>1
    <3>3. QED
      BY <1>3, <2>2, <3>1, <3>2
  <2>3. CASE ~(i <= 2)
    <3>1. i \notin DOMAIN front /\ i \in DOMAIN whole
      BY <1>3, <1>5, <2>1, <2>3
    <3>2. i - 2 \in DOMAIN rest /\ y.plan[i] = rest[i - 2]
      BY <1>3, <1>4, <1>5, <3>1
    <3>3. i - 2 + 1 \in DOMAIN x.plan /\ y.plan[i] = x.plan[i - 2 + 1] /\ ~(i - 2 + 1 <= 0)
      BY <1>2, <2>1, <2>3, <3>2
    <3>4. QED
      BY <1>7, <1>8, <2>3, <3>3 DEF IdsPlan
  <2>4. QED
    BY <2>2, <2>3
<1>10. y.kept + 2 * NodeTimeout + (Len(y.plan) - 2) * OneId <= LongestOf(y.call)
  <2>1. NodeTimeout \in Nat /\ OneId \in Nat /\ (m - 1) * OneId \in Nat
    BY <1>1, TimeConstants, PredTimes
  <2>2. Len(y.plan) - 2 = m - 1
    BY <1>1, <1>6
  <2>3. LongestOf(x.call) \in Nat
    BY LongestFacts
  <2>4. x.kept + Remains(x) + (2 * NodeTimeout + (m - 1) * OneId) <= LongestOf(x.call)
    BY <1>7, <1>8
  <2>5. x.kept + 2 * NodeTimeout + (m - 1) * OneId <= LongestOf(x.call)
    BY <1>1, <2>1, <2>3, <2>4
  <2>6. QED
    BY <2>2, <2>5
<1>11. IdsDue(y)
  <2>1. 2 <= Len(y.plan)
    BY <1>1, <1>6
  <2>2. QED
    BY <1>9, <1>10, <2>1 DEF IdsDue
<1>12. QED
  BY <1>1, <1>6, <1>11 DEF Due, Clocked, PlainRoutes, CoreRoutes, OpenRoutes

-----------------------------------------------------------------------------
\* What the answers of a request rest on.  The routes that retrieve and then
\* complete, once for each of their items; all of them but remediate cite.

CitingRoutes == {"enrich", "enrich/by-ids", "ask", "map"}
PairRoutes == {"enrich", "ask", "map", "remediate"}
AnsweringRoutes == CitingRoutes \cup PairRoutes

AtNode(x, node) == x.plan # <<>> /\ x.plan[1].node = node

\* Each item that has no answer yet has its two nodes in the plan, or only the
\* completion.
PairsLeft(x, half) ==
    LET m == Len(x.made)
        left == Len(x.call.items) - m
    IN  /\ Len(x.plan) = 2 * left - half
        /\ \A j \in 1..left :
              /\ x.plan[2 * j - half] = At("generate", x.call.items[m + j])
              /\ 2 * j - half > 1 =>
                    x.plan[2 * j - half - 1] = At("retrieve", x.call.items[m + j])
        /\ \A i \in 1..m : x.made[i].about = x.call.items[i]

\* The first p nodes are about the id that is worked on, the others fetch.
IdsLeft(x, p) ==
    /\ p <= Len(x.plan)
    /\ Len(x.made) + (IF p = 0 THEN 0 ELSE 1) + (Len(x.plan) - p) = Len(x.call.items)
    /\ \A i \in DOMAIN x.plan : i > p => x.plan[i].node = "fetch"
    /\ p = 1 => x.plan[1].node = "generate"
    /\ p = 2 => /\ x.plan[1].node = "retrieve" /\ x.plan[2].node = "generate"
                /\ x.plan[1].item = x.plan[2].item

Answering(x) ==
    /\ x.tenant # Nobody
    /\ IsSeq(x.plan) /\ IsSeq(x.made)
    /\ x.call.route \in PairRoutes => \E half \in {0, 1} : PairsLeft(x, half)
    /\ x.call.route = "enrich/by-ids" => \E p \in 0..2 : IdsLeft(x, p)
    /\ x.call.route = "remediate" =>
          /\ Len(x.call.items) = 1
          /\ \A i \in 1..Len(x.made) : ~ForbiddenIn(x.made[i].text) /\ ~x.made[i].approved
    /\ x.call.route \in CitingRoutes => \A i \in 1..Len(x.made) : RestsOnSources(x, i)

\* Where the next retrieval stands, and what it has come back with.
NextAt(x) == RetrievalOf(x.made, Len(x.made) + 1)
Asked(x) == x.spent[NextAt(x)].payer = Platform /\ x.spent[NextAt(x)].item = x.plan[1].item
Sourced(x) == Asked(x) /\ x.spent[NextAt(x)].found = x.context /\ x.context # {}

\* What holds when the next node is about to begin, while it is under way, and
\* when the request has been answered.
Settled(x) ==
    x.call.route \in AnsweringRoutes =>
        /\ Answering(x)
        /\ x.call.route \in CitingRoutes =>
              IF AtNode(x, "generate") THEN Len(x.spent) = NextAt(x) /\ Sourced(x)
              ELSE Len(x.spent) = NextAt(x) - 1

InHand(x) ==
    x.call.route \in AnsweringRoutes =>
        /\ Answering(x)
        /\ x.call.route \in CitingRoutes =>
              /\ AtNode(x, "generate") =>
                    /\ Len(x.spent) = NextAt(x) + 1 /\ Sourced(x)
                    /\ x.spent[NextAt(x) + 1].payer = x.tenant
                    /\ x.spent[NextAt(x) + 1].item = x.plan[1].item
              /\ AtNode(x, "retrieve") => Len(x.spent) = NextAt(x) /\ Asked(x)
              /\ AtNode(x, "fetch") => Len(x.spent) = NextAt(x) - 1

Delivered(x) ==
    /\ x.call.route \in CitingRoutes =>
          /\ Len(x.made) = Len(x.call.items)
          /\ Len(x.spent) = RetrievalOf(x.made, Len(x.made) + 1) - 1
          /\ \A i \in 1..Len(x.made) : RestsOnSources(x, i)
    /\ x.call.route \in {"enrich", "ask", "map"} =>
          \A i \in 1..Len(x.made) : x.made[i].about = x.call.items[i]
    /\ x.call.route = "remediate" =>
          Len(x.made) = 1 /\ ~ForbiddenIn(x.made[1].text) /\ ~x.made[1].approved

GroundInv(x) ==
    /\ x.phase = "working" => InHand(x)
    /\ x.phase = "done" /\ x.status = 200 => Delivered(x)

GroundsInv == \A r \in Requests : GroundInv(req[r])

\* The last of what was spent has come back with the context.
CameBack(x, y, context) ==
    /\ Len(y.spent) = Len(x.spent)
    /\ \A k \in 1..Len(x.spent) :
          /\ y.spent[k].payer = x.spent[k].payer /\ y.spent[k].item = x.spent[k].item
          /\ IF k = Len(x.spent) THEN y.spent[k].found = context ELSE y.spent[k] = x.spent[k]

\* An answer to the item at hand, as the graph of its route makes it.
WellMade(x, answer) ==
    /\ x.call.route \in AnsweringRoutes => answer.about = x.plan[1].item
    /\ x.call.route = "remediate" => ~ForbiddenIn(answer.text) /\ ~answer.approved
    /\ x.call.route \in CitingRoutes => /\ answer.citations = x.context
                                        /\ answer.verified <=> x.context # {}

-----------------------------------------------------------------------------
\* Where the retrievals stand.

LEMMA RetrievalFacts ==
    ASSUME NEW made, NEW i \in Nat \ {0}
    PROVE  /\ RetrievalOf(made, i) \in Nat \ {0}
           /\ RetrievalOf(made, 1) = 1
           /\ made[i].verified => RetrievalOf(made, i + 1) = RetrievalOf(made, i) + 2
           /\ ~made[i].verified => RetrievalOf(made, i + 1) = RetrievalOf(made, i) + 1
<1> DEFINE V(k) == {j \in 1..(k - 1) : made[j].verified}
<1>1. \A k \in Nat \ {0} : IsFiniteSet(V(k)) /\ Cardinality(V(k)) \in Nat
  <2> SUFFICES ASSUME NEW k \in Nat \ {0}
               PROVE  IsFiniteSet(V(k)) /\ Cardinality(V(k)) \in Nat
    OBVIOUS
  <2>1. IsFiniteSet(1..(k - 1)) /\ V(k) \subseteq 1..(k - 1)
    BY FS_Interval
  <2> HIDE DEF V
  <2>2. QED
    BY <2>1, FS_Subset, FS_CardinalityType
<1>2. V(1) = {}
  OBVIOUS
<1>3. made[i].verified => V(i + 1) = V(i) \cup {i} /\ i \notin V(i)
  OBVIOUS
<1>4. ~made[i].verified => V(i + 1) = V(i)
  OBVIOUS
<1>5. \A k : RetrievalOf(made, k) = k + Cardinality(V(k))
  BY DEF RetrievalOf
<1> HIDE DEF V
<1>6. Cardinality(V(1)) = 0
  BY <1>2, FS_EmptySet
<1>7. made[i].verified => Cardinality(V(i + 1)) = Cardinality(V(i)) + 1
  BY <1>1, <1>3, FS_AddElement
<1>8. QED
  BY <1>1, <1>4, <1>5, <1>6, <1>7

LEMMA RetrievalsGrow ==
    ASSUME NEW made, NEW i \in Nat \ {0}, NEW k \in Nat, i < k
    PROVE  /\ RetrievalOf(made, i + 1) <= RetrievalOf(made, k)
           /\ RetrievalOf(made, i + 1) \in Nat /\ RetrievalOf(made, k) \in Nat
<1> DEFINE V(h) == {j \in 1..(h - 1) : made[j].verified}
<1>1. IsFiniteSet(1..(k - 1)) /\ V(k) \subseteq 1..(k - 1) /\ V(i + 1) \subseteq V(k)
  BY FS_Interval
<1>2. RetrievalOf(made, i + 1) = i + 1 + Cardinality(V(i + 1))
      /\ RetrievalOf(made, k) = k + Cardinality(V(k))
  BY DEF RetrievalOf
<1> HIDE DEF V
<1>3. IsFiniteSet(V(k))
  BY <1>1, FS_Subset
<1>4. /\ Cardinality(V(i + 1)) <= Cardinality(V(k))
      /\ Cardinality(V(i + 1)) \in Nat /\ Cardinality(V(k)) \in Nat
  BY <1>1, <1>3, FS_Subset, FS_CardinalityType
<1>5. QED
  BY <1>2, <1>4

LEMMA RetrievalsAlike ==
    ASSUME NEW made, NEW more, NEW i \in Nat \ {0},
           \A j \in 1..(i - 1) : more[j] = made[j]
    PROVE  RetrievalOf(more, i) = RetrievalOf(made, i)
<1>1. {j \in 1..(i - 1) : more[j].verified} = {j \in 1..(i - 1) : made[j].verified}
  OBVIOUS
<1>2. QED
  BY <1>1 DEF RetrievalOf

\* Answers stay as grounded as they were whatever is spent afterwards.
LEMMA RestsStill ==
    ASSUME NEW x, NEW y, NEW n \in Nat, NEW i \in 1..n, RestsOnSources(x, i),
           y.tenant = x.tenant, \A j \in 1..n : y.made[j] = x.made[j],
           \A k \in 1..(RetrievalOf(x.made, n + 1) - 1) : y.spent[k] = x.spent[k]
    PROVE  RestsOnSources(y, i)
<1> DEFINE at == RetrievalOf(x.made, i)
<1>1. RetrievalOf(y.made, i) = at
  BY RetrievalsAlike
<1>2. /\ at \in Nat \ {0}
      /\ x.made[i].verified => RetrievalOf(x.made, i + 1) = at + 2
      /\ ~x.made[i].verified => RetrievalOf(x.made, i + 1) = at + 1
  BY RetrievalFacts
<1>3. /\ RetrievalOf(x.made, i + 1) <= RetrievalOf(x.made, n + 1)
      /\ RetrievalOf(x.made, i + 1) \in Nat /\ RetrievalOf(x.made, n + 1) \in Nat
  BY RetrievalsGrow
<1> HIDE DEF at
<1>4. /\ y.spent[at] = x.spent[at]
      /\ x.made[i].verified => y.spent[at + 1] = x.spent[at + 1]
  BY <1>2, <1>3
<1>5. y.made[i] = x.made[i]
  OBVIOUS
<1>6. QED
  BY <1>1, <1>4, <1>5 DEF RestsOnSources, at

-----------------------------------------------------------------------------
\* The plan of a request that answers moves on.

LEMMA MovedOn ==
    ASSUME NEW s, IsSeq(s), s # <<>>
    PROVE  /\ IsSeq(Tail(s)) /\ Len(s) \in Nat /\ Len(s) > 0 /\ Len(Tail(s)) = Len(s) - 1
           /\ \A i \in 1..(Len(s) - 1) : Tail(s)[i] = s[i + 1]
           /\ Tail(s) # <<>> <=> Len(s) > 1
<1> DEFINE t == Tail(s)
<1>1. IsSeq(t) /\ Len(t) = Len(s) - 1 /\ \A i \in DOMAIN t : t[i] = s[i + 1]
  BY TailFacts
<1>2. Len(s) \in Nat /\ Len(s) > 0
  BY SeqFacts
<1> HIDE DEF t
<1>3. DOMAIN t = 1..(Len(s) - 1) /\ (t # <<>> <=> Len(s) > 1)
  BY <1>1, <1>2, SeqFacts
<1>4. QED
  BY <1>1, <1>2, <1>3 DEF t

LEMMA Appended ==
    ASSUME NEW s, NEW e, IsSeq(s)
    PROVE  /\ IsSeq(Append(s, e)) /\ Len(s) \in Nat /\ Len(Append(s, e)) = Len(s) + 1
           /\ Append(s, e)[Len(s) + 1] = e
           /\ \A i \in 1..Len(s) : Append(s, e)[i] = s[i]
<1> DEFINE more == Append(s, e)
<1>1. /\ IsSeq(more) /\ Len(more) = Len(s) + 1
      /\ \A i \in DOMAIN more : (i \in DOMAIN s /\ more[i] = s[i]) \/ (i = Len(s) + 1 /\ more[i] = e)
  BY AppendFacts
<1>2. Len(s) \in Nat /\ DOMAIN s = 1..Len(s)
  BY SeqFacts
<1> HIDE DEF more
<1>3. DOMAIN more = 1..(Len(s) + 1)
  BY <1>1, <1>2, SeqFacts
<1>4. QED
  BY <1>1, <1>2, <1>3 DEF more

\* Of a pair, the retrieval is done.
LEMMA PairsRetrieved ==
    ASSUME NEW x, NEW y, IsSeq(x.plan), Len(x.made) \in Nat, Len(x.call.items) \in Nat,
           PairsLeft(x, 0), x.plan # <<>>,
           y.plan = Tail(x.plan), y.made = x.made, y.call = x.call
    PROVE  /\ PairsLeft(y, 1) /\ AtNode(x, "retrieve") /\ AtNode(y, "generate")
           /\ y.plan[1].item = x.plan[1].item
<1> DEFINE m == Len(x.made)
           left == Len(x.call.items) - m
           next == y.plan
           Item(j) == x.call.items[m + j]
<1>1. /\ Len(x.plan) \in Nat /\ Len(x.plan) > 0 /\ Len(next) = Len(x.plan) - 1
      /\ \A i \in 1..(Len(x.plan) - 1) : next[i] = x.plan[i + 1]
      /\ next # <<>> <=> Len(x.plan) > 1
  BY MovedOn
<1>2. /\ Len(x.plan) = 2 * left
      /\ \A j \in 1..left : /\ x.plan[2 * j] = At("generate", Item(j))
                            /\ x.plan[2 * j - 1] = At("retrieve", Item(j))
      /\ \A i \in 1..m : x.made[i].about = x.call.items[i]
  BY DEF PairsLeft
<1>3. left \in Nat /\ 1 \in 1..left
  <2>1. left \in Int
    OBVIOUS
  <2> HIDE DEF left
  <2>2. QED
    BY <1>1, <1>2, <2>1
<1> HIDE DEF left, next, Item
<1>4. \A j \in 1..left : next[2 * j - 1] = At("generate", Item(j))
  <2> SUFFICES ASSUME NEW j \in 1..left
               PROVE  next[2 * j - 1] = x.plan[2 * j]
    BY <1>2
  <2>1. 2 * j - 1 \in 1..(Len(x.plan) - 1) /\ 2 * j - 1 + 1 = 2 * j
    BY <1>2, <1>3
  <2>2. QED
    BY <1>1, <2>1
<1>5. \A j \in 1..left : 2 * j - 1 > 1 => next[2 * j - 2] = At("retrieve", Item(j))
  <2> SUFFICES ASSUME NEW j \in 1..left, 2 * j - 1 > 1
               PROVE  next[2 * j - 2] = x.plan[2 * j - 1]
    BY <1>2
  <2>1. 2 * j - 2 \in 1..(Len(x.plan) - 1) /\ 2 * j - 2 + 1 = 2 * j - 1
    BY <1>2, <1>3
  <2>2. QED
    BY <1>1, <2>1
<1>6. PairsLeft(y, 1)
  <2>1. /\ Len(y.plan) = 2 * left - 1
        /\ \A j \in 1..left :
              /\ y.plan[2 * j - 1] = At("generate", Item(j))
              /\ 2 * j - 1 > 1 => y.plan[2 * j - 1 - 1] = At("retrieve", Item(j))
    BY <1>1, <1>2, <1>3, <1>4, <1>5 DEF next
  <2>2. QED
    BY <1>2, <2>1 DEF PairsLeft, left, Item
<1>7. x.plan[1] = At("retrieve", Item(1)) /\ y.plan[1] = At("generate", Item(1)) /\ y.plan # <<>>
  BY <1>1, <1>2, <1>3, <1>4 DEF next
<1>8. QED
  BY <1>6, <1>7 DEF AtNode, At

\* Of a pair, the completion is done, or skipped.
LEMMA PairsAnswered ==
    ASSUME NEW x, NEW y, NEW answer, IsSeq(x.plan), IsSeq(x.made), Len(x.call.items) \in Nat,
           PairsLeft(x, 1), answer.about = x.plan[1].item,
           y.plan = Tail(x.plan), y.made = Append(x.made, answer), y.call = x.call
    PROVE  PairsLeft(y, 0) /\ AtNode(x, "generate") /\ ~AtNode(y, "generate")
<1> DEFINE m == Len(x.made)
           left == Len(x.call.items) - m
           next == y.plan
           Item(j) == x.call.items[m + j]
<1>1. /\ m \in Nat /\ Len(y.made) = m + 1 /\ y.made[m + 1] = answer
      /\ \A i \in 1..m : y.made[i] = x.made[i]
  BY Appended
<1>2. /\ Len(x.plan) = 2 * left - 1
      /\ \A j \in 1..left : /\ x.plan[2 * j - 1] = At("generate", Item(j))
                            /\ 2 * j - 1 > 1 => x.plan[2 * j - 1 - 1] = At("retrieve", Item(j))
      /\ \A i \in 1..m : x.made[i].about = x.call.items[i]
  BY DEF PairsLeft
<1>3. x.plan # <<>> /\ left \in Nat /\ 1 \in 1..left
  <2>1. Len(x.plan) \in Nat /\ (x.plan # <<>> <=> Len(x.plan) > 0)
    BY SeqFacts
  <2>2. left \in Int
    BY <1>1
  <2> HIDE DEF left
  <2>3. left \in Nat /\ 1 \in 1..left /\ Len(x.plan) > 0
    BY <1>2, <2>1, <2>2
  <2>4. QED
    BY <2>1, <2>3
<1>4. /\ Len(x.plan) \in Nat /\ Len(x.plan) > 0 /\ Len(next) = Len(x.plan) - 1
      /\ \A i \in 1..(Len(x.plan) - 1) : next[i] = x.plan[i + 1]
      /\ next # <<>> <=> Len(x.plan) > 1
  BY <1>3, MovedOn
<1> HIDE DEF left, next, Item, m
<1>5. \A j \in 1..(left - 1) : /\ next[2 * j] = At("generate", Item(j + 1))
                               /\ next[2 * j - 1] = At("retrieve", Item(j + 1))
  <2> SUFFICES ASSUME NEW j \in 1..(left - 1)
               PROVE  /\ next[2 * j] = At("generate", Item(j + 1))
                      /\ next[2 * j - 1] = At("retrieve", Item(j + 1))
    OBVIOUS
  <2>1. /\ j + 1 \in 1..left /\ 2 * (j + 1) - 1 = 2 * j + 1 /\ 2 * j + 1 > 1
        /\ 2 * (j + 1) - 1 - 1 = 2 * j
        /\ 2 * j \in 1..(Len(x.plan) - 1) /\ 2 * j - 1 \in 1..(Len(x.plan) - 1)
        /\ 2 * j - 1 + 1 = 2 * j
    BY <1>2, <1>3
  <2>2. next[2 * j] = x.plan[2 * j + 1] /\ next[2 * j - 1] = x.plan[2 * j]
    BY <1>4, <2>1
  <2>3. x.plan[2 * j + 1] = At("generate", Item(j + 1)) /\ x.plan[2 * j] = At("retrieve", Item(j + 1))
    BY <1>2, <2>1
  <2>4. QED
    BY <2>2, <2>3
<1>6. x.plan[1] = At("generate", Item(1))
  BY <1>2, <1>3
<1>7. y.made[m + 1].about = Item(1)
  BY <1>1, <1>6 DEF At
<1>8. PairsLeft(y, 0)
  <2>1. Len(y.call.items) - Len(y.made) = left - 1
    BY <1>1, <1>3 DEF left, m
  <2>2. Len(y.plan) = 2 * (left - 1) - 0
    <3>1. Len(y.plan) = Len(x.plan) - 1 /\ Len(x.plan) = 2 * left - 1
      BY <1>2, <1>4 DEF next
    <3>2. QED
      BY <1>3, <3>1
  <2>3. \A j \in 1..(left - 1) : y.call.items[Len(y.made) + j] = Item(j + 1)
    <3>1. \A j \in 1..(left - 1) : m + 1 + j = m + (j + 1)
      BY <1>1, <1>3
    <3>2. QED
      BY <1>1, <3>1 DEF Item
  <2>4. \A i \in 1..Len(y.made) : y.made[i].about = y.call.items[i]
    BY <1>1, <1>2, <1>7 DEF Item
  <2>5. \A j \in 1..(left - 1) :
           /\ y.plan[2 * j - 0] = At("generate", y.call.items[Len(y.made) + j])
           /\ 2 * j - 0 > 1 => y.plan[2 * j - 0 - 1] = At("retrieve", y.call.items[Len(y.made) + j])
    <3>1. \A j \in 1..(left - 1) : 2 * j - 0 = 2 * j
      BY <1>3
    <3>2. QED
      BY <1>5, <2>3, <3>1 DEF next
  <2>6. QED
    BY <2>1, <2>2, <2>4, <2>5 DEF PairsLeft
<1>9. ~AtNode(y, "generate")
  <2>1. next # <<>> => 1 \in 1..(left - 1)
    BY <1>2, <1>3, <1>4
  <2>2. next # <<>> => next[1] = At("retrieve", Item(2))
    BY <1>5, <2>1
  <2>3. QED
    BY <2>2 DEF AtNode, At, next
<1>10. QED
  BY <1>3, <1>6, <1>8, <1>9 DEF AtNode, At

\* What IdsLeft says, with what is in the plan spelled out.
LEMMA IdsCounts ==
    ASSUME NEW m \in Nat, NEW n \in Nat, NEW k \in Nat
    PROVE  /\ m + 0 + (n - 0) = k <=> k = m + n
           /\ m + 1 + (n - 1) = k <=> k = m + n
           /\ m + 1 + (n - 2) = k <=> k = m + n - 1
           /\ 0 <= n /\ \A i \in 1..n : i > 0
OBVIOUS

LEMMA IdsFacts ==
    ASSUME NEW x, IsSeq(x.plan), Len(x.made) \in Nat, Len(x.call.items) \in Nat
    PROVE  /\ Len(x.plan) \in Nat
           /\ IdsLeft(x, 0) <=> /\ Len(x.call.items) = Len(x.made) + Len(x.plan)
                                /\ \A i \in 1..Len(x.plan) : x.plan[i].node = "fetch"
           /\ IdsLeft(x, 1) <=> /\ 1 <= Len(x.plan)
                                /\ Len(x.call.items) = Len(x.made) + Len(x.plan)
                                /\ x.plan[1].node = "generate"
                                /\ \A i \in 1..Len(x.plan) : i > 1 => x.plan[i].node = "fetch"
           /\ IdsLeft(x, 2) <=> /\ 2 <= Len(x.plan)
                                /\ Len(x.call.items) = Len(x.made) + Len(x.plan) - 1
                                /\ x.plan[1].node = "retrieve" /\ x.plan[2].node = "generate"
                                /\ x.plan[1].item = x.plan[2].item
                                /\ \A i \in 1..Len(x.plan) : i > 2 => x.plan[i].node = "fetch"
<1> DEFINE n == Len(x.plan)
           m == Len(x.made)
           k == Len(x.call.items)
<1>1. n \in Nat /\ DOMAIN x.plan = 1..n
  BY SeqFacts
<1>2. m \in Nat /\ k \in Nat
  OBVIOUS
<1>3. /\ IdsLeft(x, 0) <=> /\ 0 <= n
                           /\ m + (IF 0 = 0 THEN 0 ELSE 1) + (n - 0) = k
                           /\ \A i \in DOMAIN x.plan : i > 0 => x.plan[i].node = "fetch"
                           /\ 0 = 1 => x.plan[1].node = "generate"
                           /\ 0 = 2 => /\ x.plan[1].node = "retrieve" /\ x.plan[2].node = "generate"
                                       /\ x.plan[1].item = x.plan[2].item
      /\ IdsLeft(x, 1) <=> /\ 1 <= n
                           /\ m + (IF 1 = 0 THEN 0 ELSE 1) + (n - 1) = k
                           /\ \A i \in DOMAIN x.plan : i > 1 => x.plan[i].node = "fetch"
                           /\ 1 = 1 => x.plan[1].node = "generate"
                           /\ 1 = 2 => /\ x.plan[1].node = "retrieve" /\ x.plan[2].node = "generate"
                                       /\ x.plan[1].item = x.plan[2].item
      /\ IdsLeft(x, 2) <=> /\ 2 <= n
                           /\ m + (IF 2 = 0 THEN 0 ELSE 1) + (n - 2) = k
                           /\ \A i \in DOMAIN x.plan : i > 2 => x.plan[i].node = "fetch"
                           /\ 2 = 1 => x.plan[1].node = "generate"
                           /\ 2 = 2 => /\ x.plan[1].node = "retrieve" /\ x.plan[2].node = "generate"
                                       /\ x.plan[1].item = x.plan[2].item
  BY DEF IdsLeft
<1> HIDE DEF n, m, k
<1>4. IdsLeft(x, 0) <=> k = m + n /\ \A i \in 1..n : x.plan[i].node = "fetch"
  <2>1. IdsLeft(x, 0) <=> /\ 0 <= n /\ m + 0 + (n - 0) = k
                          /\ \A i \in 1..n : i > 0 => x.plan[i].node = "fetch"
    BY <1>1, <1>3
  <2>2. QED
    BY <1>1, <1>2, <2>1, IdsCounts
<1>5. IdsLeft(x, 1) <=> /\ 1 <= n /\ k = m + n /\ x.plan[1].node = "generate"
                        /\ \A i \in 1..n : i > 1 => x.plan[i].node = "fetch"
  <2>1. IdsLeft(x, 1) <=> /\ 1 <= n /\ m + 1 + (n - 1) = k /\ x.plan[1].node = "generate"
                          /\ \A i \in 1..n : i > 1 => x.plan[i].node = "fetch"
    BY <1>1, <1>3
  <2>2. QED
    BY <1>1, <1>2, <2>1, IdsCounts
<1>6. IdsLeft(x, 2) <=> /\ 2 <= n /\ k = m + n - 1
                        /\ x.plan[1].node = "retrieve" /\ x.plan[2].node = "generate"
                        /\ x.plan[1].item = x.plan[2].item
                        /\ \A i \in 1..n : i > 2 => x.plan[i].node = "fetch"
  <2>1. IdsLeft(x, 2) <=> /\ 2 <= n /\ m + 1 + (n - 2) = k
                          /\ x.plan[1].node = "retrieve" /\ x.plan[2].node = "generate"
                          /\ x.plan[1].item = x.plan[2].item
                          /\ \A i \in 1..n : i > 2 => x.plan[i].node = "fetch"
    BY <1>1, <1>3
  <2>2. QED
    BY <1>1, <1>2, <2>1, IdsCounts
<1>7. QED
  BY <1>1, <1>4, <1>5, <1>6 DEF n, m, k

\* A finding has been fetched: it is retrieved for, and then completed.
LEMMA IdsFetched ==
    ASSUME NEW x, NEW y, NEW f, IsSeq(x.plan), Len(x.made) \in Nat, Len(x.call.items) \in Nat,
           IdsLeft(x, 0), x.plan # <<>>, y.plan = EnrichmentGraph(f) \o Tail(x.plan),
           y.made = x.made, y.call = x.call
    PROVE  IdsLeft(y, 2) /\ IsSeq(y.plan) /\ AtNode(x, "fetch") /\ AtNode(y, "retrieve")
<1> DEFINE rest == Tail(x.plan)
           first == At("retrieve", f)
           second == At("generate", f)
           front == <<first, second>>
           whole == front \o rest
           n == Len(x.plan)
           m == Len(x.made)
           k == Len(x.call.items)
<1>1. /\ IsSeq(rest) /\ n \in Nat /\ n > 0 /\ Len(rest) = n - 1
      /\ \A i \in 1..(n - 1) : rest[i] = x.plan[i + 1]
  BY MovedOn
<1>2. /\ IsSeq(front) /\ Len(front) = 2 /\ DOMAIN front = 1..2
      /\ front[1] = first /\ front[2] = second
  BY TupleFacts
<1>3. y.plan = whole
  BY DEF EnrichmentGraph
<1>4. /\ first.node = "retrieve" /\ second.node = "generate" /\ first.item = second.item
  BY DEF At
<1>5. m \in Nat /\ k \in Nat /\ k = m + n /\ \A i \in 1..n : x.plan[i].node = "fetch"
  BY IdsFacts
<1> HIDE DEF rest, first, second, front, n, m, k
<1>6. /\ IsSeq(whole) /\ Len(whole) = Len(front) + Len(rest)
      /\ \A i \in DOMAIN front : i \in DOMAIN whole /\ whole[i] = front[i]
      /\ \A i \in DOMAIN whole : i \notin DOMAIN front =>
            i - Len(front) \in DOMAIN rest /\ whole[i] = rest[i - Len(front)]
  BY <1>1, <1>2, ConcatFacts
<1> HIDE DEF whole
<1>7. /\ Len(whole) = n + 1 /\ DOMAIN whole = 1..(n + 1) /\ whole # <<>>
      /\ DOMAIN rest = 1..(n - 1)
  BY <1>1, <1>2, <1>6, SeqFacts
<1>8. whole[1] = first /\ whole[2] = second
  BY <1>2, <1>6
<1>9. \A i \in 1..(n + 1) : i > 2 => whole[i].node = "fetch"
  <2> SUFFICES ASSUME NEW i \in 1..(n + 1), i > 2
               PROVE  whole[i].node = "fetch"
    OBVIOUS
  <2>1. i - 2 \in 1..(n - 1) /\ i - 2 + 1 \in 1..n
    BY <1>1
  <2>2. whole[i] = rest[i - 2]
    BY <1>2, <1>6, <1>7
  <2>3. QED
    BY <1>1, <1>5, <2>1, <2>2
<1>10. IdsLeft(y, 2)
  <2>1. Len(y.plan) = n + 1 /\ Len(y.made) = m /\ Len(y.call.items) = k
    BY <1>3, <1>7 DEF m, k
  <2>2. 2 <= n + 1 /\ k = m + (n + 1) - 1
    BY <1>1, <1>5
  <2>3. \A i \in 1..(n + 1) : i > 2 => y.plan[i].node = "fetch"
    BY <1>3, <1>9
  <2>4. /\ y.plan[1].node = "retrieve" /\ y.plan[2].node = "generate"
        /\ y.plan[1].item = y.plan[2].item
    BY <1>3, <1>4, <1>8
  <2>5. IsSeq(y.plan)
    BY <1>3, <1>6
  <2>6. QED
    BY <1>5, <2>1, <2>2, <2>3, <2>4, <2>5, IdsFacts
<1>11. x.plan[1].node = "fetch"
  BY <1>1, <1>5
<1>12. QED
  BY <1>3, <1>4, <1>6, <1>7, <1>8, <1>10, <1>11 DEF AtNode

\* Of an id, the retrieval is done.
LEMMA IdsRetrieved ==
    ASSUME NEW x, NEW y, IsSeq(x.plan), Len(x.made) \in Nat, Len(x.call.items) \in Nat,
           IdsLeft(x, 2), y.plan = Tail(x.plan), y.made = x.made, y.call = x.call
    PROVE  /\ IdsLeft(y, 1) /\ AtNode(x, "retrieve") /\ AtNode(y, "generate")
           /\ y.plan[1].item = x.plan[1].item
<1> DEFINE n == Len(x.plan)
           m == Len(x.made)
           k == Len(x.call.items)
           next == y.plan
<1>1. /\ n \in Nat /\ 2 <= n /\ k = m + n - 1
      /\ \A i \in 1..n : i > 2 => x.plan[i].node = "fetch"
      /\ x.plan[1].node = "retrieve" /\ x.plan[2].node = "generate"
      /\ x.plan[1].item = x.plan[2].item
  BY IdsFacts
<1>2. x.plan # <<>>
  BY <1>1, SeqFacts
<1>3. /\ IsSeq(next) /\ Len(next) = n - 1 /\ \A i \in 1..(n - 1) : next[i] = x.plan[i + 1]
      /\ next # <<>> <=> n > 1
  BY <1>2, MovedOn
<1>4. m \in Nat /\ k \in Nat
  OBVIOUS
<1>5. Len(y.made) = m /\ Len(y.call.items) = k
  OBVIOUS
<1> HIDE DEF n, m, k
<1>6. next[1] = x.plan[2] /\ next # <<>>
  BY <1>1, <1>3
<1>7. \A i \in 1..(n - 1) : i > 1 => next[i].node = "fetch"
  <2> SUFFICES ASSUME NEW i \in 1..(n - 1), i > 1
               PROVE  next[i].node = "fetch"
    OBVIOUS
  <2>1. i + 1 \in 1..n /\ i + 1 > 2
    BY <1>1
  <2>2. QED
    BY <1>1, <1>3, <2>1
<1>8. IdsLeft(y, 1)
  <2>1. n - 1 \in Nat /\ 1 <= n - 1 /\ k = m + (n - 1)
    BY <1>1, <1>4
  <2>2. QED
    BY <1>1, <1>3, <1>4, <1>5, <1>6, <1>7, <2>1, IdsFacts
<1>9. QED
  BY <1>1, <1>2, <1>6, <1>8 DEF AtNode

\* Of an id, the completion is done, or skipped.
LEMMA IdsAnswered ==
    ASSUME NEW x, NEW y, IsSeq(x.plan), Len(x.made) \in Nat, Len(x.call.items) \in Nat,
           IdsLeft(x, 1), y.plan = Tail(x.plan), Len(y.made) = Len(x.made) + 1,
           y.call = x.call
    PROVE  IdsLeft(y, 0) /\ AtNode(x, "generate") /\ ~AtNode(y, "generate")
<1> DEFINE n == Len(x.plan)
           m == Len(x.made)
           k == Len(x.call.items)
           next == y.plan
<1>1. /\ n \in Nat /\ 1 <= n /\ k = m + n
      /\ \A i \in 1..n : i > 1 => x.plan[i].node = "fetch"
      /\ x.plan[1].node = "generate"
  BY IdsFacts
<1>2. x.plan # <<>>
  BY <1>1, SeqFacts
<1>3. /\ IsSeq(next) /\ Len(next) = n - 1 /\ \A i \in 1..(n - 1) : next[i] = x.plan[i + 1]
      /\ next # <<>> <=> n > 1
  BY <1>2, MovedOn
<1>4. m \in Nat /\ k \in Nat /\ Len(y.made) = m + 1 /\ Len(y.call.items) = k
  OBVIOUS
<1> HIDE DEF n, m, k
<1>5. \A i \in 1..(n - 1) : next[i].node = "fetch"
  <2> SUFFICES ASSUME NEW i \in 1..(n - 1)
               PROVE  next[i].node = "fetch"
    OBVIOUS
  <2>1. i + 1 \in 1..n /\ i + 1 > 1
    BY <1>1
  <2>2. QED
    BY <1>1, <1>3, <2>1
<1>6. IdsLeft(y, 0)
  <2>1. n - 1 \in Nat /\ k = m + 1 + (n - 1) /\ m + 1 \in Nat
    BY <1>1, <1>4
  <2>2. QED
    BY <1>3, <1>4, <1>5, <2>1, IdsFacts
<1>7. next # <<>> => next[1].node = "fetch"
  BY <1>1, <1>3, <1>5
<1>8. QED
  BY <1>1, <1>2, <1>6, <1>7 DEF AtNode, next

-----------------------------------------------------------------------------
\* What the answers rest on when the plan moves on.

LEMMA WhichPart ==
    ASSUME NEW x, Answering(x), IsSeq(x.call.items), x.plan # <<>>,
           x.call.route \in AnsweringRoutes
    PROVE  \/ AtNode(x, "retrieve") /\ (x.call.route \in PairRoutes => PairsLeft(x, 0))
                                    /\ (x.call.route = "enrich/by-ids" => IdsLeft(x, 2))
           \/ AtNode(x, "generate") /\ (x.call.route \in PairRoutes => PairsLeft(x, 1))
                                    /\ (x.call.route = "enrich/by-ids" => IdsLeft(x, 1))
           \/ AtNode(x, "fetch") /\ x.call.route = "enrich/by-ids" /\ IdsLeft(x, 0)
<1>1. IsSeq(x.plan) /\ IsSeq(x.made) /\ Len(x.made) \in Nat /\ Len(x.call.items) \in Nat
  BY SeqFacts DEF Answering
<1> DEFINE asked == [plan |-> Tail(x.plan), made |-> x.made, call |-> x.call]
           answer == [about |-> x.plan[1].item]
           answered == [plan |-> Tail(x.plan), made |-> Append(x.made, answer), call |-> x.call]
<1>2. /\ asked.plan = Tail(x.plan) /\ asked.made = x.made /\ asked.call = x.call
      /\ answered.plan = Tail(x.plan) /\ answered.made = Append(x.made, answer)
      /\ answered.call = x.call /\ answer.about = x.plan[1].item
  OBVIOUS
<1> HIDE DEF asked, answer, answered
<1>3. CASE x.call.route \in PairRoutes
  <2>1. "enrich/by-ids" \notin PairRoutes
    BY DEF PairRoutes
  <2>2. PairsLeft(x, 0) \/ PairsLeft(x, 1)
    BY <1>3 DEF Answering
  <2>3. PairsLeft(x, 0) => AtNode(x, "retrieve")
    BY <1>1, <1>2, PairsRetrieved
  <2>4. PairsLeft(x, 1) => AtNode(x, "generate")
    BY <1>1, <1>2, PairsAnswered
  <2>5. QED
    BY <1>3, <2>1, <2>2, <2>3, <2>4
<1>4. CASE x.call.route = "enrich/by-ids"
  <2>1. "enrich/by-ids" \notin PairRoutes
    BY DEF PairRoutes
  <2>2. IdsLeft(x, 0) \/ IdsLeft(x, 1) \/ IdsLeft(x, 2)
    <3>1. PICK p \in 0..2 : IdsLeft(x, p)
      BY <1>4 DEF Answering
    <3>2. p = 0 \/ p = 1 \/ p = 2
      OBVIOUS
    <3>3. QED
      BY <3>1, <3>2
  <2>3. Len(x.plan) \in Nat /\ Len(x.plan) > 0
    BY <1>1, SeqFacts
  <2>4. IdsLeft(x, 0) => AtNode(x, "fetch")
    <3>1. 1 \in 1..Len(x.plan)
      BY <2>3
    <3>2. QED
      BY <1>1, <3>1, IdsFacts DEF AtNode
  <2>5. IdsLeft(x, 1) => AtNode(x, "generate")
    BY <1>1, IdsFacts DEF AtNode
  <2>6. IdsLeft(x, 2) => AtNode(x, "retrieve")
    BY <1>1, IdsFacts DEF AtNode
  <2>7. QED
    BY <1>4, <2>1, <2>2, <2>4, <2>5, <2>6
<1>5. QED
  BY <1>3, <1>4 DEF AnsweringRoutes, CitingRoutes, PairRoutes

\* What has been answered keeps its sources.
LEMMA RestsKept ==
    ASSUME NEW x, NEW y, Answering(x), x.call.route \in CitingRoutes, y.tenant = x.tenant,
           \A j \in 1..Len(x.made) : y.made[j] = x.made[j],
           \A k \in 1..(NextAt(x) - 1) : y.spent[k] = x.spent[k]
    PROVE  \A i \in 1..Len(x.made) : RestsOnSources(y, i)
<1>1. Len(x.made) \in Nat /\ \A i \in 1..Len(x.made) : RestsOnSources(x, i)
  BY SeqFacts DEF Answering
<1>2. QED
  BY <1>1, RestsStill DEF NextAt

LEMMA RetrievedAnswering ==
    ASSUME NEW x, NEW y, Answering(x), IsSeq(x.call.items), AtNode(x, "retrieve"),
           x.call.route \in AnsweringRoutes,
           y.plan = Tail(x.plan), y.made = x.made, y.call = x.call, y.tenant = x.tenant,
           x.call.route \in CitingRoutes => \A k \in 1..(NextAt(x) - 1) : y.spent[k] = x.spent[k]
    PROVE  Answering(y) /\ AtNode(y, "generate") /\ y.plan[1].item = x.plan[1].item
<1>1. /\ IsSeq(x.plan) /\ IsSeq(x.made) /\ Len(x.made) \in Nat /\ Len(x.call.items) \in Nat
      /\ x.plan # <<>>
  BY SeqFacts DEF Answering, AtNode
<1>2. /\ x.call.route \in PairRoutes => PairsLeft(x, 0)
      /\ x.call.route = "enrich/by-ids" => IdsLeft(x, 2)
  <2>1. ~AtNode(x, "generate") /\ ~AtNode(x, "fetch")
    BY DEF AtNode
  <2>2. QED
    BY <1>1, <2>1, WhichPart
<1>3. IsSeq(y.plan)
  BY <1>1, TailFacts
<1>4. /\ x.call.route \in PairRoutes => /\ PairsLeft(y, 1) /\ AtNode(y, "generate")
                                        /\ y.plan[1].item = x.plan[1].item
      /\ x.call.route = "enrich/by-ids" => /\ IdsLeft(y, 1) /\ AtNode(y, "generate")
                                           /\ y.plan[1].item = x.plan[1].item
  BY <1>1, <1>2, PairsRetrieved, IdsRetrieved
<1>5. x.call.route \in CitingRoutes => \A i \in 1..Len(x.made) : RestsOnSources(y, i)
  BY RestsKept
<1>6. x.call.route \in PairRoutes \cup {"enrich/by-ids"}
  BY DEF AnsweringRoutes, CitingRoutes, PairRoutes
<1>7. Answering(y)
  BY <1>1, <1>3, <1>4, <1>5 DEF Answering
<1>8. QED
  BY <1>4, <1>6, <1>7

LEMMA AnsweredAnswering ==
    ASSUME NEW x, NEW y, NEW answer, Answering(x), IsSeq(x.call.items), AtNode(x, "generate"),
           x.call.route \in AnsweringRoutes,
           y.plan = Tail(x.plan), y.made = Append(x.made, answer), y.call = x.call,
           y.tenant = x.tenant, answer.about = x.plan[1].item,
           x.call.route \in CitingRoutes => \A k \in 1..(NextAt(x) - 1) : y.spent[k] = x.spent[k],
           x.call.route = "remediate" => ~ForbiddenIn(answer.text) /\ ~answer.approved,
           x.call.route \in CitingRoutes => RestsOnSources(y, Len(x.made) + 1)
    PROVE  Answering(y) /\ ~AtNode(y, "generate")
<1> DEFINE m == Len(x.made)
<1>1. /\ IsSeq(x.plan) /\ IsSeq(x.made) /\ Len(x.call.items) \in Nat /\ x.plan # <<>>
  BY SeqFacts DEF Answering, AtNode
<1>2. /\ IsSeq(y.made) /\ m \in Nat /\ Len(y.made) = m + 1 /\ y.made[m + 1] = answer
      /\ \A i \in 1..m : y.made[i] = x.made[i]
  BY <1>1, Appended
<1>3. /\ x.call.route \in PairRoutes => PairsLeft(x, 1)
      /\ x.call.route = "enrich/by-ids" => IdsLeft(x, 1)
  <2>1. ~AtNode(x, "retrieve") /\ ~AtNode(x, "fetch")
    BY DEF AtNode
  <2>2. QED
    BY <1>1, <2>1, WhichPart
<1>4. IsSeq(y.plan)
  BY <1>1, TailFacts
<1>5. /\ x.call.route \in PairRoutes => PairsLeft(y, 0) /\ ~AtNode(y, "generate")
      /\ x.call.route = "enrich/by-ids" => IdsLeft(y, 0) /\ ~AtNode(y, "generate")
  BY <1>1, <1>2, <1>3, PairsAnswered, IdsAnswered
<1>6. x.call.route \in CitingRoutes => \A i \in 1..m : RestsOnSources(y, i)
  BY <1>2, RestsKept
<1>7. x.call.route \in PairRoutes \cup {"enrich/by-ids"}
  BY DEF AnsweringRoutes, CitingRoutes, PairRoutes
<1>8. x.call.route = "remediate" => \A i \in 1..m : ~ForbiddenIn(y.made[i].text) /\ ~y.made[i].approved
  BY <1>2 DEF Answering
<1>9. \A i \in 1..Len(y.made) : i \in 1..m \/ i = m + 1
  BY <1>2
<1> HIDE DEF m
<1>10. Answering(y)
  <2>1. y.tenant # Nobody /\ (x.call.route = "remediate" => Len(y.call.items) = 1)
    BY DEF Answering
  <2>2. x.call.route \in CitingRoutes => \A i \in 1..Len(y.made) : RestsOnSources(y, i)
    BY <1>6, <1>9 DEF m
  <2>3. x.call.route = "remediate" =>
           \A i \in 1..Len(y.made) : ~ForbiddenIn(y.made[i].text) /\ ~y.made[i].approved
    BY <1>2, <1>8, <1>9
  <2>4. QED
    BY <1>2, <1>4, <1>5, <2>1, <2>2, <2>3 DEF Answering
<1>11. QED
  BY <1>5, <1>7, <1>10

\* The answer that is made from what stands at the next retrieval.
LEMMA NewestRests ==
    ASSUME NEW x, NEW y, NEW answer, IsSeq(x.made), y.made = Append(x.made, answer),
           y.spent[NextAt(x)].payer = Platform, y.spent[NextAt(x)].item = answer.about,
           y.spent[NextAt(x)].found = answer.citations,
           answer.verified <=> answer.citations # {},
           answer.verified => /\ y.spent[NextAt(x) + 1].payer = y.tenant
                              /\ y.spent[NextAt(x) + 1].item = answer.about,
           ~answer.verified => answer.text = "abstention"
    PROVE  /\ RestsOnSources(y, Len(x.made) + 1)
           /\ NextAt(x) \in Nat \ {0}
           /\ answer.verified => NextAt(y) = NextAt(x) + 2
           /\ ~answer.verified => NextAt(y) = NextAt(x) + 1
<1> DEFINE m == Len(x.made)
<1>1. /\ m \in Nat /\ Len(y.made) = m + 1 /\ y.made[m + 1] = answer
      /\ \A i \in 1..m : y.made[i] = x.made[i]
  BY Appended
<1> HIDE DEF m
<1>2. m + 1 \in Nat \ {0} /\ m + 1 - 1 = m
  BY <1>1
<1>3. RetrievalOf(y.made, m + 1) = NextAt(x)
  <2> DEFINE k == m + 1
  <2>1. k \in Nat \ {0} /\ \A j \in 1..(k - 1) : y.made[j] = x.made[j]
    BY <1>1, <1>2
  <2> HIDE DEF k
  <2>2. RetrievalOf(y.made, k) = RetrievalOf(x.made, k)
    BY <2>1, RetrievalsAlike
  <2>3. QED
    BY <2>2 DEF NextAt, m, k
<1>4. /\ RetrievalOf(y.made, m + 1) \in Nat \ {0}
      /\ answer.verified => RetrievalOf(y.made, m + 1 + 1) = RetrievalOf(y.made, m + 1) + 2
      /\ ~answer.verified => RetrievalOf(y.made, m + 1 + 1) = RetrievalOf(y.made, m + 1) + 1
  BY <1>1, <1>2, RetrievalFacts
<1>5. NextAt(y) = RetrievalOf(y.made, m + 1 + 1)
  BY <1>1 DEF NextAt
<1>6. RestsOnSources(y, m + 1)
  BY <1>1, <1>3 DEF RestsOnSources
<1>7. QED
  BY <1>3, <1>4, <1>5, <1>6 DEF m

LEMMA NextIsNat ==
    ASSUME NEW x, IsSeq(x.made)
    PROVE  NextAt(x) \in Nat \ {0} /\ (x.made = <<>> => NextAt(x) = 1)
<1>1. Len(x.made) + 1 \in Nat \ {0} /\ (x.made = <<>> => Len(x.made) + 1 = 1)
  BY SeqFacts
<1>2. QED
  BY <1>1, RetrievalFacts DEF NextAt

-----------------------------------------------------------------------------
\* What the handlers have to see to: a request whose next node is about to
\* begin is Settled.

\* Something has been retrieved, and is kept for the completion.
LEMMA RetrievedSettled ==
    ASSUME NEW x, NEW y, InHand(x), IsSeq(x.call.items), AtNode(x, "retrieve"),
           y.plan = Tail(x.plan), y.made = x.made, y.call = x.call, y.tenant = x.tenant,
           CameBack(x, y, y.context),
           x.call.route \in CitingRoutes => y.context # {}
    PROVE  Settled(y)
<1> SUFFICES ASSUME x.call.route \in AnsweringRoutes
             PROVE  Settled(y)
  BY DEF Settled
<1>1. Answering(x) /\ IsSeq(x.made)
  BY DEF InHand, Answering
<1> DEFINE at == NextAt(x)
<1>2. at \in Nat \ {0} /\ NextAt(y) = at
  BY <1>1, NextIsNat DEF NextAt
<1>3. x.call.route \in CitingRoutes => Len(x.spent) = at /\ Asked(x)
  BY DEF InHand
<1> HIDE DEF at
<1>4. x.call.route \in CitingRoutes => \A k \in 1..(at - 1) : y.spent[k] = x.spent[k]
  BY <1>2, <1>3 DEF CameBack
<1>5. Answering(y) /\ AtNode(y, "generate") /\ y.plan[1].item = x.plan[1].item
  BY <1>1, <1>4, RetrievedAnswering DEF at
<1>6. x.call.route \in CitingRoutes => Len(y.spent) = at /\ Sourced(y)
  <2> SUFFICES ASSUME x.call.route \in CitingRoutes
               PROVE  Len(y.spent) = at /\ Sourced(y)
    OBVIOUS
  <2>1. at \in 1..Len(x.spent) /\ Len(x.spent) = at
    BY <1>2, <1>3
  <2>2. /\ y.spent[at].payer = Platform /\ y.spent[at].item = x.plan[1].item
        /\ y.spent[at].found = y.context
    BY <1>3, <2>1 DEF CameBack, Asked, at
  <2>3. QED
    BY <1>2, <1>5, <2>1, <2>2 DEF CameBack, Sourced, Asked
<1>7. QED
  BY <1>2, <1>5, <1>6 DEF Settled

\* Nothing has been retrieved: the graph abstains, and the completion is skipped.
LEMMA AbstainedSettled ==
    ASSUME NEW x, NEW y, NEW answer, InHand(x), IsSeq(x.call.items), AtNode(x, "retrieve"),
           x.call.route \in CitingRoutes,
           y.plan = Tail(Tail(x.plan)), y.made = Append(x.made, answer),
           y.call = x.call, y.tenant = x.tenant, CameBack(x, y, {}),
           answer.about = x.plan[1].item, answer.citations = {}, ~answer.verified,
           answer.text = "abstention"
    PROVE  Settled(y)
<1>1. Answering(x) /\ IsSeq(x.made) /\ x.call.route \in AnsweringRoutes
  BY DEF InHand, Answering, AnsweringRoutes
<1> DEFINE at == NextAt(x)
           z == [plan |-> Tail(x.plan), made |-> x.made, call |-> x.call, tenant |-> x.tenant,
                 spent |-> y.spent]
<1>2. at \in Nat \ {0}
  BY <1>1, NextIsNat
<1>3. Len(x.spent) = at /\ Asked(x)
  BY <1>1 DEF InHand
<1>4. /\ z.plan = Tail(x.plan) /\ z.made = x.made /\ z.call = x.call /\ z.tenant = x.tenant
      /\ z.spent = y.spent /\ NextAt(z) = at
  BY DEF NextAt
<1> HIDE DEF at, z
<1>5. /\ \A k \in 1..(at - 1) : y.spent[k] = x.spent[k]
      /\ y.spent[at].payer = Platform /\ y.spent[at].item = answer.about
      /\ y.spent[at].found = answer.citations
  <2>1. at \in 1..Len(x.spent)
    BY <1>2, <1>3
  <2>2. \A k \in 1..(at - 1) : k \in 1..Len(x.spent) /\ k # Len(x.spent)
    BY <1>2, <1>3
  <2>3. x.spent[at].payer = Platform /\ x.spent[at].item = x.plan[1].item
    BY <1>3 DEF Asked, at
  <2>4. QED
    BY <1>3, <2>1, <2>2, <2>3 DEF CameBack
<1>6. Answering(z) /\ AtNode(z, "generate") /\ z.plan[1].item = x.plan[1].item
  <2>1. \A k \in 1..(NextAt(x) - 1) : z.spent[k] = x.spent[k]
    BY <1>4, <1>5 DEF at
  <2>2. QED
    BY <1>1, <1>4, <2>1, RetrievedAnswering
<1>7. RestsOnSources(y, Len(z.made) + 1) /\ NextAt(y) = at + 1
  <2>1. RestsOnSources(y, Len(x.made) + 1) /\ NextAt(y) = NextAt(x) + 1
    BY <1>1, <1>5, NewestRests DEF at
  <2>2. QED
    BY <1>4, <2>1 DEF at
<1>8. Answering(y) /\ ~AtNode(y, "generate")
  <2>1. \A k \in 1..(NextAt(z) - 1) : y.spent[k] = z.spent[k]
    BY <1>4
  <2>2. y.plan = Tail(z.plan) /\ y.made = Append(z.made, answer) /\ answer.about = z.plan[1].item
    BY <1>4, <1>6
  <2>3. z.call.route # "remediate" /\ z.call.route \in AnsweringRoutes /\ IsSeq(z.call.items)
        /\ y.call = z.call /\ y.tenant = z.tenant
    BY <1>1, <1>4 DEF CitingRoutes
  <2>4. QED
    BY <1>6, <1>7, <2>1, <2>2, <2>3, AnsweredAnswering
<1>9. Len(y.spent) = NextAt(y) - 1
  BY <1>2, <1>3, <1>7 DEF CameBack
<1>10. QED
  BY <1>8, <1>9 DEF Settled

\* A completion has ended, and what it says is an answer.
LEMMA CompletedSettled ==
    ASSUME NEW x, NEW y, NEW answer, InHand(x), IsSeq(x.call.items), AtNode(x, "generate"),
           y.plan = Tail(x.plan), y.made = Append(x.made, answer), y.call = x.call,
           y.tenant = x.tenant, y.spent = x.spent, WellMade(x, answer)
    PROVE  Settled(y)
<1> SUFFICES ASSUME x.call.route \in AnsweringRoutes
             PROVE  Settled(y)
  BY DEF Settled
<1>1. Answering(x) /\ IsSeq(x.made)
  BY DEF InHand, Answering
<1> USE DEF WellMade
<1> DEFINE at == NextAt(x)
<1>2. x.call.route \in CitingRoutes =>
         /\ Len(x.spent) = at + 1 /\ Sourced(x) /\ answer.verified
         /\ x.spent[at + 1].payer = x.tenant /\ x.spent[at + 1].item = x.plan[1].item
  BY DEF InHand, Sourced
<1>3. x.call.route \in CitingRoutes =>
         /\ RestsOnSources(y, Len(x.made) + 1) /\ at \in Nat \ {0} /\ NextAt(y) = at + 2
  <2> SUFFICES ASSUME x.call.route \in CitingRoutes
               PROVE  /\ RestsOnSources(y, Len(x.made) + 1) /\ NextAt(x) \in Nat \ {0}
                      /\ NextAt(y) = NextAt(x) + 2
    OBVIOUS
  <2>1. /\ y.spent[NextAt(x)].payer = Platform /\ y.spent[NextAt(x)].item = answer.about
        /\ y.spent[NextAt(x)].found = answer.citations
        /\ y.spent[NextAt(x) + 1].payer = y.tenant /\ y.spent[NextAt(x) + 1].item = answer.about
    BY <1>2 DEF Sourced, Asked
  <2>2. answer.verified <=> answer.citations # {}
    OBVIOUS
  <2>3. QED
    BY <1>1, <1>2, <2>1, <2>2, NewestRests
<1>4. Answering(y) /\ ~AtNode(y, "generate")
  BY <1>1, <1>3, AnsweredAnswering
<1> HIDE DEF at
<1>5. x.call.route \in CitingRoutes => Len(y.spent) = NextAt(y) - 1
  BY <1>2, <1>3
<1>6. QED
  BY <1>4, <1>5 DEF Settled

\* A finding has been fetched by its id.
LEMMA FetchedSettled ==
    ASSUME NEW x, NEW y, NEW f, InHand(x), IsSeq(x.call.items), x.call.route = "enrich/by-ids",
           AtNode(x, "fetch"), y.plan = EnrichmentGraph(f) \o Tail(x.plan),
           y.made = x.made, y.call = x.call, y.tenant = x.tenant, y.spent = x.spent
    PROVE  Settled(y)
<1>1. "enrich/by-ids" \in CitingRoutes \cap AnsweringRoutes /\ "enrich/by-ids" \notin PairRoutes
  BY DEF CitingRoutes, AnsweringRoutes, PairRoutes
<1>2. Answering(x) /\ Len(x.spent) = NextAt(x) - 1
  BY <1>1 DEF InHand
<1>3. /\ IsSeq(x.plan) /\ IsSeq(x.made) /\ Len(x.made) \in Nat /\ Len(x.call.items) \in Nat
      /\ x.plan # <<>>
  BY <1>2, SeqFacts DEF Answering, AtNode
<1>4. IdsLeft(x, 0)
  <2>1. ~AtNode(x, "retrieve") /\ ~AtNode(x, "generate")
    BY DEF AtNode
  <2>2. QED
    BY <1>1, <1>2, <1>3, <2>1, WhichPart
<1>5. IdsLeft(y, 2) /\ IsSeq(y.plan) /\ AtNode(y, "retrieve")
  BY <1>3, <1>4, IdsFetched
<1>6. \A i \in 1..Len(x.made) : RestsOnSources(y, i)
  BY <1>1, <1>2, RestsKept
<1>7. Answering(y)
  BY <1>1, <1>2, <1>3, <1>5, <1>6 DEF Answering
<1>8. ~AtNode(y, "generate") /\ NextAt(y) = NextAt(x)
  BY <1>5 DEF AtNode, NextAt
<1>9. QED
  BY <1>2, <1>7, <1>8 DEF Settled

\* The plan a handler starts with.
LEMMA FreshPairs ==
    ASSUME NEW x, x.made = <<>>, Len(x.call.items) \in Nat,
           Len(x.plan) = 2 * Len(x.call.items),
           \A j \in 1..Len(x.call.items) :
              /\ x.plan[2 * j] = At("generate", x.call.items[j])
              /\ x.plan[2 * j - 1] = At("retrieve", x.call.items[j])
    PROVE  PairsLeft(x, 0)
<1> DEFINE n == Len(x.call.items)
<1>1. Len(x.made) = 0
  OBVIOUS
<1>2. Len(x.plan) = 2 * (n - 0) - 0
  OBVIOUS
<1>3. \A j \in 1..(n - 0) :
         /\ x.plan[2 * j - 0] = At("generate", x.call.items[0 + j])
         /\ 2 * j - 0 > 1 => x.plan[2 * j - 0 - 1] = At("retrieve", x.call.items[0 + j])
  <2> SUFFICES ASSUME NEW j \in 1..n
               PROVE  /\ x.plan[2 * j - 0] = At("generate", x.call.items[0 + j])
                      /\ x.plan[2 * j - 0 - 1] = At("retrieve", x.call.items[0 + j])
    OBVIOUS
  <2>1. 2 * j - 0 = 2 * j /\ 0 + j = j
    OBVIOUS
  <2>2. QED
    BY <2>1
<1>4. QED
  BY <1>1, <1>2, <1>3 DEF PairsLeft

LEMMA Halves ==
    ASSUME NEW j \in Nat \ {0}
    PROVE  /\ (2 * j) % 2 = 0 /\ (2 * j + 1) \div 2 = j
           /\ (2 * j - 1) % 2 = 1 /\ (2 * j - 1 + 1) \div 2 = j
OBVIOUS

LEMMA PlanIsPairs ==
    ASSUME NEW call, call.route \in PairRoutes, IsSeq(call.items), BodyValid(call),
           NEW x, x.call = call, x.plan = PlanFor(call), x.made = <<>>
    PROVE  IsSeq(x.plan) /\ PairsLeft(x, 0)
<1> DEFINE n == Len(call.items)
           plan == x.plan
<1>1. n \in Nat
  BY SeqFacts
<1>2. CASE call.route = "enrich"
  <2> DEFINE step(k) == EnrichmentGraph(call.items[(k + 1) \div 2])[IF k % 2 = 1 THEN 1 ELSE 2]
             m == 2 * n
  <2>1. plan = [k \in 1..m |-> step(k)]
    BY <1>2 DEF PlanFor, EnrichmentGraphs
  <2>2. m \in Nat
    BY <1>1
  <2>3. IsSeq(plan) /\ Len(plan) = m
    <3> HIDE DEF step, plan, m
    <3>1. plan \in [1..m -> {step(k) : k \in 1..m}]
      BY <2>1
    <3>2. \A S : plan \in [1..m -> S] => IsSeq(plan) /\ Len(plan) = m
      BY <2>2, ListIsSeq
    <3>3. QED
      BY <3>1, <3>2
  <2>4. ASSUME NEW j \in 1..n
        PROVE  /\ plan[2 * j] = At("generate", call.items[j])
               /\ plan[2 * j - 1] = At("retrieve", call.items[j])
    <3>1. j \in Nat \ {0} /\ 2 * j \in 1..m /\ 2 * j - 1 \in 1..m
      BY <1>1
    <3>2. plan[2 * j] = step(2 * j) /\ plan[2 * j - 1] = step(2 * j - 1)
      <4> HIDE DEF step, plan, m
      <4>1. QED
        BY <2>1, <3>1
    <3>3. /\ step(2 * j) = EnrichmentGraph(call.items[j])[2]
          /\ step(2 * j - 1) = EnrichmentGraph(call.items[j])[1]
      BY <3>1, Halves
    <3> HIDE DEF step, plan
    <3>4. QED
      BY <3>2, <3>3 DEF EnrichmentGraph
  <2> HIDE DEF plan
  <2>5. QED
    BY <1>1, <2>3, <2>4, FreshPairs DEF plan
<1>3. CASE call.route # "enrich"
  <2>1. call.route \in {"ask", "remediate", "map"} /\ n = 1
    BY <1>3 DEF PairRoutes, BodyValid
  <2> DEFINE first == At("retrieve", call.items[1])
             second == At("generate", call.items[1])
  <2>2. plan = <<first, second>>
    BY <2>1 DEF PlanFor, CopilotGraph, RemediationGraph, MappingGraph
  <2> HIDE DEF first, second
  <2>3. IsSeq(plan) /\ Len(plan) = 2 * n /\ plan[1] = first /\ plan[2] = second
    BY <2>1, <2>2, TupleFacts
  <2>4. ASSUME NEW j \in 1..n
        PROVE  /\ plan[2 * j] = At("generate", call.items[j])
               /\ plan[2 * j - 1] = At("retrieve", call.items[j])
    <3>1. j = 1 /\ 2 * j = 2 /\ 2 * j - 1 = 1
      BY <2>1
    <3>2. QED
      BY <2>3, <3>1 DEF first, second
  <2> HIDE DEF plan
  <2>5. QED
    BY <1>1, <2>3, <2>4, FreshPairs DEF plan
<1>4. QED
  BY <1>2, <1>3

LEMMA PlanIsIds ==
    ASSUME NEW call, call.route = "enrich/by-ids", IsSeq(call.items),
           NEW x, x.call = call, x.plan = PlanFor(call), x.made = <<>>
    PROVE  IsSeq(x.plan) /\ IdsLeft(x, 0)
<1> DEFINE n == Len(call.items)
<1>1. n \in Nat /\ DOMAIN call.items = 1..n
  BY SeqFacts
<1>2. x.plan = [i \in 1..n |-> At("fetch", call.items[i])]
  BY <1>1 DEF PlanFor
<1>3. x.plan \in Seq({At("fetch", call.items[i]) : i \in 1..n}) /\ Len(x.plan) = n
  BY <1>1, <1>2
<1>4. \A i \in 1..n : x.plan[i].node = "fetch"
  BY <1>2 DEF At
<1>5. IsSeq(x.plan)
  BY <1>3 DEF IsSeq
<1>6. Len(x.made) = 0 /\ n = 0 + n
  BY <1>1
<1> HIDE DEF n
<1>7. QED
  BY <1>1, <1>3, <1>4, <1>5, <1>6, IdsFacts DEF n

LEMMA AdmitSettled ==
    ASSUME NEW call, IsSeq(call.items), BodyValid(call),
           NEW x, x.call = call, x.plan = PlanFor(call), x.made = <<>>, x.spent = <<>>,
           call.route \in AnsweringRoutes => x.tenant # Nobody
    PROVE  Settled(x)
<1> SUFFICES ASSUME call.route \in AnsweringRoutes
             PROVE  Settled(x)
  BY DEF Settled
<1>1. IsSeq(x.made) /\ Len(x.made) = 0 /\ Len(x.spent) = 0 /\ Len(call.items) \in Nat
  BY TupleFacts, SeqFacts
<1>2. call.route \in PairRoutes => IsSeq(x.plan) /\ PairsLeft(x, 0)
  BY PlanIsPairs
<1>3. call.route = "enrich/by-ids" => IsSeq(x.plan) /\ IdsLeft(x, 0)
  BY PlanIsIds
<1>4. call.route \in PairRoutes \cup {"enrich/by-ids"} /\ "enrich/by-ids" \notin PairRoutes
  BY DEF AnsweringRoutes, CitingRoutes, PairRoutes
<1>5. call.route = "remediate" => Len(call.items) = 1
  BY DEF BodyValid
<1>6. Answering(x)
  BY <1>1, <1>2, <1>3, <1>4, <1>5 DEF Answering
<1>7. ~AtNode(x, "generate")
  <2> SUFFICES ASSUME x.plan # <<>>
               PROVE  AtNode(x, "retrieve") \/ AtNode(x, "fetch")
    BY DEF AtNode
  <2> DEFINE y == [plan |-> Tail(x.plan), made |-> x.made, call |-> x.call]
  <2>1. y.plan = Tail(x.plan) /\ y.made = x.made /\ y.call = x.call
    OBVIOUS
  <2> HIDE DEF y
  <2>2. call.route \in PairRoutes => AtNode(x, "retrieve")
    BY <1>1, <1>2, <2>1, PairsRetrieved
  <2>3. IsSeq(x.plan) => 1 \in 1..Len(x.plan)
    BY SeqFacts
  <2>4. call.route = "enrich/by-ids" => x.plan[1].node = "fetch"
    BY <1>1, <1>3, <2>3, IdsFacts
  <2>5. QED
    BY <1>4, <2>2, <2>4 DEF AtNode
<1>8. NextAt(x) = 1
  BY <1>1, NextIsNat
<1>9. QED
  BY <1>1, <1>6, <1>7, <1>8 DEF Settled

-----------------------------------------------------------------------------
\* What the graphs make of their sources.

LEMMA AnswerFacts ==
    ASSUME NEW x, NEW text, x.call.route \in AnsweringRoutes,
           x.call.route = "remediate" => ValidationError(text) = "none"
    PROVE  WellMade(x, AnswerTo(x, text))
<1> DEFINE item == x.plan[1].item
           context == x.context
           grounded == Grounded(item, context, text)
<1>1. /\ Verified(context, context) = context
      /\ Unverified(context, context) = {}
  BY DEF Verified, Unverified
<1>2. /\ grounded.about = item /\ grounded.citations = context
      /\ grounded.verified <=> context # {}
      /\ DOMAIN grounded = {"about", "text", "citations", "verified"}
  BY <1>1 DEF Grounded
<1> HIDE DEF grounded
<1>3. \A field, value :
         field \notin DOMAIN grounded =>
            LET answer == Adding(grounded, field, value)
            IN  /\ answer.about = item /\ answer.citations = context
                /\ answer.verified <=> context # {}
  BY <1>2 DEF Adding
<1>4. CASE x.call.route \in CitingRoutes
  <2>1. \/ AnswerTo(x, text) = grounded
        \/ \E field \in {"abstained", "mappings"} : \E value :
              AnswerTo(x, text) = Adding(grounded, field, value)
    BY <1>4 DEF AnswerTo, CopilotAnswer, ControlMapping, EnrichedFinding, CitingRoutes, grounded
  <2>2. x.call.route # "remediate"
    BY <1>4 DEF CitingRoutes
  <2>3. QED
    BY <1>2, <1>3, <2>1, <2>2 DEF WellMade
<1>5. CASE x.call.route = "remediate"
  <2>1. AnswerTo(x, text) = RemediationProposal(item, context, text)
    BY <1>5 DEF AnswerTo
  <2>2. ~ForbiddenIn(Or(text, "prose"))
    BY <1>5 DEF ValidationError, ForbiddenIn, Or
  <2>3. x.call.route \notin CitingRoutes
    BY <1>5 DEF CitingRoutes
  <2>4. QED
    BY <2>1, <2>2, <2>3 DEF RemediationProposal, WellMade
<1>6. QED
  BY <1>4, <1>5 DEF AnsweringRoutes, CitingRoutes, PairRoutes

LEMMA AbstentionFacts ==
    ASSUME NEW prompt, NEW item
    PROVE  LET answer == Abstention(prompt, item)
           IN  /\ answer.about = item /\ answer.citations = {} /\ ~answer.verified
               /\ answer.text = "abstention"
<1> DEFINE plain == [about |-> item, text |-> "abstention", citations |-> {}, verified |-> FALSE]
<1>1. \/ Abstention(prompt, item) = plain
      \/ \E field \in {"abstained", "mappings"} : \E value :
            Abstention(prompt, item) = Adding(plain, field, value)
  BY DEF Abstention
<1>2. /\ plain.about = item /\ plain.citations = {} /\ ~plain.verified
      /\ plain.text = "abstention" /\ DOMAIN plain = {"about", "text", "citations", "verified"}
  OBVIOUS
<1> HIDE DEF plain
<1>3. \A field, value :
         field \notin DOMAIN plain =>
            LET answer == Adding(plain, field, value)
            IN  /\ answer.about = item /\ answer.citations = {} /\ ~answer.verified
                /\ answer.text = "abstention"
  BY <1>2 DEF Adding
<1>4. QED
  BY <1>1, <1>2, <1>3

\* The routes that cite are those whose graph abstains when it has no sources.
LEMMA WhoAbstains ==
    ASSUME NEW x, x.call.route \in AnsweringRoutes, NEW context
    PROVE  Abstains(PromptOf[x.call.route], context) <=>
              x.call.route \in CitingRoutes /\ context = {}
<1>1. /\ PromptOf["enrich"] = "enrich_finding" /\ PromptOf["enrich/by-ids"] = "enrich_finding"
      /\ PromptOf["ask"] = "copilot_answer" /\ PromptOf["map"] = "control_mapping"
      /\ PromptOf["remediate"] = "remediation"
  BY DEF PromptOf, AIRoutes, GraphRoutes
<1>2. x.call.route \in {"enrich", "enrich/by-ids", "ask", "map", "remediate"}
  BY DEF AnsweringRoutes, CitingRoutes, PairRoutes
<1>3. QED
  BY <1>1, <1>2 DEF Abstains, CitingRoutes

-----------------------------------------------------------------------------
\* Beginning a node.

\* An error is not answered with 200.
LEMMA ErrorFacts ==
    ASSUME NEW error \in Errors
    PROVE  StatusFor[error] \in Statuses \ {200}
<1> DEFINE rows == {i \in DOMAIN StatusTable : IsA(error, StatusTable[i][1])}
<1>1. StatusFor[error] = IF rows = {} THEN 500 ELSE StatusTable[Min(rows)][2]
  BY DEF StatusFor, Errors
<1>2. DOMAIN StatusTable = 1..11
  BY DEF StatusTable
<1>3. rows # {} => Min(rows) \in 1..11
  BY <1>2, FirstRow
<1>4. \A i \in 1..11 : StatusTable[i][2] # 200
  BY DEF StatusTable
<1> HIDE DEF rows
<1>5. StatusFor[error] # 200
  BY <1>1, <1>3, <1>4
<1>6. QED
  BY <1>5, StatusFacts

LEMMA ClosedGround ==
    ASSUME NEW x, NEW status, status = 200 => Delivered(x)
    PROVE  GroundInv(Closed(x, status))
<1> DEFINE done == [Fresh EXCEPT !.phase = "done", !.status = status]
           kept == [done EXCEPT !.call = x.call, !.tenant = x.tenant, !.made = x.made,
                                !.spent = x.spent]
<1>1. done.phase = "done" /\ done.status = status
  BY DEF Fresh
<1>2. /\ kept.phase = "done" /\ kept.status = status /\ kept.call = x.call
      /\ kept.tenant = x.tenant /\ kept.made = x.made /\ kept.spent = x.spent
  BY DEF Fresh
<1>3. Closed(x, status) = IF status # 200 THEN done ELSE kept
  BY DEF Closed
<1> HIDE DEF done, kept
<1>4. status # 200 => GroundInv(done)
  BY <1>1 DEF GroundInv
<1>5. status = 200 => GroundInv(kept)
  BY <1>2 DEF GroundInv, Delivered, RestsOnSources
<1>6. QED
  BY <1>3, <1>4, <1>5

LEMMA FailedGround ==
    ASSUME NEW x, NEW error \in Errors
    PROVE  GroundInv(Failed(x, error))
BY ErrorFacts, ClosedGround DEF Failed

\* With nothing left to do, everything has been answered.
LEMMA DeliveredIs ==
    ASSUME NEW x, Settled(x), IsSeq(x.call.items), x.plan = <<>>
    PROVE  Delivered(x)
<1>1. CASE x.call.route \notin AnsweringRoutes
  BY <1>1 DEF Delivered, AnsweringRoutes, CitingRoutes, PairRoutes
<1>2. CASE x.call.route \in AnsweringRoutes
  <2>1. Answering(x) /\ ~AtNode(x, "generate")
    BY <1>2 DEF Settled, AtNode
  <2>2. /\ IsSeq(x.plan) /\ Len(x.plan) = 0 /\ IsSeq(x.made) /\ Len(x.made) \in Nat
        /\ Len(x.call.items) \in Nat
    BY <2>1, SeqFacts, TupleFacts DEF Answering
  <2>3. x.call.route \in PairRoutes => /\ Len(x.made) = Len(x.call.items)
                                       /\ \A i \in 1..Len(x.made) : x.made[i].about = x.call.items[i]
    <3> SUFFICES ASSUME x.call.route \in PairRoutes
                 PROVE  /\ Len(x.made) = Len(x.call.items)
                        /\ \A i \in 1..Len(x.made) : x.made[i].about = x.call.items[i]
      OBVIOUS
    <3>1. PairsLeft(x, 0) \/ PairsLeft(x, 1)
      BY <2>1 DEF Answering
    <3>2. \/ Len(x.plan) = 2 * (Len(x.call.items) - Len(x.made)) - 0
          \/ Len(x.plan) = 2 * (Len(x.call.items) - Len(x.made)) - 1
      BY <3>1 DEF PairsLeft
    <3>3. Len(x.made) = Len(x.call.items)
      <4> DEFINE m == Len(x.made)
                 k == Len(x.call.items)
      <4>1. m \in Nat /\ k \in Nat /\ (0 = 2 * (k - m) - 0 \/ 0 = 2 * (k - m) - 1)
        BY <2>2, <3>2
      <4> HIDE DEF m, k
      <4>2. 2 * (k - m) # 1
        BY <4>1
      <4>3. 2 * (k - m) = 0
        BY <4>1, <4>2
      <4>4. m = k
        BY <4>1, <4>3
      <4>5. QED
        BY <4>4 DEF m, k
    <3>4. QED
      BY <3>1, <3>3 DEF PairsLeft
  <2>4. x.call.route = "enrich/by-ids" => Len(x.made) = Len(x.call.items)
    <3> SUFFICES ASSUME x.call.route = "enrich/by-ids"
                 PROVE  Len(x.made) = Len(x.call.items)
      OBVIOUS
    <3>1. PICK p \in 0..2 : IdsLeft(x, p)
      BY <2>1 DEF Answering
    <3>2. p = 0
      BY <2>2, <3>1 DEF IdsLeft
    <3>3. Len(x.call.items) = Len(x.made) + Len(x.plan)
      BY <2>2, <3>1, <3>2, IdsFacts
    <3>4. QED
      BY <2>2, <3>3
  <2>5. x.call.route \in CitingRoutes =>
           /\ Len(x.spent) = RetrievalOf(x.made, Len(x.made) + 1) - 1
           /\ \A i \in 1..Len(x.made) : RestsOnSources(x, i)
    BY <1>2, <2>1 DEF Settled, Answering, NextAt
  <2>6. CitingRoutes \subseteq PairRoutes \cup {"enrich/by-ids"}
    BY DEF CitingRoutes, PairRoutes
  <2>7. {"enrich", "ask", "map", "remediate"} = PairRoutes
    BY DEF PairRoutes
  <2>8. x.call.route = "remediate" =>
           Len(x.made) = 1 /\ ~ForbiddenIn(x.made[1].text) /\ ~x.made[1].approved
    <3> SUFFICES ASSUME x.call.route = "remediate"
                 PROVE  Len(x.made) = 1 /\ ~ForbiddenIn(x.made[1].text) /\ ~x.made[1].approved
      OBVIOUS
    <3>1. Len(x.made) = 1
      BY <2>1, <2>3, <2>7 DEF Answering
    <3>2. 1 \in 1..Len(x.made)
      BY <3>1
    <3>3. QED
      BY <2>1, <3>1, <3>2 DEF Answering
  <2>9. QED
    BY <2>3, <2>4, <2>5, <2>6, <2>7, <2>8 DEF Delivered
<1>3. QED
  BY <1>1, <1>2

\* More may have been spent.
LEMMA SameAnswering ==
    ASSUME NEW x, NEW y, Answering(x), y.plan = x.plan, y.made = x.made, y.call = x.call,
           y.tenant = x.tenant,
           x.call.route \in CitingRoutes => \A k \in 1..(NextAt(x) - 1) : y.spent[k] = x.spent[k]
    PROVE  /\ Answering(y) /\ NextAt(y) = NextAt(x)
           /\ \A node : AtNode(y, node) <=> AtNode(x, node)
<1>1. x.call.route \in CitingRoutes => \A i \in 1..Len(x.made) : RestsOnSources(y, i)
  BY RestsKept
<1>2. \A half : PairsLeft(x, half) => PairsLeft(y, half)
  BY DEF PairsLeft
<1>3. \A p : IdsLeft(x, p) => IdsLeft(y, p)
  BY DEF IdsLeft
<1>4. Answering(y)
  BY <1>1, <1>2, <1>3 DEF Answering
<1>5. QED
  BY <1>4 DEF NextAt, AtNode

\* A node begins that is nobody's to pay.
LEMMA BegunInHand ==
    ASSUME NEW x, NEW y, Settled(x), IsSeq(x.call.items), x.plan # <<>>,
           Account(x, x.plan[1].node) = Nobody,
           y.plan = x.plan, y.made = x.made, y.call = x.call, y.tenant = x.tenant,
           y.spent = x.spent
    PROVE  InHand(y)
<1> SUFFICES ASSUME x.call.route \in AnsweringRoutes
             PROVE  InHand(y)
  BY DEF InHand
<1>1. Answering(x) /\ x.tenant # Nobody /\ Platform # Nobody
  BY ServiceAssumption DEF Settled, Answering
<1>2. ~AtNode(x, "generate") /\ ~AtNode(x, "retrieve")
  BY <1>1 DEF AtNode, Account
<1>3. /\ Answering(y) /\ NextAt(y) = NextAt(x) /\ \A node : AtNode(y, node) <=> AtNode(x, node)
  BY <1>1, SameAnswering
<1>4. x.call.route \in CitingRoutes => Len(y.spent) = NextAt(y) - 1
  BY <1>2, <1>3 DEF Settled
<1>5. QED
  BY <1>2, <1>3, <1>4 DEF InHand

\* A node begins that is paid for.
LEMMA PaidInHand ==
    ASSUME NEW x, NEW z, Settled(x), IsSeq(x.call.items), x.plan # <<>>, IsSeq(x.spent),
           Account(x, x.plan[1].node) # Nobody,
           z.plan = x.plan, z.made = x.made, z.call = x.call, z.tenant = x.tenant,
           z.context = x.context, z.spent = Append(x.spent, Charge(x))
    PROVE  InHand(z)
<1> SUFFICES ASSUME x.call.route \in AnsweringRoutes
             PROVE  InHand(z)
  BY DEF InHand
<1>1. Answering(x) /\ IsSeq(x.made)
  BY DEF Settled, Answering
<1> DEFINE at == NextAt(x)
           n == Len(x.spent)
<1>2. at \in Nat \ {0}
  BY <1>1, NextIsNat
<1>3. /\ n \in Nat /\ Len(z.spent) = n + 1 /\ z.spent[n + 1] = Charge(x)
      /\ \A k \in 1..n : z.spent[k] = x.spent[k]
  BY Appended
<1>4. x.call.route \in CitingRoutes =>
         IF AtNode(x, "generate") THEN n = at /\ Sourced(x) ELSE n = at - 1
  BY DEF Settled
<1>5. ~AtNode(x, "fetch")
  BY DEF AtNode, Account
<1> HIDE DEF at, n
<1>6. x.call.route \in CitingRoutes => \A k \in 1..(at - 1) : z.spent[k] = x.spent[k]
  BY <1>2, <1>3, <1>4
<1>7. /\ Answering(z) /\ NextAt(z) = at /\ \A node : AtNode(z, node) <=> AtNode(x, node)
  BY <1>1, <1>6, SameAnswering DEF at
<1>8. ASSUME x.call.route \in CitingRoutes, AtNode(x, "generate")
      PROVE  /\ Len(z.spent) = at + 1 /\ Sourced(z)
             /\ z.spent[at + 1].payer = z.tenant /\ z.spent[at + 1].item = z.plan[1].item
  <2>1. n = at /\ Sourced(x) /\ z.spent[at] = x.spent[at]
    BY <1>2, <1>3, <1>4, <1>8
  <2>2. Charge(x).payer = x.tenant /\ Charge(x).item = x.plan[1].item
    BY <1>8 DEF Charge, Account, AtNode
  <2>3. Sourced(z)
    BY <1>7, <2>1 DEF Sourced, Asked, at
  <2>4. QED
    BY <1>3, <2>1, <2>2, <2>3
<1>9. ASSUME x.call.route \in CitingRoutes, AtNode(x, "retrieve")
      PROVE  Len(z.spent) = at /\ Asked(z)
  <2>1. ~AtNode(x, "generate")
    BY <1>9 DEF AtNode
  <2>2. n = at - 1 /\ n + 1 = at
    BY <1>2, <1>4, <1>9, <2>1
  <2>3. Charge(x).payer = Platform /\ Charge(x).item = x.plan[1].item
    BY <1>9 DEF Charge, Account, AtNode
  <2>4. QED
    BY <1>3, <1>7, <2>2, <2>3 DEF Asked
<1>10. QED
  BY <1>5, <1>7, <1>8, <1>9 DEF InHand

LEMMA BeginGround ==
    ASSUME NEW r \in Requests, NEW x, Ready(r, x), Settled(x), NEW after \in Begin(x)
    PROVE  GroundInv(after[1])
<1> DEFINE payer == Account(x, x.plan[1].node)
           y == Begun(x)
           z == Paid(x)
<1>1. /\ DOMAIN x = Fields /\ x.phase = "working" /\ IsSeq(x.spent) /\ IsSeq(x.call.items)
  BY CallFacts DEF Ready, Common, Booked
<1>2. CASE x.plan = <<>>
  <2>1. after[1] = Closed(x, 200)
    BY <1>2 DEF Begin
  <2>2. QED
    BY <1>1, <1>2, <2>1, DeliveredIs, ClosedGround
<1>3. CASE x.plan # <<>> /\ BeginError(x) # "none"
  <2>1. after[1] = Failed(x, BeginError(x))
    BY <1>3 DEF Begin
  <2>2. BeginError(x) \in Errors
    BY <1>3, NamedErrors DEF BeginError, RenderError
  <2>3. QED
    BY <2>1, <2>2, FailedGround
<1>4. CASE x.plan # <<>> /\ BeginError(x) = "none"
  <2>1. /\ y.call = x.call /\ y.plan = x.plan /\ y.made = x.made /\ y.tenant = x.tenant
        /\ y.phase = "working" /\ y.spent = x.spent /\ y.context = x.context
        /\ DOMAIN y = Fields
    BY <1>1 DEF Begun, Fields
  <2>2. /\ z.call = y.call /\ z.plan = y.plan /\ z.made = y.made /\ z.tenant = y.tenant
        /\ z.phase = y.phase /\ z.spent = Append(y.spent, Charge(x)) /\ z.context = y.context
    BY <2>1 DEF Paid, Fields
  <2> HIDE DEF y, z
  <2>3. payer = Nobody => GroundInv(y)
    <3>1. payer = Nobody => InHand(y)
      BY <1>1, <1>4, <2>1, BegunInHand
    <3>2. QED
      BY <2>1, <3>1 DEF GroundInv
  <2>4. payer # Nobody => GroundInv(z)
    <3>1. payer # Nobody => InHand(z)
      BY <1>1, <1>4, <2>1, <2>2, PaidInHand
    <3>2. QED
      BY <2>1, <2>2, <3>1 DEF GroundInv
  <2>5. \/ payer = Nobody /\ after[1] = y
        \/ payer # Nobody /\ after[1] \in {z, Failed(x, "RateLimitError"),
                                           Failed(z, "UnsafeContentError"),
                                           Failed(z, "BudgetExceededError")}
    <3>1. CASE payer = Nobody
      <4>1. after = <<y, bucket>>
        BY <1>4, <3>1 DEF Begin, Begun, y
      <4>2. QED
        BY <3>1, <4>1
    <3>2. CASE payer # Nobody /\ bucket[payer] = 0
      <4>1. after = <<Failed(x, "RateLimitError"), bucket>>
        BY <1>4, <3>2 DEF Begin
      <4>2. QED
        BY <3>2, <4>1
    <3>3. CASE payer # Nobody /\ bucket[payer] # 0
      <4>1. after \in ({IF Blocked(x) THEN Failed(Paid(x), "UnsafeContentError") ELSE Paid(x)}
                       \cup (IF payer = x.tenant THEN {Failed(Paid(x), "BudgetExceededError")}
                             ELSE {}))
                      \X {[bucket EXCEPT ![payer] = @ - 1]}
        BY <1>4, <3>3 DEF Begin, Paid, Begun, Charge
      <4>2. QED
        BY <3>3, <4>1 DEF z
    <3>4. QED
      BY <3>1, <3>2, <3>3
  <2>6. QED
    BY <2>3, <2>4, <2>5, FailedGround, NamedErrors
<1>5. QED
  BY <1>2, <1>3, <1>4

LEMMA ProceedGround ==
    ASSUME NEW r \in Requests, NEW x, Ready(r, x), Settled(x), Proceed(r, x)
    PROVE  \E n, b : Step(r, n, b) /\ GroundInv(n)
<1>1. PICK after \in Begin(x) : Step(r, after[1], after[2])
  BY DEF Proceed
<1>2. QED
  BY <1>1, BeginGround

\* Waiting for anything else, a request has nothing to ground.
LEMMA OtherNodes ==
    ASSUME NEW x, InHand(x), IsSeq(x.call.items), x.plan # <<>>,
           \/ x.plan[1].node \notin {"retrieve", "generate", "fetch"}
           \/ x.plan[1].node = "fetch" /\ x.call.route # "enrich/by-ids"
    PROVE  x.call.route \notin AnsweringRoutes
BY WhichPart DEF InHand, AtNode

LEMMA NothingToGround ==
    ASSUME NEW x, x.call.route \notin AnsweringRoutes
    PROVE  Settled(x) /\ Delivered(x)
BY DEF Settled, Delivered, AnsweringRoutes, CitingRoutes, PairRoutes

-----------------------------------------------------------------------------
\* y is x but for its clocks.
Reclocked(x, y) ==
    /\ DOMAIN y = Fields /\ y.left \in Left /\ y.age \in 0..WallClock /\ y.kept \in Int
    /\ y.phase = x.phase /\ y.call = x.call /\ y.token = x.token /\ y.tenant = x.tenant
    /\ y.since = x.since /\ y.plan = x.plan /\ y.context = x.context
    /\ y.session = x.session /\ y.made = x.made /\ y.spent = x.spent /\ y.status = x.status

LEMMA ReclockedIs ==
    ASSUME NEW r \in Requests, NEW x, Ready(r, x), x.plan # <<>>, NEW y, Reclocked(x, y)
    PROVE  RequestInv(r, y)
<1>1. Common(r, y)
  BY DEF Ready, Reclocked, Common, Booked, MadeOwn, Own
<1>2. PlanFits(y)
  BY DEF Ready, Reclocked, PlanFits, PlanOwn, Entitled, Own
<1>3. Ready(r, y) /\ y.plan # <<>>
  BY <1>1, <1>2 DEF Ready, Reclocked
<1>4. QED
  BY <1>3, WorkingIs

LEMMA ReclockedGround ==
    ASSUME NEW x, GroundInv(x), x.phase = "working", NEW y, Reclocked(x, y)
    PROVE  GroundInv(y)
<1> SUFFICES ASSUME InHand(x), x.call.route \in AnsweringRoutes
             PROVE  InHand(y)
  BY DEF Reclocked, GroundInv, InHand
<1>1. /\ Answering(x) /\ Answering(y) /\ NextAt(y) = NextAt(x)
      /\ \A node : AtNode(y, node) <=> AtNode(x, node)
  BY SameAnswering DEF Reclocked, InHand
<1>2. QED
  BY <1>1 DEF Reclocked, InHand, Sourced, Asked

\* What is kept and what remains are no more together than they were.
LEMMA ReclockedTime ==
    ASSUME NEW r \in Requests, NEW x, TimeInv(x), x.phase = "working", Common(r, x),
           x.call \in CallsOf[r], NEW y, Reclocked(x, y), Timed(y),
           y.kept + Remains(y) <= x.kept + Remains(x)
    PROVE  TimeInv(y)
<1> DEFINE sum == x.kept + Remains(x)
           less == y.kept + Remains(y)
<1>1. Underway(x) /\ WithinBudget(x)
  BY DEF TimeInv
<1>2. /\ LongestOf(x.call) \in Nat
      /\ sum \in Nat /\ less \in Nat /\ less <= sum
  <2>1. Remains(x) \in Nat /\ Remains(y) \in Nat
    BY RemainsFacts DEF Common, Reclocked
  <2>2. x.kept \in Nat /\ y.kept \in Nat
    BY <1>1 DEF Underway, Timed, Clocked
  <2>3. QED
    BY <2>1, <2>2, LongestFacts
<1>3. y.call = x.call /\ y.plan = x.plan /\ y.session = x.session /\ y.spent = x.spent
  BY DEF Reclocked
<1> HIDE DEF sum, less
<1>4. ASSUME x.call.route \in PlainRoutes
      PROVE  PlainUnderway(y)
  <2> DEFINE rest == (Len(x.plan) - 1) * Each(x.call)
  <2>1. PlainPlan(x) /\ sum + rest <= LongestOf(x.call)
    BY <1>1, <1>4 DEF Underway, PlainUnderway, sum
  <2>2. rest \in Nat
    <3>1. IsSeq(x.plan) /\ x.plan # <<>> /\ Len(x.plan) \in Nat /\ Len(x.plan) > 0
      BY <1>1, SeqFacts DEF Underway
    <3>2. QED
      BY <3>1, TimeConstants, PredTimes
  <2> HIDE DEF rest
  <2>3. less + rest <= LongestOf(x.call)
    BY <1>2, <2>1, <2>2
  <2>4. QED
    BY <1>3, <2>1, <2>3 DEF PlainUnderway, PlainPlan, rest, less
<1>5. ASSUME x.call.route = "enrich/by-ids"
      PROVE  IdsUnderway(y)
  <2>1. PICK p \in 0..2 :
           /\ p <= Len(x.plan) /\ IdsPlan(x, p)
           /\ sum + (IF p = 0 THEN 2 * NodeTimeout + (Len(x.plan) - 1) * OneId
                     ELSE (p - 1) * NodeTimeout + (Len(x.plan) - p) * OneId)
                 <= LongestOf(x.call)
    BY <1>1, <1>5 DEF Underway, IdsUnderway, sum
  <2> DEFINE m == Len(x.plan)
             rest == IF p = 0 THEN 2 * NodeTimeout + (m - 1) * OneId
                     ELSE (p - 1) * NodeTimeout + (m - p) * OneId
  <2>2. m \in Nat /\ m > 0
    BY <1>1, SeqFacts DEF Underway
  <2>3. p <= m /\ sum + rest <= LongestOf(x.call)
    BY <2>1
  <2> HIDE DEF m
  <2>4. rest \in Nat
    <3>1. NodeTimeout \in Nat /\ OneId \in Nat
      BY TimeConstants
    <3>2. (m - 1) * OneId \in Nat
      BY <2>2, <3>1, PredTimes
    <3>3. p # 0 => p - 1 \in Nat /\ m - p \in Nat
      BY <2>2, <2>3
    <3>4. p # 0 => (p - 1) * NodeTimeout \in Nat /\ (m - p) * OneId \in Nat
      BY <3>1, <3>3, Times
    <3>5. QED
      BY <3>1, <3>2, <3>4
  <2> HIDE DEF rest
  <2>5. less + rest <= LongestOf(x.call)
    BY <1>2, <2>3, <2>4
  <2>6. IdsPlan(y, p)
    BY <1>3, <2>1 DEF IdsPlan
  <2>7. QED
    BY <1>3, <2>3, <2>5, <2>6 DEF IdsUnderway, rest, m, less
<1>6. ASSUME x.call.route = "correlate"
      PROVE  AnalystUnderway(y)
  <2>1. AnalystUnderway(x)
    BY <1>1, <1>6 DEF Underway
  <2>2. WallClock - 1 + EmbedLimit \in Nat
    BY TimeConstants
  <2>3. sum <= WallClock - 1 + EmbedLimit => less <= WallClock - 1 + EmbedLimit
    BY <1>2, <2>2
  <2>4. sum <= LongestOf(x.call) => less <= LongestOf(x.call)
    BY <1>2
  <2>5. AnalystPlan(y) /\ (Accounted(x) => Accounted(y))
    BY <1>3, <2>1 DEF AnalystUnderway, AnalystPlan, Accounted
  <2>6. QED
    BY <1>3, <2>1, <2>3, <2>4, <2>5 DEF AnalystUnderway, sum, less
<1>7. Underway(y)
  BY <1>1, <1>3, <1>4, <1>5, <1>6 DEF Underway
<1>8. QED
  BY <1>1, <1>3, <1>7 DEF TimeInv, WithinBudget, Reclocked

\* What becomes of a request in a step of its handler: it ends as y, or goes on
\* as y with a plan that fits and that there is time for, or waits as y for more
\* of what its node does.

Ends(r) ==
    \E y : \E status \in Statuses :
        /\ Common(r, y) /\ Step(r, Closed(y, status), bucket)
        /\ TimeInv(req[r]) => WithinBudget(y)
        /\ GroundInv(req[r]) /\ status = 200 => Delivered(y)
GoesOn(r) ==
    \E y :
        /\ Ready(r, y) /\ Proceed(r, y) /\ y.call = req[r].call
        /\ TimeInv(req[r]) => WithinBudget(y) /\ Due(y)
        /\ GroundInv(req[r]) => Settled(y)
Waits(r) ==
    \E y :
        /\ RequestInv(r, y) /\ y.phase = "working" /\ y.call = req[r].call
        /\ Step(r, y, bucket)
        /\ TimeInv(req[r]) => TimeInv(y)
        /\ GroundInv(req[r]) => GroundInv(y)

LEMMA FailsWith ==
    ASSUME NEW r \in Requests, NEW y, Common(r, y), TimeInv(req[r]) => WithinBudget(y),
           NEW error \in Errors, Step(r, Failed(y, error), bucket)
    PROVE  Ends(r)
<1>1. StatusFor[error] \in Statuses \ {200}
  BY ErrorFacts
<1>2. QED
  BY <1>1 DEF Ends, Failed

LEMMA OutcomeIs ==
    ASSUME NEW r \in Requests, bucket \in Buckets, Ends(r) \/ GoesOn(r) \/ Waits(r)
    PROVE  /\ \E n, b : Step(r, n, b) /\ Moves(r, req[r].call, n, b)
           /\ TimeInv(req[r]) => \E n, b : Step(r, n, b) /\ TimeInv(n)
           /\ GroundInv(req[r]) => \E n, b : Step(r, n, b) /\ GroundInv(n)
<1>1. CASE Ends(r)
  <2>1. PICK y : \E status \in Statuses :
                    /\ Common(r, y) /\ Step(r, Closed(y, status), bucket)
                    /\ TimeInv(req[r]) => WithinBudget(y)
                    /\ GroundInv(req[r]) /\ status = 200 => Delivered(y)
    BY <1>1 DEF Ends
  <2>2. PICK status \in Statuses :
                    /\ Common(r, y) /\ Step(r, Closed(y, status), bucket)
                    /\ TimeInv(req[r]) => WithinBudget(y)
                    /\ GroundInv(req[r]) /\ status = 200 => Delivered(y)
    BY <2>1
  <2>3. RequestInv(r, Closed(y, status)) /\ Closed(y, status).phase = "done"
    BY <2>2, ClosedIs
  <2>4. TimeInv(req[r]) => TimeInv(Closed(y, status))
    BY <2>2, ClosedTime
  <2>5. GroundInv(req[r]) => GroundInv(Closed(y, status))
    BY <2>2, ClosedGround
  <2>6. QED
    BY <2>2, <2>3, <2>4, <2>5 DEF Moves
<1>2. CASE GoesOn(r)
  <2>1. PICK y :
           /\ Ready(r, y) /\ Proceed(r, y) /\ y.call = req[r].call
           /\ TimeInv(req[r]) => WithinBudget(y) /\ Due(y)
           /\ GroundInv(req[r]) => Settled(y)
    BY <1>2 DEF GoesOn
  <2>2. QED
    BY <2>1, ProceedIs, ProceedTime, ProceedGround
<1>3. CASE Waits(r)
  BY <1>3 DEF Waits, Moves
<1>4. QED
  BY <1>1, <1>2, <1>3

LEMMA TooLargeStep ==
    ASSUME IInv, NEW r \in Requests, TooLarge(r)
    PROVE  Ends(r) \/ GoesOn(r)
<1>1. Step(r, Closed(req[r], 413), bucket)
  BY DEF TooLarge
<1>2. Common(r, req[r])
  BY DEF IInv, RequestsInv, RequestInv
<1>3. 413 \in Statuses /\ 413 # 200
  BY StatusFacts
<1>4. QED
  BY <1>1, <1>2, <1>3 DEF Ends, TimeInv

\* What the token of a request says once it has been verified.
LEMMA VerifiedFacts ==
    ASSUME NEW token, NEW time
    PROVE  /\ Verify(token, settings, time) \in Errors \cup {"none"}
           /\ Verify(token, settings, time) = "none" =>
                 /\ token.signer = VerifierOf(settings).key
                 /\ time <= token.exp + Leeway
                 /\ token.tenant # Nobody
BY NamedErrors DEF Verify, InTime, Nobody

\* The plan of a request that may be about nothing but its own.
LEMMA OwnPlan ==
    ASSUME NEW r \in Requests, NEW call \in CallsOf[r], NEW x,
           x.call = call, x.plan = PlanFor(call), call.route \in OwnRoutes,
           BodyValid(call), ~PostsForeign(call, x.tenant)
    PROVE  PlanOwn(x)
<1>1. IsSeq(call.items) /\ Len(call.items) \in Nat /\ DOMAIN call.items = 1..Len(call.items)
  BY CallFacts, SeqFacts
<1>2. CASE call.route = "map"
  <2> DEFINE f == call.items[1]
             first == At("retrieve", f)
             second == At("generate", f)
  <2>1. x.plan = <<first, second>>
    BY <1>2 DEF PlanFor, MappingGraph
  <2>2. Len(call.items) = 1
    BY <1>2 DEF BodyValid
  <2>3. Own(x, f)
    <3>1. f \in ToSet(call.items)
      BY <1>1, <2>2 DEF ToSet
    <3>2. SameTenant(x.tenant, ToSet(call.items))
      BY <1>2 DEF PostsForeign, AIRoutes, GraphRoutes
    <3>3. QED
      BY <3>1, <3>2 DEF SameTenant, Own
  <2>4. /\ first.node = "retrieve" /\ first.item = f
        /\ second.node = "generate" /\ second.item = f
    BY DEF At
  <2> HIDE DEF f, first, second
  <2>5. IsSeq(x.plan) /\ Len(x.plan) = 2
    BY <2>1, TupleFacts
  <2>6. DOMAIN x.plan = 1..2 /\ x.plan[1] = first /\ x.plan[2] = second
    BY <2>1
  <2>7. QED
    BY <2>3, <2>4, <2>5, <2>6 DEF PlanOwn
<1>3. CASE call.route = "enrich/by-ids"
  <2>1. x.plan = [i \in DOMAIN call.items |-> At("fetch", call.items[i])]
    BY <1>3 DEF PlanFor
  <2>2. \A i \in DOMAIN x.plan : x.plan[i].node = "fetch"
    BY <2>1 DEF At
  <2>3. DOMAIN x.plan = 1..Len(call.items)
    BY <1>1, <2>1
  <2>4. x.plan \in Seq({At("fetch", call.items[i]) : i \in DOMAIN call.items})
    BY <1>1, <2>1
  <2>5. IsSeq(x.plan)
    BY <2>4 DEF IsSeq
  <2>6. x.plan # <<>> => 1 \in DOMAIN x.plan
    BY <2>5, SeqFacts
  <2>7. QED
    BY <2>2, <2>5, <2>6 DEF PlanOwn
<1>4. QED
  BY <1>2, <1>3 DEF OwnRoutes

\* Admission leaves a request that is entitled to what it will spend.
LEMMA AdmitReady ==
    ASSUME IInv, NEW r \in Requests, NEW call, NEW tenant, NEW x,
           req[r].phase = "arrived", call = req[r].call, call.size # "over",
           x = [req[r] EXCEPT !.phase = "working", !.since = now, !.tenant = tenant,
                              !.plan = PlanFor(call)],
           tenant = IF call.route \in OpenRoutes THEN Nobody ELSE req[r].token.tenant,
           call.route \notin OpenRoutes => Verify(req[r].token, settings, now) = "none",
           call.json, BodyValid(call), ~PostsForeign(call, tenant)
    PROVE  /\ Ready(r, x)
           /\ TimeInv(req[r]) => WithinBudget(x) /\ Due(x)
           /\ Settled(x)
<1>1. /\ Common(r, req[r]) /\ call \in CallsOf[r] /\ req[r].token \in TenantTokens
      /\ req[r].status = 0 /\ req[r].spent = <<>> /\ req[r].made = <<>>
  BY DEF IInv, RequestsInv, RequestInv
<1>2. /\ DOMAIN x = Fields /\ x.phase = "working" /\ x.since = now /\ x.tenant = tenant
      /\ x.plan = PlanFor(call) /\ x.call = call /\ x.token = req[r].token /\ x.status = 0
      /\ x.spent = <<>> /\ x.made = <<>> /\ x.age = req[r].age /\ x.kept = req[r].kept /\ x.left = req[r].left
      /\ x.session = req[r].session
  BY <1>1 DEF Common, Fields
<1>3. tenant \in Tenants \cup {Nobody}
  BY <1>1 DEF TenantTokens
<1>4. Common(r, x)
  BY <1>1, <1>2, <1>3, TupleFacts DEF Common, Booked, MadeOwn
<1>5. IsSeq(call.items) /\ Len(call.items) \in Nat
  BY <1>1, CallFacts, SeqFacts
<1>6. ASSUME call.route \in AIRoutes
      PROVE  Entitled(x)
  <2>1. call.route \notin OpenRoutes
    BY <1>6 DEF AIRoutes, GraphRoutes, OpenRoutes
  <2>2. /\ x.token.signer = VerifierOf(settings).key /\ now <= x.token.exp + Leeway
        /\ x.tenant = x.token.tenant
    BY <1>2, <2>1, VerifiedFacts
  <2>3. call.route # "report" => Len(call.items) <= MaxBatch
    <3>1. MaxBatch \in Nat \ {0}
      BY ServiceAssumption
    <3>2. /\ call.route \in {"enrich", "enrich/by-ids", "correlate"} =>
                Len(call.items) \in 1..MaxBatch
          /\ call.route \in {"ask", "remediate", "map", "financial"} => Len(call.items) = 1
      BY DEF BodyValid
    <3>3. call.route \in {"enrich", "enrich/by-ids", "correlate", "ask", "remediate", "map",
                          "financial", "report"}
      BY <1>6 DEF AIRoutes, GraphRoutes
    <3>4. SUFFICES ASSUME call.route # "report"
                   PROVE  Len(call.items) <= MaxBatch
      OBVIOUS
    <3>5. Len(call.items) = 1 \/ Len(call.items) \in 1..MaxBatch
      BY <3>2, <3>3, <3>4
    <3>6. QED
      BY <3>1, <3>5, AtMost
  <2>4. ASSUME call.route \in AIRoutes \ {"ask", "enrich/by-ids"}, NEW i \in DOMAIN call.items
        PROVE  Own(x, call.items[i])
    <3>1. SameTenant(tenant, ToSet(call.items))
      BY <2>4 DEF PostsForeign
    <3>2. QED
      BY <1>2, <2>4, <3>1 DEF SameTenant, ToSet, Own
  <2>5. QED
    BY <1>2, <2>2, <2>3, <2>4 DEF Entitled
<1>7. call.route \in OpenRoutes => (x.plan # <<>> => x.plan[1].node = "probe")
  <2> SUFFICES ASSUME call.route \in OpenRoutes, x.plan # <<>>
               PROVE  x.plan[1].node = "probe"
    OBVIOUS
  <2>1. x.plan = <<At("probe", "store")>>
    BY <1>2 DEF PlanFor, OpenRoutes
  <2>2. QED
    BY <2>1 DEF At
<1>8. call.route \in CoreRoutes =>
        (x.plan # <<>> => x.plan[1].node \in {"fetch", "list"} /\ Tail(x.plan) = <<>>)
  <2> SUFFICES ASSUME call.route \in CoreRoutes
               PROVE  x.plan[1].node \in {"fetch", "list"} /\ Tail(x.plan) = <<>>
    OBVIOUS
  <2>1. PICK n \in {"fetch", "list"} : x.plan = <<At(n, call.items[1])>>
    BY <1>2 DEF PlanFor, CoreRoutes
  <2>2. Tail(x.plan) = <<>>
    BY <2>1, TupleFacts
  <2>3. x.plan[1] = At(n, call.items[1])
    BY <2>1
  <2>4. QED
    BY <2>2, <2>3 DEF At
<1>9. call.route \in OwnRoutes => PlanOwn(x)
  <2>1. x.call = call /\ x.plan = PlanFor(call) /\ ~PostsForeign(call, x.tenant)
    BY <1>2
  <2>2. QED
    BY <1>1, <2>1, OwnPlan
<1>10. PlanFits(x)
  BY <1>2, <1>6, <1>7, <1>8, <1>9 DEF PlanFits
<1>11. ASSUME TimeInv(req[r])
       PROVE  WithinBudget(x) /\ Due(x)
  <2>1. x.age = 0 /\ x.kept = 0 /\ x.session = OpenSession
    BY <1>2, <1>11 DEF TimeInv
  <2>2. Due(x)
    BY <1>1, <1>2, <2>1, PlanIsDue
  <2>3. WithinBudget(x)
    BY <1>2 DEF WithinBudget
  <2>4. QED
    BY <2>2, <2>3
<1>12. Settled(x)
  <2>1. call.route \in AnsweringRoutes => call.route \notin OpenRoutes
    BY DEF AnsweringRoutes, CitingRoutes, PairRoutes, OpenRoutes
  <2>2. call.route \in AnsweringRoutes => x.tenant # Nobody
    BY <1>2, <2>1, VerifiedFacts
  <2>3. /\ IsSeq(call.items) /\ BodyValid(call) /\ x.call = call /\ x.plan = PlanFor(call)
        /\ x.made = <<>> /\ x.spent = <<>>
    BY <1>2, <1>5
  <2>4. QED
    BY ONLY <2>2, <2>3, AdmitSettled
<1>13. QED
  BY <1>1, <1>2, <1>4, <1>10, <1>11, <1>12 DEF Ready

LEMMA AdmitStep ==
    ASSUME IInv, NEW r \in Requests, Admit(r)
    PROVE  /\ Ends(r) \/ GoesOn(r)
           /\ tokens' \subseteq TenantTokens
<1> DEFINE call == req[r].call
           open == call.route \in OpenRoutes
           refusal == IF open THEN "none" ELSE Verify(req[r].token, settings, now)
           tenant == IF open THEN Nobody ELSE req[r].token.tenant
           x == [req[r] EXCEPT !.phase = "working", !.since = now]
           y == [x EXCEPT !.tenant = tenant, !.plan = PlanFor(call)]
           error == IF ~call.json THEN "ValidationError"
                    ELSE IF refusal # "none" THEN refusal
                    ELSE IF ~BodyValid(call) THEN "ValidationError"
                    ELSE IF PostsForeign(call, tenant) THEN "TenantIsolationError"
                    ELSE "none"
           minted == Mint(settings, call.items[1].tenant, call.items[1].ttl, now)
<1>1. /\ req[r].phase = "arrived" /\ call.size # "over"
      /\ IF error # "none" THEN Step(r, Failed(x, error), bucket) ELSE Proceed(r, y)
      /\ tokens' = IF error = "none" /\ call.route = "dev-token"
                   THEN tokens \cup {minted} ELSE tokens
  BY DEF Admit
<1>2. Common(r, req[r]) /\ call \in CallsOf[r] /\ bucket \in Buckets
  BY <1>1 DEF IInv, RequestsInv, RequestInv
<1>3. ASSUME error # "none"
      PROVE  Ends(r) \/ GoesOn(r)
  <2>1. /\ DOMAIN x = Fields /\ x.call = call /\ x.tenant = req[r].tenant
        /\ x.age = req[r].age /\ x.kept = req[r].kept /\ x.left = req[r].left /\ x.spent = req[r].spent
        /\ x.made = req[r].made
    BY <1>2 DEF Common, Fields
  <2>2. Common(r, x) /\ (TimeInv(req[r]) => WithinBudget(x))
    BY <1>2, <2>1 DEF Common, Booked, MadeOwn, Own, TimeInv, WithinBudget
  <2>3. error \in Errors
    BY <1>3, NamedErrors, VerifiedFacts
  <2>4. Step(r, Failed(x, error), bucket)
    BY <1>1, <1>3
  <2> HIDE DEF error, x
  <2>5. QED
    BY <1>2, <2>2, <2>3, <2>4, FailsWith
<1>4. ASSUME error = "none"
      PROVE  Ends(r) \/ GoesOn(r)
  <2>1. y = [req[r] EXCEPT !.phase = "working", !.since = now, !.tenant = tenant,
                           !.plan = PlanFor(call)]
    BY <1>2 DEF Common, Fields
  <2>2. /\ call.json /\ BodyValid(call) /\ ~PostsForeign(call, tenant)
        /\ call.route \notin OpenRoutes => Verify(req[r].token, settings, now) = "none"
    BY <1>4
  <2>3. /\ Ready(r, y)
        /\ TimeInv(req[r]) => WithinBudget(y) /\ Due(y)
        /\ Settled(y)
    <3> HIDE DEF y, call
    <3>1. QED
      BY <1>1, <2>1, <2>2, AdmitReady DEF call
  <2>4. Proceed(r, y)
    BY <1>1, <1>4
  <2>5. y.call = req[r].call
    BY <1>2, <2>1 DEF Common, Fields
  <2> HIDE DEF y
  <2>6. QED
    BY <2>3, <2>4, <2>5 DEF GoesOn
<1>5. tokens' \subseteq TenantTokens
  <2> SUFFICES ASSUME call.route = "dev-token"
               PROVE  minted \in TenantTokens
    BY <1>1 DEF IInv
  <2>1. call.items[1].tenant \in Tenants \cup {Nobody} /\ call.items[1].ttl \in Nat
    BY <1>2, CallFacts
  <2>2. now \in Nat /\ Tenants \cup {Nobody} \subseteq STRING
    <3>1. now \in 0..MaxTime /\ MaxTime \in Nat
      BY ServiceAssumption DEF IInv
    <3>2. Tenants \cup {Nobody} \subseteq STRING
      BY ServiceAssumption
    <3>3. QED
      BY <3>1, <3>2
  <2>3. settings \in Settings
    BY ServiceAssumption DEF IInv
  <2>4. settings.secret \in STRING
    BY <2>3 DEF Settings
  <2> DEFINE tenant2 == call.items[1].tenant
             ttl == call.items[1].ttl
  <2>5. minted = [parts |-> TRUE, alg |-> "HS256", signer |-> settings.secret, ascii |-> TRUE,
                  exp |-> now + ttl, nbf |-> now, iss |-> TRUE, aud |-> TRUE, sub |-> TRUE,
                  tenant |-> tenant2, roles |-> TRUE]
    BY DEF Mint
  <2>6. tenant2 \in STRING /\ ttl \in Nat
    BY <2>1, <2>2
  <2> HIDE DEF minted, tenant2, ttl
  <2>7. minted \in Token /\ minted.tenant = tenant2
    BY <2>2, <2>4, <2>5, <2>6 DEF Token
  <2>8. QED
    BY <2>1, <2>7 DEF TenantTokens, tenant2
<1>6. QED
  BY <1>3, <1>4, <1>5

-----------------------------------------------------------------------------
\* What the handlers wait for.

LEMMA AwaitsFacts ==
    ASSUME IInv, NEW r \in Requests, req[r].phase = "working"
    PROVE  /\ Ready(r, req[r]) /\ Common(r, req[r]) /\ req[r].plan # <<>>
           /\ req[r].call \in CallsOf[r] /\ PlanFits(req[r]) /\ bucket \in Buckets
           /\ IsSeq(req[r].call.items)
           /\ GroundInv(req[r]) => InHand(req[r])
<1>1. /\ Ready(r, req[r]) /\ Common(r, req[r]) /\ req[r].plan # <<>>
      /\ req[r].call \in CallsOf[r] /\ PlanFits(req[r]) /\ bucket \in Buckets
  BY DEF IInv, RequestsInv, RequestInv, Ready
<1>2. QED
  BY <1>1, CallFacts DEF GroundInv

LEMMA RoutesApart ==
    /\ AIRoutes \cap CoreRoutes = {} /\ AIRoutes \cap OpenRoutes = {}
    /\ CoreRoutes \cap OpenRoutes = {} /\ OwnRoutes \subseteq AIRoutes
BY DEF AIRoutes, GraphRoutes, CoreRoutes, OpenRoutes, OwnRoutes

\* A plan that is its own stays so without its first node.
LEMMA TailOwn ==
    ASSUME NEW x, NEW y, PlanOwn(x), x.plan # <<>>,
           y.plan = Tail(x.plan), y.tenant = x.tenant
    PROVE  PlanOwn(y)
<1>1. /\ IsSeq(y.plan)
      /\ \A i \in DOMAIN y.plan : i + 1 \in DOMAIN x.plan /\ y.plan[i] = x.plan[i + 1]
  BY TailFacts DEF PlanOwn
<1>2. \A i \in DOMAIN y.plan : i \in Nat \ {0}
  BY <1>1, SeqFacts
<1>3. \A i \in DOMAIN y.plan : y.plan[i].node # "retrieve"
  BY <1>1, <1>2 DEF PlanOwn
<1>4. y.plan # <<>> => 1 \in DOMAIN y.plan
  BY <1>1, SeqFacts
<1>5. QED
  BY <1>1, <1>3, <1>4 DEF PlanOwn, Own

\* A node is done: the request goes on with the rest of its plan.
LEMMA RestIsReady ==
    ASSUME NEW r \in Requests, NEW x, NEW y, Ready(r, x),
           x.call.route \in AIRoutes \cup CoreRoutes,
           x.call.route \in CoreRoutes \cup OwnRoutes => x.plan # <<>>,
           DOMAIN y = Fields, y.phase = x.phase, y.status = x.status, y.call = x.call,
           y.token = x.token, y.tenant = x.tenant, y.since = x.since, y.age = x.age, y.kept = x.kept,
           y.left = x.left, y.plan = Tail(x.plan), Booked(y), MadeOwn(y),
           x.call.route \in CoreRoutes => y.spent = x.spent
    PROVE  Ready(r, y)
<1>1. Common(r, y)
  BY DEF Ready, Common
<1>2. y.call.route \notin OpenRoutes
  BY RoutesApart
<1>3. ASSUME y.call.route \in CoreRoutes
      PROVE  y.spent = <<>> /\ y.plan = <<>>
  BY <1>3 DEF Ready, PlanFits
<1>4. ASSUME y.call.route \in OwnRoutes
      PROVE  PlanOwn(y)
  BY <1>4, TailOwn DEF Ready, PlanFits
<1>5. y.call.route \in AIRoutes => Entitled(y)
  BY DEF Ready, PlanFits, Entitled, Own
<1>6. PlanFits(y)
  BY <1>2, <1>3, <1>4, <1>5 DEF PlanFits
<1>7. QED
  BY <1>1, <1>6 DEF Ready

LEMMA RestIsTimely ==
    ASSUME NEW r \in Requests, NEW x, NEW y, TimeInv(x), Common(r, x), x.call \in CallsOf[r],
           x.phase = "working", y.call = x.call, y.age = x.age, y.kept = x.kept, y.session = x.session,
           y.spent = x.spent, y.plan = Tail(x.plan)
    PROVE  WithinBudget(y) /\ Due(y)
<1>1. x.left \in Left
  BY DEF Common
<1>2. Underway(x) /\ x.plan # <<>> /\ WithinBudget(x)
  BY DEF TimeInv, Underway
<1>3. Due(y)
  BY <1>1, <1>2, RestIsDue
<1>4. WithinBudget(y)
  BY <1>2 DEF WithinBudget
<1>5. QED
  BY <1>3, <1>4

\* A graph that abstains has a completion to skip.
LEMMA AbstainsLate ==
    ASSUME NEW r \in Requests, NEW x, TimeInv(x), PlanFits(x), x.call \in CallsOf[r],
           x.phase = "working", x.plan[1].node = "retrieve"
    PROVE  Tail(x.plan) # <<>>
<1>1. Underway(x) /\ IsSeq(x.plan) /\ 1 \in DOMAIN x.plan /\ Len(x.plan) \in Nat
  BY SeqFacts DEF TimeInv, Underway
<1>2. x.call.route \in PlainRoutes => Len(x.plan) > 1
  BY <1>1 DEF Underway, PlainUnderway, PlainPlan
<1>3. x.call.route = "enrich/by-ids" => Len(x.plan) > 1
  BY <1>1 DEF PlanFits, PlanOwn, OwnRoutes
<1>4. x.call.route # "correlate"
  BY <1>1 DEF Underway, AnalystUnderway, AnalystPlan
<1>5. x.call.route \notin OpenRoutes
  BY <1>1, SeqFacts DEF PlanFits
<1>6. x.call.route \in PlainRoutes \cup {"enrich/by-ids", "correlate"} \cup OpenRoutes
  BY CallFacts DEF PlainRoutes, AIRoutes
<1>7. Len(x.plan) > 1
  BY <1>2, <1>3, <1>4, <1>5, <1>6
<1>8. IsSeq(Tail(x.plan)) /\ Len(Tail(x.plan)) = Len(x.plan) - 1
  BY <1>1, SeqFacts, TailFacts DEF Underway
<1> DEFINE rest == Tail(x.plan)
<1>9. IsSeq(rest) /\ Len(rest) = Len(x.plan) - 1
  BY <1>8
<1> HIDE DEF rest
<1>10. Len(rest) > 0
  BY <1>1, <1>7, <1>9
<1>11. rest # <<>>
  BY <1>9, <1>10, SeqFacts
<1>12. QED
  BY <1>11 DEF rest

\* What a Core client replies is an error, or findings of the tenant.
LEMMA ReplyFacts ==
    ASSUME NEW tenant, NEW reply,
           \/ \E answer : reply = HttpResult(tenant, answer)
           \/ \E seed, id : reply = StubGet(seed, tenant, id)
           \/ \E seed, filters : reply = StubList(seed, tenant, filters)
    PROVE  /\ reply.error \in Errors \cup {"none"}
           /\ reply.error = "none" => \A f \in reply.got : f.tenant = tenant
<1>1. ASSUME NEW error \in Errors
      PROVE  Refusal(error).error \in Errors \cup {"none"} /\ Refusal(error).got = {}
  BY <1>1 DEF Refusal
<1>2. \A findings : Reply(findings).error = "none" /\ Reply(findings).got = findings
  BY DEF Reply
<1>3. ASSUME NEW answer, reply = HttpResult(tenant, answer)
      PROVE  /\ reply.error \in Errors \cup {"none"}
             /\ \A f \in reply.got : f.tenant = tenant
  BY <1>1, <1>2, <1>3, NamedErrors DEF HttpResult, ErrorFor, SameTenant
<1>4. ASSUME NEW seed, NEW id, reply = StubGet(seed, tenant, id)
      PROVE  /\ reply.error \in Errors \cup {"none"}
             /\ \A f \in reply.got : f.tenant = tenant
  BY <1>1, <1>2, <1>4, NamedErrors DEF StubGet
<1>5. ASSUME NEW seed, NEW filters, reply = StubList(seed, tenant, filters)
      PROVE  /\ reply.error \in Errors \cup {"none"}
             /\ \A f \in reply.got : f.tenant = tenant
  BY <1>2, <1>5 DEF StubList
<1>6. QED
  BY <1>3, <1>4, <1>5

\* A finding that was asked for by its id is there.
LEMMA FoundFacts ==
    ASSUME NEW tenant, NEW reply, reply.error = "none",
           \/ \E answer : /\ reply = HttpResult(tenant, answer)
                          /\ answer.valid => \E f \in answer.findings : answer.findings = {f}
           \/ \E seed, id : reply = StubGet(seed, tenant, id)
    PROVE  reply.got # {}
<1>1. \A findings : Reply(findings).got = findings
  BY DEF Reply
<1>2. ASSUME NEW answer, reply = HttpResult(tenant, answer),
             answer.valid => \E f \in answer.findings : answer.findings = {f}
      PROVE  reply.got # {}
  <2>1. answer.valid /\ reply = Reply(answer.findings)
    BY <1>2 DEF HttpResult, Refusal, ErrorFor
  <2>2. answer.findings # {}
    BY <1>2, <2>1
  <2>3. QED
    BY <1>1, <2>1, <2>2
<1>3. ASSUME NEW seed, NEW id, reply = StubGet(seed, tenant, id)
      PROVE  reply.got # {}
  BY <1>1, <1>3 DEF StubGet, Refusal
<1>4. QED
  BY <1>2, <1>3

LEMMA FetchedStep ==
    ASSUME IInv, NEW r \in Requests, Fetched(r)
    PROVE  Ends(r) \/ GoesOn(r)
<1> DEFINE x == req[r]
           one == x.plan[1].node = "fetch"
           seed == StubSeed(settings)
           replies == IF settings.core = "http"
                      THEN {HttpResult(x.tenant, answer) : answer \in
                              {a \in CoreAnswers :
                                 one /\ a.valid => \E f \in a.findings : a.findings = {f}}}
                      ELSE IF one THEN {StubGet(seed, x.tenant, x.plan[1].item)}
                      ELSE {StubList(seed, x.tenant, x.plan[1].item)}
<1>1. /\ x.phase = "working" /\ x.plan[1].node \in {"fetch", "list"}
      /\ \E reply \in replies :
            IF reply.error # "none"
            THEN Step(r, Failed(x, reply.error), bucket)
            ELSE IF x.call.route = "enrich/by-ids"
            THEN Proceed(r, [x EXCEPT !.plan =
                    EnrichmentGraph(CHOOSE f \in reply.got : TRUE) \o Tail(@)])
            ELSE Proceed(r, [x EXCEPT !.plan = Tail(@), !.made = <<reply.got>>])
  BY DEF Fetched, AwaitsCore, Awaits
<1>2. /\ Ready(r, x) /\ Common(r, x) /\ x.plan # <<>> /\ x.call \in CallsOf[r]
      /\ PlanFits(x) /\ bucket \in Buckets /\ DOMAIN x = Fields
      /\ IsSeq(x.call.items) /\ (GroundInv(x) => InHand(x))
  BY <1>1, AwaitsFacts DEF Common
<1>3. PICK reply \in replies :
         IF reply.error # "none"
         THEN Step(r, Failed(x, reply.error), bucket)
         ELSE IF x.call.route = "enrich/by-ids"
         THEN Proceed(r, [x EXCEPT !.plan =
                 EnrichmentGraph(CHOOSE f \in reply.got : TRUE) \o Tail(@)])
         ELSE Proceed(r, [x EXCEPT !.plan = Tail(@), !.made = <<reply.got>>])
  BY <1>1
<1>4. /\ reply.error \in Errors \cup {"none"}
      /\ reply.error = "none" => \A f \in reply.got : f.tenant = x.tenant
  <2>1. \/ \E answer : reply = HttpResult(x.tenant, answer)
        \/ \E s, id : reply = StubGet(s, x.tenant, id)
        \/ \E s, filters : reply = StubList(s, x.tenant, filters)
    BY <1>3
  <2> HIDE DEF x, replies
  <2>2. QED
    BY <2>1, ReplyFacts
<1>5. x.call.route \in AIRoutes \cup CoreRoutes
  BY <1>1, <1>2, CallFacts DEF PlanFits
<1>6. ASSUME reply.error # "none"
      PROVE  Ends(r) \/ GoesOn(r)
  BY <1>2, <1>3, <1>4, <1>6, FailsWith DEF TimeInv
<1>7. ASSUME reply.error = "none", x.call.route = "enrich/by-ids"
      PROVE  Ends(r) \/ GoesOn(r)
  <2> DEFINE f == CHOOSE g \in reply.got : TRUE
             first == At("retrieve", f)
             second == At("generate", f)
             rest == Tail(x.plan)
             y == [x EXCEPT !.plan = EnrichmentGraph(f) \o Tail(@)]
  <2>1. PlanOwn(x) /\ one
    <3>1. x.call.route \in OwnRoutes
      BY <1>7 DEF OwnRoutes
    <3>2. PlanOwn(x)
      BY <1>2, <3>1 DEF PlanFits
    <3>3. 1 \in DOMAIN x.plan
      BY <1>2, <3>2, SeqFacts DEF PlanOwn
    <3>4. QED
      BY <1>1, <3>2, <3>3 DEF PlanOwn
  <2>2. f \in reply.got
    <3>1. \/ \E answer : /\ reply = HttpResult(x.tenant, answer)
                         /\ answer.valid => \E g \in answer.findings : answer.findings = {g}
          \/ \E s, id : reply = StubGet(s, x.tenant, id)
      BY <1>3, <2>1
    <3> HIDE DEF x, replies
    <3>2. reply.got # {}
      BY <1>7, <3>1, FoundFacts
    <3>3. QED
      BY <3>2
  <2>3. /\ first.node = "retrieve" /\ second.node = "generate"
        /\ first.item = f /\ second.item = f
    BY DEF At
  <2>4. f.tenant = x.tenant
    BY <1>4, <1>7, <2>2
  <2>5. /\ DOMAIN y = Fields /\ y.plan = <<first, second>> \o rest
        /\ y.phase = x.phase /\ y.status = x.status /\ y.left = x.left
        /\ y.call = x.call /\ y.token = x.token /\ y.tenant = x.tenant
        /\ y.since = x.since /\ y.age = x.age /\ y.kept = x.kept /\ y.spent = x.spent /\ y.made = x.made
    BY <1>2 DEF Fields, EnrichmentGraph
  <2>6. TimeInv(x) => WithinBudget(y) /\ Due(y)
    <3> HIDE DEF first, second, rest, y, f, x
    <3> SUFFICES ASSUME TimeInv(x)
                 PROVE  WithinBudget(y) /\ Due(y)
      OBVIOUS
    <3>1. Underway(x)
      BY <1>1 DEF TimeInv
    <3>2. x.left \in Left
      BY <1>2 DEF Common
    <3>3. y.plan = <<first, second>> \o Tail(x.plan)
      BY <2>5 DEF rest
    <3>4. Due(y)
      BY <1>2, <1>7, <2>1, <2>3, <2>5, <3>1, <3>2, <3>3, FetchedIsDue
    <3>5. WithinBudget(y)
      BY <2>5 DEF TimeInv, WithinBudget
    <3>6. QED
      BY <3>4, <3>5
  <2>7. Proceed(r, y)
    BY <1>3, <1>7
  <2> DEFINE front == <<first, second>>
  <2>8. /\ IsSeq(front) /\ Len(front) = 2 /\ DOMAIN front = 1..2
        /\ front[1] = first /\ front[2] = second
    BY TupleFacts
  <2>9. /\ IsSeq(rest) /\ Len(rest) \in Nat
        /\ \A i \in DOMAIN rest : i + 1 \in DOMAIN x.plan /\ rest[i] = x.plan[i + 1] /\ i \in Nat \ {0}
    BY <1>2, <2>1, TailFacts, SeqFacts DEF PlanOwn
  <2> HIDE DEF first, second, rest, y, f, front
  <2>10. /\ IsSeq(y.plan) /\ Len(y.plan) > 1
        /\ \A i \in DOMAIN y.plan : \/ i \in 1..2 /\ y.plan[i] = front[i]
                                    \/ i > 2 /\ i - 2 \in DOMAIN rest /\ y.plan[i] = rest[i - 2]
    <3>1. y.plan = front \o rest
      BY <2>5 DEF front
    <3>2. /\ IsSeq(y.plan) /\ Len(y.plan) = Len(front) + Len(rest)
          /\ \A i \in DOMAIN front : i \in DOMAIN y.plan /\ y.plan[i] = front[i]
          /\ \A i \in DOMAIN y.plan :
                i \notin DOMAIN front => i - Len(front) \in DOMAIN rest
                                         /\ y.plan[i] = rest[i - Len(front)]
      <4>1. IsSeq(front) /\ IsSeq(rest)
        BY <2>8, <2>9
      <4> DEFINE whole == front \o rest
      <4>2. /\ IsSeq(whole) /\ Len(whole) = Len(front) + Len(rest)
            /\ \A i \in DOMAIN front : i \in DOMAIN whole /\ whole[i] = front[i]
            /\ \A i \in DOMAIN whole :
                  i \notin DOMAIN front => i - Len(front) \in DOMAIN rest
                                           /\ whole[i] = rest[i - Len(front)]
        BY <4>1, ConcatFacts
      <4>3. y.plan = whole
        BY <3>1
      <4> HIDE DEF whole
      <4>4. QED
        BY <4>2, <4>3
    <3>3. DOMAIN y.plan = 1..Len(y.plan) /\ Len(y.plan) \in Nat
      BY <3>2, SeqFacts
    <3>4. QED
      BY <2>8, <2>9, <3>2, <3>3
  <2>11. \A i \in DOMAIN y.plan :
            /\ y.plan[i].node \in {"fetch", "retrieve", "generate"}
            /\ y.plan[i].node # "fetch" => y.plan[i].item.tenant = x.tenant
            /\ i > 1 => y.plan[i].node # "retrieve"
    <3> SUFFICES ASSUME NEW i \in DOMAIN y.plan
                 PROVE  /\ y.plan[i].node \in {"fetch", "retrieve", "generate"}
                        /\ y.plan[i].node # "fetch" => y.plan[i].item.tenant = x.tenant
                        /\ i > 1 => y.plan[i].node # "retrieve"
      OBVIOUS
    <3>1. CASE i \in 1..2 /\ y.plan[i] = front[i]
      BY <2>3, <2>4, <2>8, <3>1
    <3>2. CASE i > 2 /\ i - 2 \in DOMAIN rest /\ y.plan[i] = rest[i - 2]
      <4>1. i - 2 + 1 \in DOMAIN x.plan /\ y.plan[i] = x.plan[i - 2 + 1] /\ i - 2 + 1 > 1
        BY <2>9, <3>2
      <4>2. QED
        BY <2>1, <4>1 DEF PlanOwn, Own
    <3>3. QED
      BY <2>10, <3>1, <3>2
  <2>12. PlanOwn(y)
    BY <2>5, <2>10, <2>11 DEF PlanOwn, Own
  <2>13. Common(r, y)
    BY <1>2, <2>5 DEF Common, Booked, MadeOwn, Own
  <2>14. PlanFits(y)
    <3>1. y.call.route \in AIRoutes /\ y.call.route \notin OpenRoutes \cup CoreRoutes
      BY <1>7, <2>5 DEF AIRoutes, GraphRoutes, OpenRoutes, CoreRoutes
    <3>2. Entitled(y)
      BY <1>2, <2>5, <3>1 DEF PlanFits, Entitled, Own
    <3>3. QED
      BY <2>12, <3>1, <3>2 DEF PlanFits
  <2>15. Ready(r, y)
    BY <1>2, <2>5, <2>13, <2>14 DEF Ready
  <2>16. GroundInv(x) => Settled(y)
    <3>1. y.plan = EnrichmentGraph(f) \o Tail(x.plan)
      BY <2>5 DEF EnrichmentGraph, first, second, rest
    <3>2. AtNode(x, "fetch")
      BY <1>2, <2>1 DEF AtNode
    <3> HIDE DEF x
    <3>3. QED
      BY <1>2, <1>7, <2>5, <3>1, <3>2, FetchedSettled
  <2>17. QED
    BY <2>5, <2>7, <2>15, <2>6, <2>16 DEF GoesOn
<1>8. ASSUME reply.error = "none", x.call.route # "enrich/by-ids"
      PROVE  Ends(r) \/ GoesOn(r)
  <2> DEFINE y == [x EXCEPT !.plan = Tail(@), !.made = <<reply.got>>]
  <2>1. /\ DOMAIN y = Fields /\ y.plan = Tail(x.plan) /\ y.made = <<reply.got>>
        /\ y.phase = x.phase /\ y.status = x.status /\ y.left = x.left
        /\ y.call = x.call /\ y.token = x.token /\ y.tenant = x.tenant
        /\ y.since = x.since /\ y.age = x.age /\ y.kept = x.kept /\ y.spent = x.spent /\ y.session = x.session
    BY <1>2 DEF Fields
  <2>2. Proceed(r, y)
    BY <1>3, <1>8
  <2>3. MadeOwn(y)
    <3>1. \A i \in DOMAIN y.made : y.made[i] = reply.got
      BY <2>1
    <3>2. QED
      BY <1>4, <1>8, <2>1, <3>1 DEF MadeOwn, Own
  <2>4. Booked(y)
    BY <1>2, <2>1 DEF Common, Booked, Own
  <2> HIDE DEF y, x
  <2>5. Ready(r, y)
    BY <1>2, <1>5, <2>1, <2>3, <2>4, RestIsReady
  <2>6. TimeInv(x) => WithinBudget(y) /\ Due(y)
    BY <1>1, <1>2, <2>1, RestIsTimely
  <2>7. GroundInv(x) => Settled(y)
    <3>1. GroundInv(x) => x.call.route \notin AnsweringRoutes
      BY <1>1, <1>2, <1>8, OtherNodes
    <3>2. QED
      BY <2>1, <3>1, NothingToGround
  <2>8. QED
    BY <2>1, <2>2, <2>5, <2>6, <2>7 DEF GoesOn, x
<1>9. QED
  BY <1>6, <1>7, <1>8

LEMMA RetrievalErrorFacts == \A x : RetrievalErrors(x) \subseteq Errors
<1>1. EmbedResults(settings) \subseteq
        {"vector", "too few", "ProviderError", "unexpected", "ModelNotAvailableError"}
  <2>1. RoutingTable(settings).embed \in {"fake", "openai_compatible"}
    BY DEF RoutingTable
  <2>2. /\ Replies["fake"].embed = {"vector"}
        /\ Replies["openai_compatible"].embed
             = {"vector", "too few", "ProviderError", "unexpected"}
    BY DEF Replies, FakeReplies, OpenAIReplies
  <2>3. QED
    BY <2>1, <2>2 DEF EmbedResults
<1>2. QED
  BY <1>1, NamedErrors DEF RetrievalErrors

LEMMA RetrievedStep ==
    ASSUME IInv, NEW r \in Requests, Retrieved(r)
    PROVE  Ends(r) \/ GoesOn(r)
<1> DEFINE x == req[r]
           item == x.plan[1].item
           prompt == PromptOf[x.call.route]
           last == Len(x.spent)
           After(context) == [x EXCEPT !.spent[Len(x.spent)].found = context, !.plan = Tail(@)]
<1>1. /\ x.phase = "working" /\ x.plan[1].node \in {"retrieve", "search"}
      /\ \/ \E error \in RetrievalErrors(x) : Step(r, Failed(x, error), bucket)
         \/ \E context \in ContextsFor(x) :
               LET y == [x EXCEPT !.spent[Len(x.spent)].found = context, !.plan = Tail(@)]
               IN  IF x.plan[1].node = "search"
                   THEN IF Tripped({}, context)
                        THEN Step(r, Failed(y, "UnsafeContentError"), bucket)
                        ELSE Proceed(r, [y EXCEPT !.context = @ \cup context])
                   ELSE IF Abstains(prompt, context)
                   THEN Proceed(r, [y EXCEPT !.plan = Tail(@),
                                             !.made = Append(@, Abstention(prompt, item))])
                   ELSE Proceed(r, [y EXCEPT !.context = context])
  BY DEF Retrieved, Awaits
<1>2. /\ Ready(r, x) /\ Common(r, x) /\ x.plan # <<>> /\ x.call \in CallsOf[r]
      /\ PlanFits(x) /\ bucket \in Buckets /\ DOMAIN x = Fields
      /\ IsSeq(x.call.items) /\ (GroundInv(x) => InHand(x))
  BY <1>1, AwaitsFacts DEF Common
<1>3. x.call.route \in AIRoutes /\ x.call.route \notin CoreRoutes
  <2>1. x.call.route \notin OpenRoutes /\ x.call.route \notin CoreRoutes
    BY <1>1, <1>2 DEF PlanFits
  <2>2. QED
    BY <1>2, <2>1, CallFacts
<1>4. ASSUME NEW error \in RetrievalErrors(x), Step(r, Failed(x, error), bucket)
      PROVE  Ends(r) \/ GoesOn(r)
  BY <1>2, <1>4, RetrievalErrorFacts, FailsWith DEF TimeInv
<1>5. ASSUME NEW context,
             LET y == After(context)
             IN  IF x.plan[1].node = "search"
                 THEN IF Tripped({}, context)
                      THEN Step(r, Failed(y, "UnsafeContentError"), bucket)
                      ELSE Proceed(r, [y EXCEPT !.context = @ \cup context])
                 ELSE IF Abstains(prompt, context)
                 THEN Proceed(r, [y EXCEPT !.plan = Tail(@),
                                           !.made = Append(@, Abstention(prompt, item))])
                 ELSE Proceed(r, [y EXCEPT !.context = context])
      PROVE  Ends(r) \/ GoesOn(r)
  <2> DEFINE y == After(context)
             e == [x.spent[last] EXCEPT !.found = context]
             spent2 == [x.spent EXCEPT ![last] = e]
  <2>1. /\ DOMAIN y = Fields /\ y.plan = Tail(x.plan) /\ y.spent = spent2
        /\ y.phase = x.phase /\ y.status = x.status /\ y.left = x.left
        /\ y.call = x.call /\ y.token = x.token /\ y.tenant = x.tenant
        /\ y.since = x.since /\ y.age = x.age /\ y.kept = x.kept /\ y.made = x.made /\ y.session = x.session
    BY <1>2 DEF Fields
  <2>2. /\ Booked(y)
        /\ Len(y.spent) = Len(x.spent) /\ DOMAIN y.spent = DOMAIN x.spent
        /\ \A i \in DOMAIN x.spent : y.spent[i].payer = x.spent[i].payer
        /\ CameBack(x, y, context)
    <3>1. IsSeq(x.spent) /\ Booked(x)
      BY <1>2 DEF Common, Booked
    <3>2. /\ IsSeq(spent2) /\ DOMAIN spent2 = DOMAIN x.spent /\ Len(spent2) = Len(x.spent)
          /\ \A i \in DOMAIN x.spent : spent2[i] = IF i = last THEN e ELSE x.spent[i]
      <4> HIDE DEF e, last, x
      <4>1. QED
        BY <3>1, ExceptFacts
    <3>3. last \in DOMAIN x.spent =>
             /\ DOMAIN e = {"payer", "item", "found"}
             /\ e.payer = x.spent[last].payer /\ e.item = x.spent[last].item
             /\ e.found = context
      BY <3>1 DEF Booked
    <3>4. DOMAIN x.spent = 1..last /\ last = Len(x.spent)
      BY <3>1, SeqFacts
    <3> HIDE DEF spent2, e, y, last, x
    <3>5. CameBack(x, y, context)
      BY <2>1, <3>2, <3>3, <3>4 DEF CameBack
    <3>6. QED
      BY <2>1, <3>1, <3>2, <3>3, <3>5 DEF Booked, Own
  <2>3. MadeOwn(y)
    BY <1>3, <2>1 DEF MadeOwn
  <2>4. Ready(r, y) /\ Common(r, y)
    <3> HIDE DEF y, x
    <3>1. QED
      BY <1>2, <1>3, <2>1, <2>2, <2>3, RestIsReady DEF Ready
  <2>5. ASSUME TimeInv(x)
         PROVE  WithinBudget(y) /\ Due(y)
    <3> HIDE DEF y, x
    <3>1. x.left \in Left
      BY <1>2 DEF Common
    <3>2. Underway(x) /\ WithinBudget(x)
      BY <1>1, <2>5 DEF TimeInv
    <3>3. Due(y)
      BY <1>2, <2>1, <2>2, <3>1, <3>2, RestIsDue
    <3>4. WithinBudget(y)
      BY <2>1, <2>2, <3>2 DEF WithinBudget
    <3>5. QED
      BY <3>3, <3>4
  <2>6. ASSUME x.plan[1].node = "search", Tripped({}, context)
        PROVE  Ends(r) \/ GoesOn(r)
    <3>1. Step(r, Failed(y, "UnsafeContentError"), bucket)
      BY <1>5, <2>6
    <3> HIDE DEF y
    <3>2. QED
      BY <2>4, <2>5, <3>1, FailsWith, NamedErrors
  \* Remembering what has been retrieved changes nothing here.
  <2>7. ASSUME NEW kept
        PROVE  /\ Ready(r, [y EXCEPT !.context = kept])
               /\ TimeInv(x) => /\ WithinBudget([y EXCEPT !.context = kept])
                                /\ Due([y EXCEPT !.context = kept])
    <3> DEFINE z == [y EXCEPT !.context = kept]
    <3>1. /\ DOMAIN z = Fields /\ z.plan = y.plan /\ z.spent = y.spent
          /\ z.phase = y.phase /\ z.status = y.status /\ z.left = y.left
          /\ z.call = y.call /\ z.token = y.token /\ z.tenant = y.tenant
          /\ z.since = y.since /\ z.age = y.age /\ z.kept = y.kept /\ z.made = y.made /\ z.session = y.session
      BY <2>1 DEF Fields
    <3> HIDE DEF z, y, x
    <3>2. Common(r, z)
      BY <2>4, <3>1 DEF Common, Booked, MadeOwn, Own
    <3>3. PlanFits(z)
      BY <2>4, <3>1 DEF Ready, PlanFits, PlanOwn, Entitled, Own
    <3>4. Ready(r, z)
      BY <2>4, <3>1, <3>2, <3>3 DEF Ready
    <3>5. Due(y) => Due(z)
      BY <3>1 DEF Due, Clocked, PlainDue, PlainPlan, IdsDue, IdsPlan, AnalystDue, AnalystPlan,
                  Accounted
    <3>6. WithinBudget(y) => WithinBudget(z)
      BY <3>1 DEF WithinBudget
    <3>7. QED
      BY <2>5, <3>4, <3>5, <3>6 DEF z
  <2>8. ASSUME x.plan[1].node = "search", ~Tripped({}, context)
        PROVE  Ends(r) \/ GoesOn(r)
    <3>1. PICK kept : Proceed(r, [y EXCEPT !.context = kept])
      BY <1>5, <2>8
    <3>2. [y EXCEPT !.context = kept].call = x.call
      BY <2>1 DEF Fields
    <3> HIDE DEF y
    <3>3. GroundInv(x) => x.call.route \notin AnsweringRoutes
      BY <1>2, <2>8, OtherNodes
    <3>4. GroundInv(x) => Settled([y EXCEPT !.context = kept])
      BY <3>2, <3>3, NothingToGround
    <3>5. QED
      BY <2>7, <3>1, <3>2, <3>4 DEF GoesOn, x
  <2>9. ASSUME x.plan[1].node # "search", ~Abstains(prompt, context)
        PROVE  Ends(r) \/ GoesOn(r)
    <3> DEFINE z == [y EXCEPT !.context = context]
    <3>1. Proceed(r, z)
      BY <1>5, <2>9
    <3>2. /\ z.plan = Tail(x.plan) /\ z.made = x.made /\ z.call = x.call
          /\ z.tenant = x.tenant /\ z.spent = y.spent /\ z.context = context
      BY <2>1 DEF Fields
    <3>3. AtNode(x, "retrieve")
      BY <1>1, <1>2, <2>9 DEF AtNode
    <3>4. x.call.route \in CitingRoutes => context # {}
      BY <2>9, WhoAbstains DEF AnsweringRoutes
    <3>5. Ready(r, z) /\ (TimeInv(x) => WithinBudget(z) /\ Due(z))
      BY <2>7
    <3> HIDE DEF z, y, x
    <3>6. CameBack(x, z, z.context)
      BY <2>2, <3>2 DEF CameBack
    <3>7. GroundInv(x) => Settled(z)
      BY <1>2, <3>2, <3>3, <3>4, <3>6, RetrievedSettled
    <3>8. QED
      BY <3>1, <3>2, <3>5, <3>7 DEF GoesOn, x
  <2>10. ASSUME x.plan[1].node # "search", Abstains(prompt, context)
        PROVE  Ends(r) \/ GoesOn(r)
    <3> DEFINE z == [y EXCEPT !.plan = Tail(@), !.made = Append(@, Abstention(prompt, item))]
    <3>1. Proceed(r, z)
      BY <1>5, <2>10
    <3>2. /\ DOMAIN z = Fields /\ z.plan = Tail(y.plan) /\ z.spent = y.spent
          /\ z.phase = y.phase /\ z.status = y.status /\ z.left = y.left
          /\ z.call = y.call /\ z.token = y.token /\ z.tenant = y.tenant
          /\ z.since = y.since /\ z.age = y.age /\ z.kept = y.kept /\ z.session = y.session
      BY <2>1 DEF Fields
    <3>3. x.call.route \in OwnRoutes => y.plan # <<>>
      <4> SUFFICES ASSUME x.call.route \in OwnRoutes
                   PROVE  y.plan # <<>>
        OBVIOUS
      <4>1. IsSeq(x.plan) /\ Len(x.plan) > 1
        BY <1>1, <1>2, <2>10 DEF PlanFits, PlanOwn
      <4>2. IsSeq(y.plan) /\ Len(y.plan) = Len(x.plan) - 1 /\ Len(x.plan) \in Nat
        BY <1>2, <2>1, <4>1, TailFacts, SeqFacts
      <4> HIDE DEF y, x
      <4>3. QED
        BY <4>1, <4>2, SeqFacts
    <3>4. Booked(z) /\ MadeOwn(z)
      BY <1>3, <2>1, <2>4, <3>2 DEF Common, Booked, MadeOwn, Own
    <3>5. y.call.route \in AIRoutes /\ y.call.route \notin CoreRoutes /\ y.call = x.call
      BY <1>3, <2>1
    <3> HIDE DEF z, y, x
    <3>6. Ready(r, z)
      BY <2>4, <3>2, <3>3, <3>4, <3>5, RestIsReady
    <3>7. ASSUME TimeInv(x)
          PROVE  WithinBudget(z) /\ Due(z)
      <4>1. WithinBudget(y) /\ Due(y)
        BY <2>5, <3>7
      <4>2. WithinBudget(z)
        BY <3>2, <4>1 DEF WithinBudget
      <4>3. y.plan # <<>>
        BY <1>1, <1>2, <2>1, <2>10, <3>7, AbstainsLate DEF prompt
      <4>4. y.call \in CallsOf[r] /\ y.left \in Left
        BY <1>2, <2>1 DEF Common
      <4>5. Due(z)
        BY <3>2, <4>1, <4>3, <4>4, RestIsDue
      <4>6. QED
        BY <4>2, <4>5
    <3>8. ASSUME GroundInv(x)
          PROVE  Settled(z)
      <4> DEFINE answer == Abstention(prompt, item)
      <4>1. /\ z.plan = Tail(Tail(x.plan)) /\ z.made = Append(x.made, answer)
            /\ z.call = x.call /\ z.tenant = x.tenant /\ z.spent = y.spent
        BY <2>1, <3>2 DEF z, Fields
      <4>2. /\ answer.about = item /\ answer.citations = {} /\ ~answer.verified
            /\ answer.text = "abstention"
        BY AbstentionFacts
      <4> HIDE DEF answer
      <4>3. InHand(x) /\ AtNode(x, "retrieve")
        BY <1>1, <1>2, <2>10, <3>8 DEF AtNode
      <4>4. CASE x.call.route \notin AnsweringRoutes
        BY <4>1, <4>4, NothingToGround
      <4>5. CASE x.call.route \in AnsweringRoutes
        <5>1. x.call.route \in CitingRoutes /\ context = {}
          BY <2>10, <4>5, WhoAbstains DEF prompt
        <5>2. CameBack(x, z, {})
          BY <2>2, <4>1, <5>1 DEF CameBack
        <5>3. QED
          BY <1>2, <4>1, <4>2, <4>3, <5>1, <5>2, AbstainedSettled
      <4>6. QED
        BY <4>4, <4>5
    <3>9. QED
      BY <3>1, <3>2, <3>5, <3>6, <3>7, <3>8 DEF GoesOn, x
  <2>11. QED
    BY <2>6, <2>8, <2>9, <2>10
<1>6. QED
  BY <1>1, <1>4, <1>5

LEMMA CompletedStep ==
    ASSUME IInv, NEW r \in Requests, Completed(r)
    PROVE  Ends(r) \/ GoesOn(r)
<1> DEFINE x == req[r]
<1>1. /\ x.phase = "working" /\ x.plan[1].node \in {"generate", "narrate"}
      /\ \/ \E error \in Errors : Step(r, Failed(x, error), bucket)
         \/ \E text :
               IF (IF x.call.route = "remediate" THEN ValidationError(text) ELSE "none") # "none"
               THEN Step(r, Failed(x, IF x.call.route = "remediate" THEN ValidationError(text)
                                      ELSE "none"), bucket)
               ELSE Proceed(r, [x EXCEPT !.plan = Tail(@), !.context = {},
                                         !.made = Append(@, AnswerTo(x, text))])
  BY DEF Completed, Awaits, Errors
<1>2. /\ Ready(r, x) /\ Common(r, x) /\ x.plan # <<>> /\ x.call \in CallsOf[r]
      /\ PlanFits(x) /\ bucket \in Buckets /\ DOMAIN x = Fields
      /\ IsSeq(x.call.items) /\ (GroundInv(x) => InHand(x))
  BY <1>1, AwaitsFacts DEF Common
<1>3. x.call.route \in AIRoutes /\ x.call.route \notin CoreRoutes
  <2>1. x.call.route \notin OpenRoutes /\ x.call.route \notin CoreRoutes
    BY <1>1, <1>2 DEF PlanFits
  <2>2. QED
    BY <1>2, <2>1, CallFacts
<1>4. ASSUME NEW error \in Errors, Step(r, Failed(x, error), bucket)
      PROVE  Ends(r) \/ GoesOn(r)
  BY <1>2, <1>4, FailsWith DEF TimeInv
<1>5. \A text : ValidationError(text) # "none" => ValidationError(text) \in Errors
  BY NamedErrors DEF ValidationError
<1>6. ASSUME NEW text, x.call.route = "remediate" => ValidationError(text) = "none",
             Proceed(r, [x EXCEPT !.plan = Tail(@), !.context = {},
                                  !.made = Append(@, AnswerTo(x, text))])
      PROVE  Ends(r) \/ GoesOn(r)
  <2> DEFINE answer == AnswerTo(x, text)
             y == [x EXCEPT !.plan = Tail(@), !.context = {}, !.made = Append(@, answer)]
  <2>1. /\ DOMAIN y = Fields /\ y.plan = Tail(x.plan) /\ y.spent = x.spent
        /\ y.phase = x.phase /\ y.status = x.status /\ y.left = x.left
        /\ y.call = x.call /\ y.token = x.token /\ y.tenant = x.tenant
        /\ y.since = x.since /\ y.age = x.age /\ y.kept = x.kept /\ y.session = x.session
        /\ y.made = Append(x.made, answer)
    BY <1>2 DEF Fields
  <2>2. Proceed(r, y)
    BY <1>6
  <2>3. Booked(y) /\ MadeOwn(y)
    BY <1>2, <1>3, <2>1 DEF Common, Booked, MadeOwn, Own
  <2> HIDE DEF y, x
  <2>4. Ready(r, y)
    BY <1>2, <1>3, <2>1, <2>3, RestIsReady
  <2>5. TimeInv(x) => WithinBudget(y) /\ Due(y)
    BY <1>1, <1>2, <2>1, RestIsTimely
  <2>6. ASSUME GroundInv(x)
        PROVE  Settled(y)
    <3>1. CASE x.call.route \notin AnsweringRoutes
      BY <2>1, <3>1, NothingToGround
    <3>2. CASE x.call.route \in AnsweringRoutes
      <4>1. AtNode(x, "generate")
        BY <1>1, <1>2, <2>6, <3>2, OtherNodes DEF AtNode
      <4>2. WellMade(x, answer)
        BY <1>6, <3>2, AnswerFacts
      <4> HIDE DEF answer
      <4>3. /\ InHand(x) /\ IsSeq(x.call.items) /\ y.plan = Tail(x.plan)
            /\ y.made = Append(x.made, answer) /\ y.call = x.call /\ y.tenant = x.tenant
            /\ y.spent = x.spent
        BY <1>2, <2>1, <2>6
      <4>4. QED
        BY <4>1, <4>2, <4>3, CompletedSettled
    <3>3. QED
      BY <3>1, <3>2
  <2>7. QED
    BY <2>1, <2>2, <2>4, <2>5, <2>6 DEF GoesOn, x
<1>7. QED
  BY <1>1, <1>4, <1>5, <1>6

LEMMA ProbedStep ==
    ASSUME IInv, NEW r \in Requests, Probed(r)
    PROVE  Ends(r) \/ GoesOn(r)
<1>1. /\ req[r].phase = "working" /\ req[r].plan[1].node = "probe"
      /\ \E status \in {200, 503} : Step(r, Closed(req[r], status), bucket)
  BY DEF Probed, Awaits
<1>2. Common(r, req[r])
  BY <1>1, AwaitsFacts
<1>3. GroundInv(req[r]) => Delivered(req[r])
  BY <1>1, AwaitsFacts, OtherNodes, NothingToGround
<1>4. QED
  BY <1>1, <1>2, <1>3, StatusFacts DEF Ends, TimeInv

LEMMA TimedOutStep ==
    ASSUME IInv, NEW r \in Requests, TimedOut(r)
    PROVE  Ends(r) \/ GoesOn(r)
<1>1. PICK error \in {"WorkflowError", "DependencyUnavailableError", "ProviderTimeoutError",
                      "ProviderError"} :
        req[r].phase = "working" /\ Step(r, Failed(req[r], error), bucket)
  BY DEF TimedOut
<1>2. Common(r, req[r])
  BY <1>1, AwaitsFacts
<1>3. QED
  BY <1>1, <1>2, FailsWith, NamedErrors DEF TimeInv

\* The steps in which a request only gets to wait for something else: of what is
\* kept, the Core takes back what it was silent for when it sends.
LEMMA WaitingStep ==
    ASSUME IInv, NEW r \in Requests, Sending(r) \/ Stalled(r) \/ Embedded(r)
    PROVE  Waits(r)
<1> DEFINE x == req[r]
           node == x.plan[1].node
<1>1. PICK left, kept :
         /\ x.phase = "working" /\ Waiting(r, left, kept)
         /\ \/ /\ node \in {"fetch", "list"} /\ settings.core = "http" /\ x.left # NoLimit
               /\ left = NoLimit /\ kept = x.kept - (CoreTimeout - x.left)
            \/ /\ node \in {"fetch", "list"} /\ x.left = NoLimit
               /\ left = CoreTimeout /\ kept = x.kept
            \/ /\ node = "search" /\ x.left # NoLimit
               /\ left = NoLimit /\ kept = x.kept
  BY DEF Sending, Stalled, Embedded, AwaitsCore, Awaits, Embedding
<1>2. /\ Ready(r, x) /\ Common(r, x) /\ x.plan # <<>> /\ x.call \in CallsOf[r]
      /\ PlanFits(x) /\ DOMAIN x = Fields /\ DOMAIN req = Requests
  BY <1>1, AwaitsFacts DEF Common, IInv, RequestsInv
<1> DEFINE y == [x EXCEPT !.left = left, !.kept = kept]
<1>3. /\ CoreTimeout \in Nat /\ EmbedLimit \in Nat /\ x.kept \in Int
      /\ x.left # NoLimit => x.left \in Nat
      /\ left \in Left /\ CoreTimeout # NoLimit
  <2>1. /\ NodeTimeout \in Nat /\ CoreTimeout \in Nat /\ EmbedLimit \in Nat
        /\ CompletionLimit \in Nat
    BY ServiceAssumption
  <2>2. x.left \in Left /\ x.kept \in Int
    BY <1>2 DEF Common
  <2>3. QED
    BY <1>1, <2>1, <2>2 DEF Left, NoLimit
<1>4. kept \in Int
  BY <1>1, <1>3
<1>5. Reclocked(x, y) /\ y.left = left /\ y.kept = kept /\ y.age = x.age
  BY <1>2, <1>3, <1>4 DEF Common, Fields, Reclocked
<1>6. Step(r, y, bucket) /\ y.phase = "working"
  <2>1. req' = [req EXCEPT ![r] = y]
    BY <1>1, <1>2 DEF Waiting
  <2>2. QED
    BY <1>1, <1>5, <2>1 DEF Waiting, Step, Reclocked
<1> HIDE DEF x, y, node
<1>7. RequestInv(r, y)
  BY <1>2, <1>5, ReclockedIs
<1>8. GroundInv(x) => GroundInv(y)
  BY <1>1, <1>5, ReclockedGround
<1>9. ASSUME TimeInv(x)
      PROVE  TimeInv(y)
  <2>1. Timed(x)
    BY <1>1, <1>9 DEF TimeInv, Underway
  <2>2. x.call.route \notin OpenRoutes
    BY <1>1, <1>2 DEF PlanFits, node
  <2>3. y.plan = x.plan /\ y.call = x.call
    BY <1>5 DEF Reclocked
  <2>4. /\ kept \in Nat /\ kept <= x.kept
        /\ kept + Remains(y) <= x.kept + Remains(x)
        /\ left = NoLimit \/ left = CoreTimeout
        /\ left = CoreTimeout => kept >= Limit(node) - left
    <3>1. CASE /\ node \in {"fetch", "list"} /\ settings.core = "http" /\ x.left # NoLimit
               /\ left = NoLimit /\ kept = x.kept - (CoreTimeout - x.left)
      <4>1. Limit(node) = CoreTimeout
        BY <3>1 DEF Limit, Immediate
      <4>2. x.left <= CoreTimeout /\ x.kept >= CoreTimeout - x.left
        BY <2>1, <3>1, <4>1 DEF Timed, node
      <4>3. Remains(x) = x.left /\ Remains(y) = CoreTimeout
        BY <1>5, <2>3, <3>1 DEF Remains, node
      <4>4. QED
        BY <1>3, <3>1, <4>2, <4>3
    <3>2. CASE /\ node \in {"fetch", "list"} /\ x.left = NoLimit
               /\ left = CoreTimeout /\ kept = x.kept
      <4>1. Limit(node) \in {0, CoreTimeout}
        BY <3>2 DEF Limit
      <4>2. x.kept \in Nat
        BY <2>1 DEF Timed, Clocked
      <4>3. Remains(x) = CoreTimeout /\ Remains(y) = CoreTimeout
        BY <1>3, <1>5, <2>3, <3>2 DEF Remains, node
      <4>4. QED
        BY <1>3, <3>2, <4>1, <4>2, <4>3
    <3>3. CASE /\ node = "search" /\ x.left # NoLimit
               /\ left = NoLimit /\ kept = x.kept
      <4>1. x.kept \in Nat
        BY <2>1 DEF Timed, Clocked
      <4>2. Remains(x) = x.left /\ Remains(y) = 0
        BY <1>5, <2>3, <3>3 DEF Remains, node
      <4>3. QED
        BY <1>3, <3>3, <4>1, <4>2 DEF NoLimit
    <3>4. QED
      BY <1>1, <3>1, <3>2, <3>3 DEF x, node
  <2>5. Timed(y)
    <3>1. Clocked(y)
      <4>1. x.age \in Nat /\ WallClock \in Nat
        BY <1>2, LimitFacts DEF Common
      <4>2. QED
        BY <1>3, <1>5, <2>1, <2>4, <4>1 DEF Timed, Clocked
    <3>2. y.plan[1].node = node /\ node \in {"fetch", "list", "search"}
      BY <1>1, <2>3 DEF node
    <3>3. left # NoLimit => left = CoreTimeout /\ kept >= Limit(node) - left
      BY <2>4
    <3>4. QED
      BY <1>3, <1>5, <2>2, <2>3, <3>1, <3>2, <3>3 DEF Timed
  <2>6. QED
    BY <1>1, <1>2, <1>5, <1>9, <2>4, <2>5, ReclockedTime DEF x
<1>10. QED
  BY <1>5, <1>6, <1>7, <1>8, <1>9 DEF Waits, Reclocked, x

-----------------------------------------------------------------------------
\* A step of a handler, with what it leaves alone and what it counts.

\* What the steps of a handler do, whichever of them it is.
HandlesAs(r, n, b) ==
    /\ Step(r, n, b) /\ Moves(r, req[r].call, n, b)
    /\ req[r].phase \in {"arrived", "working"}
    /\ req[r].call \in CallsOf[r]
    /\ tokens' \subseteq TenantTokens
    /\ UNCHANGED <<settings, now>>

LEMMA HandleOutcome ==
    ASSUME IInv, NEW r \in Requests, Handle(r)
    PROVE  Ends(r) \/ GoesOn(r) \/ Waits(r)
BY TooLargeStep, AdmitStep, FetchedStep, RetrievedStep, CompletedStep, ProbedStep,
   TimedOutStep, WaitingStep DEF Handle

LEMMA HandleIs ==
    ASSUME IInv, NEW r \in Requests, Handle(r)
    PROVE  \E n, b : HandlesAs(r, n, b)
<1>1. tokens \subseteq TenantTokens
  BY DEF IInv
<1>2. \E n, b : Step(r, n, b) /\ Moves(r, req[r].call, n, b)
  BY HandleOutcome, OutcomeIs DEF IInv
<1>3. UNCHANGED <<settings, now>>
  BY DEF Handle, TooLarge, Admit, Sending, Stalled, Embedded, Waiting, Fetched, Retrieved,
         Completed, Probed, TimedOut
<1>4. tokens' \subseteq TenantTokens
  BY <1>1, AdmitStep DEF Handle, TooLarge, Sending, Stalled, Embedded, Waiting, Fetched,
                         Retrieved, Completed, Probed, TimedOut
<1>5. req[r].phase \in {"arrived", "working"}
  BY DEF Handle, TooLarge, Admit, Sending, Stalled, Embedded, AwaitsCore, Fetched, Retrieved,
         Completed, Probed, TimedOut, Awaits
<1>6. req[r].call \in CallsOf[r]
  BY <1>5, AwaitsFacts DEF IInv, RequestsInv, RequestInv
<1>7. QED
  BY <1>2, <1>3, <1>4, <1>5, <1>6 DEF HandlesAs

\* The invariant of a request mentions the settings, which never change.
LEMMA InvStays ==
    ASSUME NEW r \in Requests, NEW x, RequestInv(r, x), settings' = settings
    PROVE  RequestInv(r, x)'
BY DEF RequestInv, Common, Ready, PlanFits, PlanOwn, Entitled, Booked, MadeOwn, Own

\* The bag of the metrics.
LEMMA CountedFacts ==
    ASSUME IInv, NEW call, call.route \in Routes, NEW status \in Statuses
    PROVE  LET after == Counted(metrics, call, status)
           IN  IsABag(after) /\ DOMAIN after \subseteq Routes \X Statuses
<1> DEFINE e == <<RouteLabel(call, status), status>>
<1>1. e \in Routes \X Statuses
  BY DEF RouteLabel, Routes
<1>2. Counted(metrics, call, status) = metrics (+) SetToBag({e})
  BY DEF Counted
<1>3. metrics \in [DOMAIN metrics -> {n \in Nat : n > 0}] /\ DOMAIN metrics \subseteq Routes \X Statuses
  BY DEF IInv, IsABag
<1> HIDE DEF e
<1>4. /\ DOMAIN (metrics (+) SetToBag({e})) \subseteq DOMAIN metrics \cup {e}
      /\ metrics (+) SetToBag({e}) \in [DOMAIN (metrics (+) SetToBag({e})) -> {n \in Nat : n > 0}]
  BY <1>3 DEF (+), SetToBag
<1>5. QED
  BY <1>1, <1>2, <1>3, <1>4 DEF IsABag

-----------------------------------------------------------------------------
LEMMA InitIInv == Init => IInv
<1> SUFFICES ASSUME Init
             PROVE  IInv
  OBVIOUS
<1>1. /\ settings \in Deployments /\ now \in 0..MaxTime /\ bucket \in Buckets
      /\ tokens \subseteq TenantTokens
  <2>1. MaxTime \in Nat /\ Allowance \in Nat /\ IssuedTokens \subseteq TenantTokens
    BY ServiceAssumption
  <2>2. 0 \in 0..MaxTime /\ Allowance \in 0..Allowance
    BY <2>1
  <2>3. bucket \in Buckets
    BY <2>2 DEF Init, Buckets
  <2>4. QED
    BY <2>1, <2>2, <2>3 DEF Init
<1>2. IsABag(metrics) /\ DOMAIN metrics = {}
  BY DEF Init, EmptyBag, SetToBag, IsABag
<1>3. /\ DOMAIN Fresh = Fields /\ Fresh.call = NoCall /\ Fresh.tenant = Nobody
      /\ Fresh.age = 0 /\ Fresh.kept = 0 /\ Fresh.left = 0 /\ Fresh.spent = <<>> /\ Fresh.made = <<>>
      /\ Fresh.phase = "idle" /\ Fresh.status = 0 /\ Fresh.plan = <<>>
  BY DEF Fresh, Fields
<1>4. Booked(Fresh) /\ MadeOwn(Fresh)
  BY <1>3, TupleFacts DEF Booked, MadeOwn
<1>5. \A r \in Requests : RequestInv(r, Fresh)
  BY <1>3, <1>4, LimitFacts DEF RequestInv, Common
<1>6. DOMAIN req = Requests /\ \A r \in Requests : req[r] = Fresh
  BY DEF Init
<1>7. QED
  BY <1>1, <1>2, <1>5, <1>6 DEF IInv, RequestsInv

LEMMA HandleInv ==
    ASSUME IInv, NEW r \in Requests, Handle(r)
    PROVE  IInv'
<1>1. PICK n, b : HandlesAs(r, n, b)
  BY HandleIs
<1>2. /\ req' = [req EXCEPT ![r] = n] /\ bucket' = b
      /\ metrics' = IF n.phase = "done" THEN Counted(metrics, req[r].call, n.status)
                    ELSE metrics
      /\ RequestInv(r, n) /\ b \in Buckets /\ tokens' \subseteq TenantTokens
      /\ settings' = settings /\ now' = now
      /\ req[r].call \in CallsOf[r]
  BY <1>1 DEF HandlesAs, Step, Moves
<1>3. IsABag(metrics') /\ DOMAIN metrics' \subseteq Routes \X Statuses
  <2>1. n.phase = "done" => n.status \in Statuses
    BY <1>2 DEF RequestInv
  <2>2. req[r].call.route \in Routes
    BY <1>2, CallFacts DEF Routes
  <2>3. QED
    BY <1>2, <2>1, <2>2, CountedFacts DEF IInv
<1>4. RequestsInv'
  <2>1. DOMAIN req' = Requests
    BY <1>2 DEF IInv, RequestsInv
  <2>2. ASSUME NEW q \in Requests
        PROVE  RequestInv(q, req[q])' 
    <3>1. PICK x : x = req'[q] /\ RequestInv(q, x)
      BY <1>2 DEF IInv, RequestsInv
    <3>2. RequestInv(q, x)'
      BY <1>2, <3>1, InvStays
    <3>3. QED
      BY <3>1, <3>2
  <2>3. QED
    BY <2>1, <2>2 DEF RequestsInv
<1>5. QED
  BY <1>2, <1>3, <1>4 DEF IInv, Buckets

LEMMA ArriveInv ==
    ASSUME IInv, NEW r \in Requests, Arrive(r)
    PROVE  IInv'
<1>1. PICK call \in CallsOf[r], token \in tokens :
         req' = [req EXCEPT ![r].phase = "arrived", ![r].call = call, ![r].token = token]
  BY DEF Arrive
<1>2. /\ req[r].phase = "idle" /\ UNCHANGED <<settings, now, bucket, tokens, metrics>>
      /\ token \in TenantTokens
  BY <1>1 DEF Arrive, IInv
<1> DEFINE y == [req[r] EXCEPT !.phase = "arrived", !.call = call, !.token = token]
<1>3. /\ DOMAIN req = Requests /\ RequestInv(r, req[r]) /\ Common(r, req[r])
      /\ req[r].spent = <<>> /\ req[r].made = <<>> /\ req[r].plan = <<>>
      /\ req[r].status = 0 /\ DOMAIN req[r] = Fields
  BY <1>2 DEF IInv, RequestsInv, RequestInv, Common
<1>4. req' = [req EXCEPT ![r] = y]
  BY <1>1, <1>3
<1>5. /\ DOMAIN y = Fields /\ y.phase = "arrived" /\ y.call = call /\ y.token = token
      /\ y.tenant = req[r].tenant /\ y.age = req[r].age /\ y.kept = req[r].kept /\ y.left = req[r].left
      /\ y.plan = <<>> /\ y.spent = <<>> /\ y.made = <<>> /\ y.status = 0
  BY <1>3 DEF Fields
<1> HIDE DEF y
<1>6. RequestInv(r, y)
  <2>1. Booked(y) /\ MadeOwn(y)
    BY <1>5, TupleFacts DEF Booked, MadeOwn
  <2>2. QED
    BY <1>2, <1>3, <1>5, <2>1 DEF RequestInv, Common
<1>7. RequestsInv'
  <2>1. DOMAIN req' = Requests
    BY <1>3, <1>4
  <2>2. ASSUME NEW q \in Requests
        PROVE  RequestInv(q, req[q])'
    <3>1. PICK x : x = req'[q] /\ RequestInv(q, x)
      BY <1>3, <1>4, <1>6 DEF IInv, RequestsInv
    <3>2. RequestInv(q, x)'
      BY <1>2, <3>1, InvStays
    <3>3. QED
      BY <3>1, <3>2
  <2>3. QED
    BY <2>1, <2>2 DEF RequestsInv
<1>8. QED
  BY <1>2, <1>7 DEF IInv, Buckets

\* What a tick makes of a request that is worked on.
Aged(x) ==
    [x EXCEPT !.left = IF @ > 0 THEN @ - 1 ELSE @,
              !.kept = IF Held(x) THEN @ ELSE @ + 1,
              !.age = IF @ < WallClock THEN @ + 1 ELSE @]

LEMMA AgedIs ==
    ASSUME NEW r \in Requests, NEW x, Common(r, x)
    PROVE  /\ Reclocked(x, Aged(x))
           /\ Aged(x).left = IF x.left > 0 THEN x.left - 1 ELSE x.left
           /\ Aged(x).kept = IF Held(x) THEN x.kept ELSE x.kept + 1
           /\ Aged(x).age = IF x.age < WallClock THEN x.age + 1 ELSE x.age
<1> DEFINE left == IF x.left > 0 THEN x.left - 1 ELSE x.left
           kept == IF Held(x) THEN x.kept ELSE x.kept + 1
           age == IF x.age < WallClock THEN x.age + 1 ELSE x.age
           y == Aged(x)
<1>1. DOMAIN x = Fields /\ x.kept \in Int /\ x.age \in 0..WallClock /\ x.left \in Left
  BY DEF Common
<1>2. left \in Left /\ age \in 0..WallClock
  BY <1>1, LimitFacts
<1>3. kept \in Int
  BY <1>1
<1>4. /\ DOMAIN y = Fields /\ y.left = left /\ y.kept = kept /\ y.age = age
      /\ y.phase = x.phase /\ y.call = x.call /\ y.token = x.token /\ y.tenant = x.tenant
      /\ y.since = x.since /\ y.plan = x.plan /\ y.context = x.context
      /\ y.session = x.session /\ y.made = x.made /\ y.spent = x.spent /\ y.status = x.status
  BY <1>1 DEF Aged, Fields
<1> HIDE DEF left, kept, age, y
<1>5. Reclocked(x, y)
  BY <1>2, <1>3, <1>4 DEF Reclocked
<1>6. QED
  BY <1>4, <1>5 DEF left, kept, age, y

LEMMA TickIs ==
    ASSUME Tick, NEW r \in Requests
    PROVE  req'[r] = IF req[r].phase # "working" THEN req[r] ELSE Aged(req[r])
BY DEF Tick, Aged

\* Time passes: what is ready stays ready.
LEMMA TickInv ==
    ASSUME IInv, Tick
    PROVE  IInv'
<1>1. /\ DOMAIN req' = Requests
      /\ now' = IF now < MaxTime THEN now + 1 ELSE now
      /\ bucket' = Refilled(bucket)
      /\ settings' = settings /\ tokens' = tokens /\ metrics' = metrics
  BY DEF Tick
<1>2. now' \in 0..MaxTime
  <2>1. MaxTime \in Nat /\ now \in 0..MaxTime
    BY ServiceAssumption DEF IInv
  <2>2. now' = IF now < MaxTime THEN now + 1 ELSE now
    BY <1>1
  <2>3. QED
    BY <2>1, <2>2
<1>3. bucket' \in Buckets
  <2>1. bucket \in [Tenants \cup {Platform} -> 0..Allowance] /\ Allowance \in Nat
    BY ServiceAssumption DEF IInv, Buckets
  <2>2. bucket' = [t \in DOMAIN bucket |->
                     IF bucket[t] < Allowance THEN bucket[t] + 1 ELSE bucket[t]]
    BY <1>1 DEF Refilled
  <2>3. \A t \in Tenants \cup {Platform} :
           (IF bucket[t] < Allowance THEN bucket[t] + 1 ELSE bucket[t]) \in 0..Allowance
    BY <2>1
  <2>4. DOMAIN bucket = Tenants \cup {Platform}
    BY <2>1
  <2>5. QED
    BY <2>2, <2>3, <2>4 DEF Buckets
<1>4. ASSUME NEW q \in Requests
      PROVE  RequestInv(q, req'[q])
  <2>1. RequestInv(q, req[q]) /\ Common(q, req[q])
    BY DEF IInv, RequestsInv, RequestInv
  <2>2. req[q].phase = "working" => RequestInv(q, Aged(req[q]))
    BY <2>1, AwaitsFacts, AgedIs, ReclockedIs
  <2>3. QED
    BY <2>1, <2>2, TickIs
<1>5. RequestsInv'
  <2>1. DOMAIN req' = Requests
    BY <1>1
  <2>2. ASSUME NEW q \in Requests
        PROVE  RequestInv(q, req[q])'
    <3>1. PICK x : x = req'[q] /\ RequestInv(q, x)
      BY <1>4
    <3>2. RequestInv(q, x)'
      BY <1>1, <3>1, InvStays
    <3>3. QED
      BY <3>1, <3>2
  <2>3. QED
    BY <2>1, <2>2 DEF RequestsInv
<1>6. QED
  BY <1>1, <1>2, <1>3, <1>5 DEF IInv

LEMMA NextIInv == IInv /\ [Next]_vars => IInv'
<1> SUFFICES ASSUME IInv, [Next]_vars
             PROVE  IInv'
  OBVIOUS
<1>1. ASSUME UNCHANGED vars
      PROVE  IInv'
  <2>1. ASSUME NEW q \in Requests
        PROVE  RequestInv(q, req[q])'
    <3>1. PICK x : x = req'[q] /\ RequestInv(q, x)
      BY <1>1 DEF IInv, RequestsInv, vars
    <3>2. RequestInv(q, x)'
      BY <1>1, <3>1, InvStays DEF vars
    <3>3. QED
      BY <3>1, <3>2
  <2>2. QED
    BY <1>1, <2>1 DEF IInv, RequestsInv, vars, Buckets
<1>2. QED
  BY <1>1, TickInv, ArriveInv, HandleInv DEF Next

LEMMA Inductive == Spec => []IInv
<1>1. Init => IInv
  BY InitIInv
<1>2. IInv /\ [Next]_vars => IInv'
  BY NextIInv
<1>3. QED
  BY <1>1, <1>2, PTL DEF Spec

-----------------------------------------------------------------------------
\* The state keeps its types: in particular a request has a status if and only
\* if it is done, and something left to do if and only if it is being worked on,
\* so that no handler is ever stuck without a node to wait for and none goes on
\* after its response (app.py, errors.py, the routers).
THEOREM TypeCorrect == Spec => []TypeOK
<1>1. IInv => TypeOK
  <2> SUFFICES ASSUME IInv
               PROVE  TypeOK
    OBVIOUS
  <2>1. TenantTokens \subseteq Token
    BY DEF TenantTokens
  <2>2. 0 \notin Statuses
    BY StatusFacts
  <2>3. ASSUME NEW r \in Requests
        PROVE  LET x == req[r]
               IN  /\ x.phase \in {"idle", "arrived", "working", "done"}
                   /\ x.call \in CallsOf[r] \cup {NoCall}
                   /\ x.tenant \in Tenants \cup {Nobody}
                   /\ x.age \in 0..WallClock /\ x.kept \in Int
                   /\ x.left \in {NoLimit} \cup 0..(NodeTimeout + CoreTimeout + EmbedLimit
                                                    + CompletionLimit)
                   /\ (x.phase = "done") <=> (x.status \in Statuses)
                   /\ (x.phase = "working") <=> (x.plan # <<>>)
    BY <2>2 DEF IInv, RequestsInv, RequestInv, Common, Left
  <2>4. QED
    BY <2>1, <2>3 DEF IInv, TypeOK, Buckets
<1>2. QED
  BY <1>1, Inductive, PTL

\* Nothing is spent for a request that was not entitled to it from the start,
\* and what is spent is on the account of its own tenant or of the platform and
\* about a finding of its own tenant, also when the Core hands out another's
\* (get_auth_context, _assert_tenant, HttpCoreClient, GatewayEmbedder).
THEOREM EntitledOnly == Spec => []SpendingIsEntitled
<1>1. IInv => SpendingIsEntitled
  <2> SUFFICES ASSUME IInv, NEW r \in Requests
               PROVE  LET x == req[r]
                          Mine(f) == f.tenant = x.tenant
                      IN  /\ x.phase = "working" /\ x.spent # <<>> => Entitled(x)
                          /\ \A i \in DOMAIN x.spent :
                                /\ x.spent[i].payer \in {x.tenant, Platform}
                                /\ x.call.route \in {"enrich/by-ids", "map"} =>
                                      Mine(x.spent[i].item)
                          /\ x.call.route \in CoreRoutes =>
                                \A i \in DOMAIN x.made : \A f \in x.made[i] : Mine(f)
    BY DEF SpendingIsEntitled, Entitled, Own
  <2> DEFINE x == req[r]
  <2>1. Common(r, x) /\ (x.phase = "working" => Ready(r, x))
    BY DEF IInv, RequestsInv, RequestInv
  <2>2. ASSUME x.phase = "working", x.spent # <<>>
        PROVE  Entitled(x)
    <3>1. x.call \in CallsOf[r] /\ PlanFits(x)
      BY <2>1, <2>2 DEF Ready
    <3>2. x.call.route \in AIRoutes
      BY <2>2, <3>1, CallFacts DEF PlanFits
    <3>3. QED
      BY <3>1, <3>2 DEF PlanFits
  <2>3. QED
    BY <2>1, <2>2 DEF Common, Booked, MadeOwn, Own, OwnRoutes
<1>2. QED
  BY <1>1, Inductive, PTL

-----------------------------------------------------------------------------
\* The exchange of the clients with the service, seen from outside.

AnswerOf(x) ==
    IF x.phase = "idle" THEN 0 ELSE IF x.phase = "done" THEN x.status
    ELSE IF Held(x) THEN 2 ELSE 1
RouteOf(x) == IF UnderWay(x) THEN x.call.route ELSE NoCall.route
Answers == [r \in Requests |-> AnswerOf(req[r])]
RoutesTaken == [r \in Requests |-> RouteOf(req[r])]

Received(r) ==
    /\ Answers[r] = 0 /\ UNCHANGED metrics
    /\ \E a \in {1, 2} : Answers' = [Answers EXCEPT ![r] = a]
    /\ \E route \in Routes : RoutesTaken' = [RoutesTaken EXCEPT ![r] = route]
Turned(r) ==
    /\ Answers[r] \in {1, 2} /\ UNCHANGED <<RoutesTaken, metrics>>
    /\ \E a \in {1, 2} : Answers' = [Answers EXCEPT ![r] = a]
Responded(r, status) ==
    /\ Answers[r] \in {1, 2}
    /\ Answers' = [Answers EXCEPT ![r] = status]
    /\ RoutesTaken' = [RoutesTaken EXCEPT ![r] = NoCall.route]
    /\ metrics' = metrics (+) SetToBag({<<IF status \in {413} THEN "raw path" ELSE RoutesTaken[r],
                                         status>>})

LEMMA MappedIs ==
    /\ E!Init <=> /\ Answers = [r \in Requests |-> 0] /\ metrics = EmptyBag
                  /\ RoutesTaken = [r \in Requests |-> NoCall.route]
    /\ \A r \in Requests :
          /\ Received(r) \/ Turned(r) => E!Next
          /\ \A status \in Statuses : Responded(r, status) => E!Next
    /\ UNCHANGED <<Answers, RoutesTaken, metrics>> => UNCHANGED E!vars
<1>1. E!Init <=> /\ Answers = [r \in Requests |-> 0] /\ metrics = EmptyBag
                 /\ RoutesTaken = [r \in Requests |-> NoCall.route]
  BY DEF E!Init, E!Absent, E!EmptyBag, E!SetToBag, EmptyBag, SetToBag, Answers, AnswerOf,
         RoutesTaken, RouteOf
<1>2. ASSUME NEW r \in Requests
      PROVE  Received(r) => E!Receive(r)
  BY DEF Received, E!Receive, E!Absent, E!Waiting, E!Held, Answers, AnswerOf, RoutesTaken, RouteOf
<1>3. ASSUME NEW r \in Requests
      PROVE  Turned(r) => E!Turn(r)
  BY DEF Turned, E!Turn, E!Waiting, E!Held, Answers, AnswerOf, RoutesTaken, RouteOf
<1>4. ASSUME NEW r \in Requests, NEW status \in Statuses
      PROVE  Responded(r, status) => E!Respond(r)
  BY DEF Responded, E!Respond, E!Label, E!Waiting, E!Held, E!(+), E!SetToBag, (+), SetToBag,
         Answers, AnswerOf, RoutesTaken, RouteOf
<1>5. UNCHANGED <<Answers, RoutesTaken, metrics>> => UNCHANGED E!vars
  BY DEF E!vars, Answers, AnswerOf, RoutesTaken, RouteOf
<1>6. QED
  BY <1>1, <1>2, <1>3, <1>4, <1>5 DEF E!Next

LEMMA MappedNext ==
    /\ Answers' = [r \in Requests |-> AnswerOf(req'[r])]
    /\ RoutesTaken' = [r \in Requests |-> RouteOf(req'[r])]
BY DEF Answers, AnswerOf, RoutesTaken, RouteOf, UnderWay, Held, HasBody

LEMMA HandleResponds ==
    ASSUME IInv, NEW r \in Requests, Handle(r)
    PROVE  [E!Next]_(E!vars)
<1>1. PICK n, b : HandlesAs(r, n, b)
  BY HandleIs
<1>2. /\ req' = [req EXCEPT ![r] = n]
      /\ metrics' = IF n.phase = "done" THEN Counted(metrics, req[r].call, n.status)
                    ELSE metrics
      /\ RequestInv(r, n) /\ n.phase \in {"working", "done"}
      /\ n.phase = "working" => n.call = req[r].call
      /\ req[r].phase \in {"arrived", "working"}
  BY <1>1 DEF HandlesAs, Step, Moves
<1>3. DOMAIN req = Requests
  BY DEF IInv, RequestsInv
<1>4. /\ Answers[r] \in {1, 2} /\ Answers' = [Answers EXCEPT ![r] = AnswerOf(n)]
      /\ RoutesTaken[r] = req[r].call.route
      /\ RoutesTaken' = [RoutesTaken EXCEPT ![r] = RouteOf(n)]
  BY <1>2, <1>3 DEF Answers, AnswerOf, RoutesTaken, RouteOf, UnderWay, Held
<1>5. ASSUME n.phase = "working"
      PROVE  Turned(r)
  <2>1. AnswerOf(n) \in {1, 2} /\ RouteOf(n) = req[r].call.route /\ metrics' = metrics
    BY <1>2, <1>5 DEF AnswerOf, RouteOf, UnderWay
  <2>2. RoutesTaken' = RoutesTaken
    BY <1>4, <2>1 DEF RoutesTaken
  <2>3. QED
    BY <1>4, <2>1, <2>2 DEF Turned
<1>6. ASSUME n.phase = "done"
      PROVE  n.status \in Statuses /\ Responded(r, n.status)
  <2>1. /\ AnswerOf(n) = n.status /\ n.status \in Statuses
        /\ RouteOf(n) = NoCall.route
    BY <1>2, <1>6 DEF AnswerOf, RouteOf, UnderWay, RequestInv
  <2>2. RouteLabel(req[r].call, n.status)
           = IF n.status \in {413} THEN "raw path" ELSE RoutesTaken[r]
    BY <1>4 DEF RouteLabel
  <2>3. QED
    BY <1>2, <1>4, <1>6, <2>1, <2>2 DEF Counted, Responded
<1>7. QED
  BY <1>2, <1>5, <1>6, MappedIs

\* Every request is answered once: it is received, it is responded to in one
\* later step, and the counter of the status it gets and of its own route, or of
\* its path if it was refused before it was routed, goes up in that same step and
\* in no other.  This is the safety part of ImplementsExchange
\* (metrics_middleware.py, errors.py).
THEOREM AnsweredOnce == Spec => E!Init /\ [][E!Next]_(E!vars)
<1>1. Init => E!Init
  <2> SUFFICES ASSUME Init
               PROVE  /\ Answers = [r \in Requests |-> 0] /\ metrics = EmptyBag
                      /\ RoutesTaken = [r \in Requests |-> NoCall.route]
    BY MappedIs
  <2>1. \A r \in Requests : req[r].phase = "idle"
    BY DEF Init, Fresh
  <2>2. QED
    BY <2>1 DEF Init, Answers, AnswerOf, RoutesTaken, RouteOf, UnderWay
<1>2. IInv /\ [Next]_vars => [E!Next]_(E!vars)
  <2> SUFFICES ASSUME IInv, [Next]_vars
               PROVE  [E!Next]_(E!vars)
    OBVIOUS
  <2>1. DOMAIN req = Requests
    BY DEF IInv, RequestsInv
  <2>2. ASSUME Tick
        PROVE  UNCHANGED <<Answers, RoutesTaken, metrics>>
    <3>1. ASSUME NEW r \in Requests
          PROVE  AnswerOf(req'[r]) = AnswerOf(req[r]) /\ RouteOf(req'[r]) = RouteOf(req[r])
      <4> DEFINE x == req[r]
                 y == Aged(req[r])
      <4>1. Common(r, x)
        BY DEF IInv, RequestsInv, RequestInv
      <4>2. req'[r] = IF x.phase # "working" THEN x ELSE y
        BY <2>2, TickIs
      <4>3. Reclocked(x, y) /\ y.left = IF x.left > 0 THEN x.left - 1 ELSE x.left
        BY <4>1, AgedIs
      <4> HIDE DEF x, y
      <4>4. y.left = NoLimit <=> x.left = NoLimit
        BY <4>1, <4>3 DEF Common, Left, NoLimit
      <4>5. Held(y) <=> Held(x)
        BY <4>3, <4>4 DEF Held, Reclocked
      <4>6. AnswerOf(y) = AnswerOf(x) /\ RouteOf(y) = RouteOf(x)
        BY <4>3, <4>5 DEF AnswerOf, RouteOf, UnderWay, Reclocked
      <4>7. QED
        BY <4>2, <4>6 DEF x
    <3>2. metrics' = metrics
      BY <2>2 DEF Tick
    <3>3. QED
      BY <3>1, <3>2, MappedNext DEF Answers, RoutesTaken
  <2>3. ASSUME NEW r \in Requests, Arrive(r)
        PROVE  Received(r)
    <3>1. PICK call \in CallsOf[r], token \in tokens :
             req' = [req EXCEPT ![r].phase = "arrived", ![r].call = call, ![r].token = token]
      BY <2>3 DEF Arrive
    <3>2. DOMAIN req[r] = Fields /\ req[r].phase = "idle" /\ metrics' = metrics
      BY <2>3 DEF Arrive, IInv, RequestsInv, RequestInv, Common
    <3>3. /\ req'[r].phase = "arrived" /\ req'[r].call = call
          /\ \A q \in Requests \ {r} : req'[q] = req[q]
      BY <2>1, <3>1, <3>2 DEF Fields
    <3>4. AnswerOf(req'[r]) \in {1, 2} /\ RouteOf(req'[r]) = call.route /\ call.route \in Routes
      BY <3>3, CallFacts DEF AnswerOf, RouteOf, UnderWay, Routes
    <3>5. /\ Answers' = [Answers EXCEPT ![r] = AnswerOf(req'[r])]
          /\ RoutesTaken' = [RoutesTaken EXCEPT ![r] = RouteOf(req'[r])]
      BY <3>3, MappedNext DEF Answers, RoutesTaken
    <3>6. Answers[r] = 0
      BY <3>2 DEF Answers, AnswerOf
    <3>7. QED
      BY <3>2, <3>4, <3>5, <3>6 DEF Received
  <2>4. ASSUME UNCHANGED vars
        PROVE  UNCHANGED <<Answers, RoutesTaken, metrics>>
    BY <2>4 DEF vars, Answers, AnswerOf, RoutesTaken, RouteOf, UnderWay, Held
  <2>5. QED
    BY <2>2, <2>3, <2>4, MappedIs, HandleResponds DEF Next
<1>3. QED
  BY <1>1, <1>2, Inductive, PTL DEF Spec
-----------------------------------------------------------------------------
\* The time requests take.

\* A tick takes from what is left of a node what it adds to what is kept.
LEMMA TickTime ==
    ASSUME NEW r \in Requests, NEW x, TimeInv(x), x.phase = "working", x.left # 0,
           Common(r, x), x.call \in CallsOf[r]
    PROVE  TimeInv(Aged(x))
<1> DEFINE y == Aged(x)
<1>1. /\ Reclocked(x, y) /\ y.left = (IF x.left > 0 THEN x.left - 1 ELSE x.left)
      /\ y.kept = (IF Held(x) THEN x.kept ELSE x.kept + 1)
      /\ y.age = IF x.age < WallClock THEN x.age + 1 ELSE x.age
  BY AgedIs
<1> HIDE DEF y
<1>2. Timed(x)
  BY DEF TimeInv, Underway
<1>3. y.call = x.call /\ y.plan = x.plan
  BY <1>1 DEF Reclocked
<1>4. CoreTimeout \in Nat /\ WallClock \in Nat /\ x.age \in Nat /\ x.kept \in Nat
  BY <1>2, TimeConstants, LimitFacts DEF Common, Timed, Clocked
<1>5. CASE x.left = NoLimit
  <2>1. Held(x) /\ y.left = NoLimit /\ y.kept = x.kept
    BY <1>1, <1>2, <1>5 DEF Timed, Held, NoLimit
  <2>2. Timed(y)
    BY <1>1, <1>2, <1>3, <1>4, <1>5, <2>1 DEF Timed, Clocked
  <2>3. y.kept + Remains(y) <= x.kept + Remains(x)
    BY <1>3, <1>4, <1>5, <2>1 DEF Remains
  <2>4. QED
    BY <1>1, <2>2, <2>3, ReclockedTime DEF y
<1>6. CASE x.left # NoLimit
  <2>1. x.left \in Nat
    BY <1>4, <1>6, RemainsFacts DEF Remains, Common
  <2>2. ~Held(x) /\ y.left = x.left - 1 /\ y.kept = x.kept + 1 /\ y.left # NoLimit
    BY <1>1, <1>6, <2>1 DEF Held, NoLimit
  <2>3. Limit(x.plan[1].node) \in Int
    BY LimitFacts, TimeConstants DEF Left, NoLimit
  <2>4. Timed(y)
    <3>1. Clocked(y)
      <4>1. x.age \in 0..WallClock /\ (x.kept <= x.age \/ x.age = WallClock)
        BY <1>2 DEF Common, Timed, Clocked
      <4>2. x.age < WallClock \/ x.age = WallClock
        BY <1>4, <4>1
      <4>3. QED
        BY <1>1, <1>4, <2>2, <4>1, <4>2 DEF Clocked
    <3>2. y.plan[1].node \in {"fetch", "list"} =>
             y.left <= CoreTimeout /\ y.kept >= Limit(y.plan[1].node) - y.left
      <4>1. x.plan[1].node \in {"fetch", "list"} =>
               x.left <= CoreTimeout /\ x.kept >= Limit(x.plan[1].node) - x.left
        BY <1>2, <1>6 DEF Timed
      <4>2. QED
        BY <1>3, <1>4, <2>1, <2>2, <2>3, <4>1
    <3>3. y.call.route \notin OpenRoutes
      BY <1>2, <1>3, <1>6 DEF Timed
    <3>4. QED
      BY <2>2, <3>1, <3>2, <3>3 DEF Timed
  <2>5. y.kept + Remains(y) <= x.kept + Remains(x)
    BY <1>4, <1>6, <2>1, <2>2 DEF Remains
  <2>6. QED
    BY <1>1, <2>4, <2>5, ReclockedTime DEF y
<1>7. QED
  BY <1>5, <1>6

\* The settings decide on the limits, and never change.
LEMMA TimeStays ==
    ASSUME NEW x, TimeInv(x), settings' = settings
    PROVE  TimeInv(x)'
BY DEF TimeInv, WithinBudget, Underway, Timed, Clocked, Limit, Immediate, Remains,
       PlainUnderway, PlainPlan, IdsUnderway, IdsPlan, AnalystUnderway, AnalystPlan, Accounted

LEMMA TimesInductive ==
    /\ Init => TimesInv
    /\ IInv /\ TimesInv /\ [Next]_vars => TimesInv'
<1>1. Init => TimesInv
  <2> SUFFICES ASSUME Init, NEW r \in Requests
               PROVE  TimeInv(req[r])
    BY DEF TimesInv
  <2>1. /\ req[r].phase = "idle" /\ req[r].age = 0 /\ req[r].session = OpenSession
        /\ req[r].kept = 0 /\ req[r].call = NoCall
    BY DEF Init, Fresh
  <2>2. QED
    BY <2>1 DEF TimeInv, WithinBudget, NoCall
<1>2. ASSUME IInv, TimesInv, [Next]_vars
      PROVE  TimesInv'
  <2>1. DOMAIN req = Requests /\ \A r \in Requests : Common(r, req[r]) /\ TimeInv(req[r])
    BY <1>2 DEF IInv, RequestsInv, RequestInv, TimesInv
  <2>2. ASSUME Tick, NEW r \in Requests
        PROVE  TimeInv(req'[r])
    <3>1. req[r].phase = "working" => TimeInv(Aged(req[r]))
      BY <1>2, <2>1, <2>2, AwaitsFacts, TickTime DEF Tick
    <3>2. QED
      BY <2>1, <2>2, <3>1, TickIs
  <2>3. ASSUME NEW r \in Requests, Arrive(r), NEW q \in Requests
        PROVE  TimeInv(req'[q])
    <3>1. PICK call, token :
             req' = [req EXCEPT ![r].phase = "arrived", ![r].call = call, ![r].token = token]
      BY <2>3 DEF Arrive
    <3>2. req[r].phase = "idle" /\ req[r].spent = <<>> /\ DOMAIN req[r] = Fields
      BY <1>2, <2>1, <2>3 DEF Arrive, IInv, RequestsInv, RequestInv, Common
    <3>3. /\ req'[r].phase = "arrived" /\ req'[r].age = req[r].age /\ req'[r].kept = req[r].kept
          /\ req'[r].session = req[r].session /\ req'[r].spent = <<>>
      BY <2>1, <3>1, <3>2 DEF Fields
    <3>4. TimeInv(req'[r])
      BY <2>1, <3>2, <3>3 DEF TimeInv, WithinBudget
    <3>5. q # r => req'[q] = req[q]
      BY <2>1, <3>1
    <3>6. QED
      BY <2>1, <3>4, <3>5
  <2>4. ASSUME NEW r \in Requests, Handle(r), NEW q \in Requests
        PROVE  TimeInv(req'[q])
    <3>1. PICK n, b : Step(r, n, b) /\ TimeInv(n)
      BY <1>2, <2>1, <2>4, HandleOutcome, OutcomeIs DEF IInv
    <3>2. req' = [req EXCEPT ![r] = n]
      BY <3>1 DEF Step
    <3>3. QED
      BY <2>1, <3>1, <3>2
  <2>5. settings' = settings
    BY <1>2, HandleIs DEF Next, Tick, Arrive, HandlesAs, vars
  <2>6. ASSUME NEW q \in Requests
        PROVE  TimeInv(req[q])'
    <3>1. PICK x : x = req'[q] /\ TimeInv(x)
      BY <1>2, <2>1, <2>2, <2>3, <2>4 DEF Next, vars
    <3>2. TimeInv(x)'
      BY <2>5, <3>1, TimeStays
    <3>3. QED
      BY <3>1, <3>2
  <2>7. QED
    BY <2>6 DEF TimesInv
<1>3. QED
  BY <1>1, <1>2

\* A request is through within the limits of the nodes of its route, the time not
\* counted for which it is held up by what has no limit: a Core that keeps sending,
\* and pgvector asked by a tool or by the readiness probe.  The risk analyst makes
\* no more searches than its budget has (traced_node, ToolSession.call, correlate).
THEOREM TimeIsBounded == Spec => []AnsweredInTime
<1>1. IInv /\ TimesInv => AnsweredInTime
  <2> SUFFICES ASSUME IInv, TimesInv, NEW r \in Requests
               PROVE  /\ req[r].phase = "working" =>
                            req[r].kept \in 0..LongestOf(req[r].call)
                      /\ WithinBudget(req[r])
    BY DEF AnsweredInTime, WithinBudget
  <2> DEFINE x == req[r]
  <2>1. TimeInv(x)
    BY DEF TimesInv
  <2>2. ASSUME x.phase = "working"
        PROVE  x.kept \in 0..LongestOf(x.call)
    <3>1. x.call \in CallsOf[r] /\ Common(r, x) /\ Underway(x)
      BY <2>1, <2>2, AwaitsFacts DEF TimeInv
    <3>2. LongestOf(x.call) \in Nat
      BY <3>1, LongestFacts
    <3> DEFINE m == Len(x.plan)
               wait == Remains(x)
    <3>3. m \in Nat /\ m > 0 /\ x.kept \in Nat /\ wait \in Nat
      BY <3>1, SeqFacts, RemainsFacts DEF Underway, Timed, Clocked, Common
    <3>4. SUFFICES x.kept <= LongestOf(x.call)
      BY <3>2, <3>3
    <3> HIDE DEF x, m, wait
    <3>5. CASE x.call.route \in PlainRoutes
      <4>1. (m - 1) * Each(x.call) \in Nat
        BY <3>3, TimeConstants, PredTimes
      <4>2. x.kept + wait + (m - 1) * Each(x.call) <= LongestOf(x.call)
        BY <3>1, <3>5 DEF Underway, PlainUnderway, m, wait
      <4>3. QED
        BY <3>2, <3>3, <4>1, <4>2
    <3>6. CASE x.call.route = "enrich/by-ids"
      <4>1. PICK p \in 0..2 :
               /\ p <= m
               /\ x.kept + wait + (IF p = 0 THEN 2 * NodeTimeout + (m - 1) * OneId
                                   ELSE (p - 1) * NodeTimeout + (m - p) * OneId)
                     <= LongestOf(x.call)
        BY <3>1, <3>6 DEF Underway, IdsUnderway, m, wait
      <4>2. NodeTimeout \in Nat /\ OneId \in Nat /\ (m - 1) * OneId \in Nat
        BY <3>3, TimeConstants, PredTimes
      <4>3. p # 0 => p - 1 \in Nat /\ m - p \in Nat
        BY <3>3, <4>1
      <4>4. p # 0 => (p - 1) * NodeTimeout \in Nat /\ (m - p) * OneId \in Nat
        BY <4>2, <4>3, Times
      <4> DEFINE rest == IF p = 0 THEN 2 * NodeTimeout + (m - 1) * OneId
                         ELSE (p - 1) * NodeTimeout + (m - p) * OneId
      <4>5. rest \in Nat /\ x.kept + wait + rest <= LongestOf(x.call)
        BY <4>1, <4>2, <4>4
      <4> HIDE DEF rest
      <4>6. QED
        BY <3>2, <3>3, <4>5
    <3>7. CASE x.call.route = "correlate"
      <4>1. x.kept + wait <= LongestOf(x.call)
        BY <3>1, <3>7 DEF Underway, AnalystUnderway, wait
      <4>2. QED
        BY <3>2, <3>3, <4>1
    <3>8. CASE x.call.route \in OpenRoutes
      BY <3>1, <3>2, <3>8 DEF Underway, Timed
    <3>9. x.call.route \in PlainRoutes \cup {"enrich/by-ids", "correlate"} \cup OpenRoutes
      BY <3>1, CallFacts DEF PlainRoutes, AIRoutes
    <3>10. QED
      BY <3>5, <3>6, <3>7, <3>8, <3>9
  <2>3. QED
    BY <2>1, <2>2 DEF TimeInv
<1>2. QED
  BY <1>1, Inductive, TimesInductive, PTL DEF Spec
-----------------------------------------------------------------------------
\* What the answers rest on.

LEMMA GroundsInductive ==
    /\ Init => GroundsInv
    /\ IInv /\ GroundsInv /\ [Next]_vars => GroundsInv'
<1>1. Init => GroundsInv
  <2> SUFFICES ASSUME Init, NEW r \in Requests
               PROVE  GroundInv(req[r])
    BY DEF GroundsInv
  <2>1. req[r].phase = "idle"
    BY DEF Init, Fresh
  <2>2. QED
    BY <2>1 DEF GroundInv
<1>2. ASSUME IInv, GroundsInv, [Next]_vars
      PROVE  GroundsInv'
  <2>1. DOMAIN req = Requests /\ \A r \in Requests : DOMAIN req[r] = Fields /\ GroundInv(req[r])
    BY <1>2 DEF IInv, RequestsInv, RequestInv, Common, GroundsInv
  <2>2. ASSUME Tick
        PROVE  GroundsInv'
    <3> SUFFICES ASSUME NEW r \in Requests
                 PROVE  GroundInv(req'[r])
      BY DEF GroundsInv
    <3>1. Common(r, req[r]) /\ GroundInv(req[r])
      BY <1>2, <2>1 DEF IInv, RequestsInv, RequestInv
    <3>2. req[r].phase = "working" => GroundInv(Aged(req[r]))
      BY <3>1, AgedIs, ReclockedGround
    <3>3. QED
      BY <2>2, <3>1, <3>2, TickIs
  <2>3. ASSUME NEW r \in Requests, Arrive(r)
        PROVE  GroundsInv'
    <3>1. PICK call, token :
             req' = [req EXCEPT ![r].phase = "arrived", ![r].call = call, ![r].token = token]
      BY <2>3 DEF Arrive
    <3>2. req'[r].phase = "arrived"
      BY <2>1, <3>1 DEF Fields
    <3>3. GroundInv(req'[r])
      BY <3>2 DEF GroundInv
    <3>4. \A q \in Requests \ {r} : req'[q] = req[q]
      BY <2>1, <3>1
    <3>5. QED
      BY <2>1, <3>3, <3>4 DEF GroundsInv
  <2>4. ASSUME NEW r \in Requests, Handle(r)
        PROVE  GroundsInv'
    <3>1. PICK n, b : Step(r, n, b) /\ GroundInv(n)
      BY <1>2, <2>1, <2>4, HandleOutcome, OutcomeIs DEF IInv
    <3>2. req' = [req EXCEPT ![r] = n]
      BY <3>1 DEF Step
    <3>3. QED
      BY <2>1, <3>1, <3>2 DEF GroundsInv
  <2>5. CASE UNCHANGED vars
    BY <2>1, <2>5 DEF vars, GroundsInv
  <2>6. QED
    BY <1>2, <2>2, <2>3, <2>4, <2>5 DEF Next
<1>3. QED
  BY <1>1, <1>2

\* A request that succeeds has an answer for every item, in order, each cites
\* what was retrieved for its own item, and is marked verified and completed if
\* and only if that was anything; a remediation that is handed out passed the
\* scan and is not approved (enrichment.py, copilot.py, mapping.py,
\* remediation.py, grounding.py).
THEOREM AnswersRest == Spec => []AnswersAreGrounded
<1>1. GroundsInv => AnswersAreGrounded
  BY DEF GroundsInv, GroundInv, Delivered, AnswersAreGrounded, CitingRoutes
<1>2. QED
  BY <1>1, Inductive, GroundsInductive, PTL DEF Spec
=============================================================================
