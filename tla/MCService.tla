----------------------------- MODULE MCService -----------------------------
(***************************************************************************)
(* Two requests of two tenants at a time.  The first one works on findings *)
(* or has the tools of an agent, the second one is anything else.  Both    *)
(* batches and searches have at most two items, and a bucket holds two     *)
(* calls, so a batch of two exhausts it.                                   *)
(***************************************************************************)
EXTENDS Service

CONSTANTS r1, r2

\* a1 and its twin are told apart by their ids only; a2 is open to the world.
a1 == Of("tenant-a", Verdict("finding-iam-1", "nist_csf", "PR.AA-01", "iam", "fail", "high", FALSE))
twin == [a1 EXCEPT !.id = "finding-iam-9"]
a2 == Of("tenant-a", Verdict("finding-net-1", "soc_2", "CC6.6", "network", "fail", "critical", TRUE))
b1 == [a1 EXCEPT !.tenant = "tenant-b"]

Call(route, items) ==
    [route |-> route, size |-> "ok", json |-> TRUE, valid |-> TRUE, items |-> items]
Question(framework, signals) == [framework |-> framework, signals |-> signals]

MCCallsOf ==
    r1 :> {Call("enrich", <<a1, a2>>), Call("enrich", <<a1, b1>>), Call("enrich", <<a1, a1, a1>>),
           Call("enrich/by-ids", <<"finding-iam-1", "finding-net-1">>),
           Call("correlate", <<a1, a2>>), Call("correlate", <<a1, twin>>),
           Call("remediate", <<a2>>), Call("map", <<a2>>), Call("report", <<a1, a2>>),
           Call("financial", <<a1>>),
           Call("ask", <<Question("any", {"high"})>>),
           [Call("map", <<a2>>) EXCEPT !.json = FALSE]}
    @@
    r2 :> {Call("ask", <<Question("nist_csf", {})>>), Call("findings", <<[severity |-> "critical"]>>),
           Call("health/ready", <<>>),
           Call("dev-token", <<[tenant |-> "tenant-b", ttl |-> 1]>>),
           [Call("map", <<a2>>) EXCEPT !.size = "over"]}

Good(tenant, signer) ==
    [parts |-> TRUE, alg |-> IF signer = "core" THEN "RS256" ELSE "HS256", signer |-> signer,
     ascii |-> TRUE, exp |-> 9, nbf |-> NoClaim, iss |-> TRUE, aud |-> TRUE, sub |-> TRUE,
     tenant |-> tenant, roles |-> TRUE]
MCTokens ==
    {Good("tenant-a", "core"), [Good("tenant-a", "hs") EXCEPT !.exp = 0],
     [Good("tenant-a", "hs") EXCEPT !.ascii = FALSE]}

Offline ==
    [production |-> FALSE, devLogin |-> TRUE, publicKey |-> "", secret |-> "hs",
     primary |-> "fake", anthropicKey |-> FALSE, openaiKey |-> FALSE, promptsDir |-> TRUE,
     topK |-> 5, core |-> "stub", demoSeed |-> FALSE, store |-> "memory"]
Live ==
    [Offline EXCEPT !.production = TRUE, !.publicKey = "jwk", !.primary = "openai_compatible",
                    !.openaiKey = TRUE, !.core = "http", !.store = "pgvector"]
MCDeployments ==
    {Offline, Live,
     [Offline EXCEPT !.publicKey = "pem", !.primary = "anthropic", !.anthropicKey = TRUE,
                     !.demoSeed = TRUE, !.topK = 30],
     [Offline EXCEPT !.primary = "openai_compatible", !.promptsDir = FALSE, !.topK = 60]}

MCContexts ==
    {{}, {<<"nist_csf", "PR.AA-01">>}, {<<"soc_2", "CC6.1">>}}
MCSignals ==
    [c \in UNION MCContexts |-> IF c[2] = "CC6.1" THEN {"low", "critical"} ELSE {}]

Answer(code, valid, findings) == [code |-> code, valid |-> valid, findings |-> findings]
MCCoreAnswers ==
    {Answer(0, FALSE, {}), Answer(404, FALSE, {}), Answer(200, FALSE, {}),
     Answer(200, TRUE, {a1}), Answer(200, TRUE, {b1}), Answer(200, TRUE, {a1, b1}),
     Answer(200, TRUE, {a1, a2})}
=============================================================================
