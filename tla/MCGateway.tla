----------------------------- MODULE MCGateway -----------------------------
(***************************************************************************)
(* Instances of Gateway for TLC: two tenants and the platform, a provider  *)
(* p0 without credentials, and p1 and p2.                                  *)
(***************************************************************************)
EXTENDS Gateway, TLC

CONSTANTS p0, p1, p2, alice, bob, task1, task2, task3, x

Chat(op, tenant, task, cacheable, injected) ==
    [op |-> op, tenant |-> tenant, task |-> task, content |-> x,
     cacheable |-> cacheable, injected |-> injected]

EmbedRequest == Chat("embed", Platform, task1, FALSE, FALSE)

\* task1 has a fallback, task2 has none that is configured, and task3 takes the
\* route of the default task.
SomeRoutes == (task1 :> <<p1, p2>>) @@ (task2 :> <<p0, p1>>) @@ (task3 :> <<>>)

\* Two tenants that ask the same, a task without a fallback, and a stream.
MixedRequests ==
    {Chat("generate", alice, task1, TRUE, FALSE),
     Chat("generate", bob, task1, TRUE, FALSE),
     Chat("generate", alice, task2, FALSE, FALSE),
     Chat("stream", alice, task3, FALSE, FALSE)}

\* For liveness: a chat and a stream that may fail over, input that the scan
\* rejects, a task without any route, and an embedding.
LoneRoutes == (task1 :> <<p1, p0, p2>>) @@ (task2 :> <<>>)

PlainRequests ==
    {Chat("generate", alice, task1, TRUE, FALSE),
     Chat("generate", alice, task1, FALSE, TRUE),
     Chat("generate", alice, task2, FALSE, FALSE),
     Chat("stream", alice, task1, FALSE, FALSE),
     EmbedRequest}

AnyCall == Permutations(Calls)
============================================================================
