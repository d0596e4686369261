----------------------------- MODULE Providers -----------------------------
(***************************************************************************)
(* The model providers a deployment has, the routes it takes to them, and  *)
(* what each adapter can make of the reply it gets.  A result is a text    *)
(* ("prose", "blank"), "vector", an exception, or "echo": the fake         *)
(* provider repeats the prompt.                                            *)
(***************************************************************************)
EXTENDS Errors

\* build_providers: the fake one, and the ones with credentials.
ProvidersOf(settings) ==
    {"fake"} \cup (IF settings.anthropicKey THEN {"anthropic"} ELSE {})
             \cup (IF settings.openaiKey THEN {"openai_compatible"} ELSE {})

\* build_routing_table: the plan of the chat tasks and the embedding provider.
\* A primary of openai_compatible without credentials gets the fake models.
RoutingTable(settings) ==
    IF settings.primary = "anthropic"
    THEN IF settings.openaiKey
         THEN [plan |-> <<"anthropic", "openai_compatible">>, embed |-> "openai_compatible"]
         ELSE [plan |-> <<"anthropic">>, embed |-> "fake"]
    ELSE IF settings.primary = "openai_compatible" /\ settings.openaiKey
    THEN [plan |-> <<"openai_compatible">>, embed |-> "openai_compatible"]
    ELSE [plan |-> <<"fake">>, embed |-> "fake"]

\* FakeLLMProvider.generate and embed never fail.
FakeReplies == [generate |-> {"echo"}, embed |-> {"vector"}]

\* AnthropicProvider: what the client raises becomes a ProviderError.
AnthropicReplies == [generate |-> {"prose", "blank", "ProviderError"},
                     embed |-> {"ProviderError"}]

\* OpenAICompatibleProvider: so do its failures, but the JSON is taken apart
\* after the try; and fewer embeddings than texts are not noticed.
OpenAIReplies == [generate |-> {"prose", "blank", "ProviderError", "unexpected"},
                  embed |-> {"vector", "too few", "ProviderError", "unexpected"}]

Replies == [fake |-> FakeReplies, anthropic |-> AnthropicReplies,
            openai_compatible |-> OpenAIReplies]

\* generate of the gateway (module Gateway), once it gets to its candidates: the
\* first configured one that answers, and a ProviderError if there is none.
GenerateResults(settings) ==
    LET plan == SelectSeq(RoutingTable(settings).plan, LAMBDA p : p \in ProvidersOf(settings))
        all == UNION {Replies[plan[i]].generate : i \in DOMAIN plan}
    IN  IF plan = <<>> THEN {"ProviderError"} ELSE all

\* embed of the gateway: one provider, no fallback.
EmbedResults(settings) ==
    LET provider == RoutingTable(settings).embed
    IN  IF provider \in ProvidersOf(settings)
        THEN Replies[provider].embed ELSE {"ModelNotAvailableError"}
=============================================================================
