------------------------------- MODULE Errors -------------------------------
(***************************************************************************)
(* The exceptions of the domain and the HTTP status each is answered with. *)
(* Anything that is not one of them is "unexpected".                       *)
(***************************************************************************)
EXTENDS Naturals, Sequences, FiniteSetsExt

\* The class each class of the hierarchy extends.
Parent ==
    LET Root == "ComplianceIQError"
        UnderRoot == {"ValidationError", "NotFoundError", "AuthenticationError",
                      "AuthorizationError", "RateLimitError", "GroundingError",
                      "UnsafeContentError", "UnsafeTargetError", "ModelNotAvailableError",
                      "ProviderError", "DependencyUnavailableError", "KnowledgeBaseError",
                      "PromptError", "WorkflowError"}
        Below == [TenantIsolationError |-> "AuthorizationError",
                  BudgetExceededError |-> "RateLimitError",
                  ProviderTimeoutError |-> "ProviderError",
                  EmbeddingModelMismatchError |-> "KnowledgeBaseError"]
    IN  [e \in UnderRoot \cup DOMAIN Below |-> IF e \in UnderRoot THEN Root ELSE Below[e]]

DomainErrors == DOMAIN Parent

\* isinstance, over a hierarchy of two levels below the root.
IsA(error, class) ==
    error \in DomainErrors /\ (error = class \/ Parent[error] = class)

\* _STATUS_BY_EXCEPTION, in declaration order.
StatusTable ==
    << <<"ValidationError", 422>>, <<"NotFoundError", 404>>, <<"AuthenticationError", 401>>,
       <<"TenantIsolationError", 403>>, <<"AuthorizationError", 403>>, <<"RateLimitError", 429>>,
       <<"GroundingError", 422>>, <<"UnsafeContentError", 400>>, <<"UnsafeTargetError", 403>>,
       <<"ProviderError", 502>>, <<"DependencyUnavailableError", 503>> >>

\* _status_for, and the handler of all other exceptions: the first row that matches.
StatusFor ==
    [error \in DomainErrors \cup {"unexpected"} |->
        LET rows == {i \in DOMAIN StatusTable : IsA(error, StatusTable[i][1])}
        IN  IF rows = {} THEN 500 ELSE StatusTable[Min(rows)][2]]

Statuses == {200, 413, 500, 503} \cup {StatusTable[i][2] : i \in DOMAIN StatusTable}
=============================================================================
