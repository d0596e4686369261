----------------------------- MODULE Workflows -----------------------------
(***************************************************************************)
(* The AI workflows: the graphs, the agents that own them, and the bounded *)
(* tool session of the risk analyst.                                       *)
(*                                                                         *)
(* A run is a plan, a sequence of [node, item] where node names what the   *)
(* run waits for.  Nodes that wait for nothing (abstain, summarize,        *)
(* estimate, validate) belong to the step of the node before or after      *)
(* them.  A context is the set of citations of the sources retrieved.      *)
(***************************************************************************)
EXTENDS Findings, Providers, SequencesExt

CONSTANTS
    MaxIterations, WallClock,   \* AgentBudget, in searches and ticks
    Signals                     \* citation -> severities the scan finds in its source

At(node, item) == [node |-> node, item |-> item]

-----------------------------------------------------------------------------
\* Prompts.

\* The variables each workflow renders its prompt with.
PromptInputs ==
    [enrich_finding |-> {"finding", "context"}, copilot_answer |-> {"question", "context"},
     remediation |-> {"finding", "context"},
     control_mapping |-> {"finding", "source_control", "context"},
     risk_narrative |-> {"findings", "sources"}, report_summary |-> {"findings_summary"},
     financial_rationale |-> {"finding", "exposure_band", "assumptions"}]

\* load_prompts: none if there is no such directory.  loaded: id -> the names a
\* template declares or refers to.
PromptsIn(settings) == IF settings.promptsDir THEN PromptInputs ELSE <<>>

\* PromptRegistry.render.
RenderError(settings, id) ==
    LET loaded == PromptsIn(settings)
    IN  IF id \in DOMAIN loaded /\ loaded[id] \subseteq PromptInputs[id]
        THEN "none" ELSE "PromptError"

-----------------------------------------------------------------------------
\* The graphs: what each waits for, and what it makes of its sources and the
\* text of the model.

Or(text, default) == IF text = "blank" THEN default ELSE text

\* An answer with what its graph adds to it.
Adding(answer, field, value) ==
    [f \in DOMAIN answer \cup {field} |-> IF f = field THEN value ELSE answer[f]]

\* The citations are verified against themselves.
Grounded(item, context, text) ==
    [about |-> item, text |-> Or(text, "abstention"),
     citations |-> Verified(context, context),
     verified |-> Unverified(context, context) = {} /\ context # {}]

\* Mutant of Abstains: a graph generates whatever was retrieved.
AbstainsNever(prompt, context) == FALSE

\* _route of the graphs that have an edge to abstain.
Abstains(prompt, context) ==
    context = {} /\ prompt \in {"enrich_finding", "copilot_answer", "control_mapping"}

EnrichmentGraph(f) == <<At("retrieve", f), At("generate", f)>>

\* enrich: the findings of a batch, one after the other.
EnrichmentGraphs(findings) ==
    [k \in 1..(2 * Len(findings)) |->
        EnrichmentGraph(findings[(k + 1) \div 2])[IF k % 2 = 1 THEN 1 ELSE 2]]
EnrichedFinding(f, context, text) == Grounded(f, context, text)

CopilotGraph(q) == <<At("retrieve", q), At("generate", q)>>
CopilotAnswer(q, context, text) == Adding(Grounded(q, context, text), "abstained", FALSE)

MappingGraph(f) == <<At("retrieve", f), At("generate", f)>>
ControlMapping(f, context, text) ==
    Adding(Grounded(f, context, text), "mappings",
           {c \in Verified(context, context) : c[1] # f.framework})

RemediationGraph(f) == <<At("retrieve", f), At("generate", f)>>
RemediationProposal(f, context, text) ==
    [about |-> f, text |-> Or(text, "prose"), citations |-> Verified(context, context),
     approved |-> FALSE]
\* _validate comes after the completion has been paid for.
ValidationError(text) == IF ForbiddenIn(text) THEN "WorkflowError" ELSE "none"

FinancialGraph(f) == <<At("generate", f)>>
FinancialRiskAssessment(f, text) ==
    [about |-> f, text |-> Or(text, "prose"), range |-> Exposure(f)]

ReportGraph(findings) == <<At("generate", findings)>>
ReportDraft(findings, text) ==
    [about |-> findings, text |-> Or(text, "prose"), count |-> Len(findings),
     breakdown |-> [s \in {findings[i].severity : i \in DOMAIN findings} |->
                       Len(SelectSeq(findings, LAMBDA f : f.severity = s))]]

\* What the abstain nodes answer.
Abstention(prompt, item) ==
    LET plain == [about |-> item, text |-> "abstention", citations |-> {}, verified |-> FALSE]
    IN  IF prompt = "copilot_answer" THEN Adding(plain, "abstained", TRUE)
        ELSE IF prompt = "control_mapping" THEN Adding(plain, "mappings", {})
        ELSE plain

-----------------------------------------------------------------------------
\* The risk analyst: at most MaxIterations searches, then one completion.

CorrelatePlan(findings) ==
    [i \in 1..(IF Len(findings) < MaxIterations THEN Len(findings) ELSE MaxIterations) |->
        At("search", findings[i])] \o <<At("narrate", findings)>>

Narrative(findings, text) == [about |-> findings, text |-> Or(text, "abstention")]

\* ToolSession.__init__.
OpenSession == [iterations |-> 0, seen |-> {}]

\* finding_summary has neither the id nor the tenant of the finding.
Summary(f) == [field \in DOMAIN f \ {"id", "tenant"} |-> f[field]]

\* Mutant of CallRefused: the clock is not looked at.
CallRefusedUntimed(session, elapsed, f) ==
    session.iterations >= MaxIterations \/ Summary(f) \in session.seen

\* ToolSession.call refuses: out of time, out of calls, or asked before.
CallRefused(session, elapsed, f) ==
    \/ elapsed >= WallClock
    \/ session.iterations >= MaxIterations
    \/ Summary(f) \in session.seen

Recorded(session, f) ==
    [iterations |-> session.iterations + 1, seen |-> session.seen \cup {Summary(f)}]

\* The scan of a tool's output, and the gateway's of its untrusted messages.
Tripped(signals, context) ==
    Exceeds(signals \cup UNION {Signals[c] : c \in context}, "high")
=============================================================================
