---------------------------- MODULE AgentRuntime ----------------------------
(***************************************************************************)
(* One invocation of the agent graph (agent_runtime/runtime.py): the       *)
(* supervisor node and the agent nodes alternate until the supervisor node *)
(* routes to FINISH or an exception leaves the graph.  An agent node runs  *)
(* in two steps, because agent.run is awaited: what happens before the     *)
(* await (StartAgent) and what happens with its outcome.  The agents are   *)
(* those of the default suite (agents/), over capabilities that return     *)
(* whatever their protocol allows or raise.                                *)
(*                                                                         *)
(* An identifier is a pair.  Those made by new_vulnerability_id and         *)
(* new_evidence_id are fresh: the step that made it and its place in that  *)
(* step.  The identifiers of the findings of a source audit are those the  *)
(* injected auditor chose (Candidates): no code makes them or checks them, *)
(* so they may repeat inside one result and from one audit to the next.    *)
(* Every audit returns finding objects of its own, and a capability does   *)
(* not write to the objects it is given.                                   *)
(***************************************************************************)
EXTENDS Supervisor

CONSTANTS
    Tasks,              \* the attributes a task may have
    InjectedDecisions,  \* what an injected supervisor may return; {} stands
                        \* for the default supervisor
    Candidates,         \* what a source auditor may choose for one candidate
    MaxCandidates       \* bound: candidates one source audit may return

FinalStatuses == {"confirmed", "rejected", "uncertain"}
Statuses == FinalStatuses \cup {"candidate", "verifying"}

\* stray: the candidate cites evidence that is not stored; sound: the fields
\* the reviewer asks for are there, the confidence is in range.
ASSUME RuntimeAssumption ==
    /\ Tasks \subseteq TaskAttributes
    /\ InjectedDecisions \subseteq RouteDecision
    /\ Candidates \subseteq
        [id: Nat \X Nat, status: Statuses, stray: BOOLEAN, sound: BOOLEAN]
    /\ MaxCandidates \in Nat

\* AgentRuntime(supervisor = ...) was given a supervisor of its own.
InjectedSupervisor == InjectedDecisions # {}

VARIABLES
    task,              \* the attributes of the task, never written
    pc,                \* where the graph is
    supersteps,        \* LangGraph nodes executed so far
    current_agent,     \* RuntimeState: the agent that ran last
    next_agent,        \* RuntimeState: where the supervisor routed to
    step_count,        \* RuntimeState
    route_history,     \* RuntimeState: agents executed, failed ones too
    completed_agents,  \* RuntimeState: agents that did not fail
    metadata,          \* RuntimeState.runtime_metadata
    findings,          \* AnalysisContext.findings
    evidence,          \* AnalysisContext.evidence: the identifiers
    verifications,     \* AnalysisContext.verifications: last status by finding
    reports,           \* AnalysisContext.reports: the findings each one shows
    planned,           \* a PLAN message requests fuzz.execute
    requested,         \* the latest VERIFICATION_RESULT asks for more analysis
    review             \* the latest REVIEW_RESULT: "none", "passed" or "notes"

state == <<pc, supersteps, current_agent, next_agent, step_count,
           route_history, completed_agents, metadata>>
context == <<findings, evidence, verifications, reports, planned, requested,
             review>>
vars == <<task, state, context>>

Ids == Nat \X Nat
Findings ==
    [id: Ids, status: Statuses, evidence_ids: SUBSET Ids, sound: BOOLEAN]

\* graph.ainvoke gives up after this many nodes.
RecursionLimit == MaxAgentSteps * 3 + 10

NoMetadata ==
    [force_fallback |-> FALSE, fallback_used |-> FALSE,
     execution_failed |-> FALSE, step_limit_reached |-> FALSE,
     retry_exhausted |-> FALSE, analysis_retries |-> 0,
     last_agent_error |-> "none"]

Init ==
    /\ task \in Tasks
    /\ pc = "supervise"
    /\ supersteps = 0
    /\ current_agent = "none"
    /\ next_agent = "none"
    /\ step_count = 0
    /\ route_history = <<>>
    /\ completed_agents = <<>>
    /\ metadata = NoMetadata
    /\ findings = <<>>
    /\ evidence = {}
    /\ verifications = [id \in {} |-> "candidate"]
    /\ reports = <<>>
    /\ planned = FALSE
    /\ requested = FALSE
    /\ review = "none"

-----------------------------------------------------------------------------
(* The supervisor node.                                                    *)

\* What replaces a supervisor that raised or leaked private metadata, and what
\* a failed agent forces.
ForcedDecision ==
    [Routed(IF InHistory("report", route_history) THEN "finish" ELSE "report")
        EXCEPT !.fallback_used = TRUE, !.execution_failed = TRUE]

Proposals ==
    IF metadata.force_fallback THEN {ForcedDecision}
    ELSE IF InjectedSupervisor THEN InjectedDecisions \cup {ForcedDecision}
    ELSE {Decide(task, current_agent, route_history, findings # <<>>,
                 planned, requested, metadata.analysis_retries)}

RetryRequest(proposed) ==
    /\ proposed.retry
    /\ proposed.route \in AnalysisRoutes
    /\ current_agent = "verification"

\* The runtime's own retry policy, whatever the supervisor proposed.
EnforceRetries(proposed) ==
    IF /\ RetryRequest(proposed)
       /\ metadata.analysis_retries >= MaxAnalysisRetries
    THEN [Routed("reviewer") EXCEPT !.retry_exhausted = TRUE]
    ELSE proposed

\* The router decides; an accepted proposal keeps its flags.
Settle(proposed) ==
    LET routed == Resolve(proposed.route, route_history)
    IN  IF routed.route = proposed.route /\ ~routed.fallback_used
        THEN proposed ELSE routed

\* Mutant: a retry counts as soon as it is requested.
CountedOnRequest(proposed, decision) == RetryRequest(proposed)

\* A retry counts only once the router accepted it.
RetryExecuted(proposed, decision) ==
    /\ RetryRequest(proposed)
    /\ decision.route = proposed.route
    /\ ~decision.fallback_used

\* Mutant: the decision overwrites the failure recorded by an agent.
OverwriteMetadata(proposed, decision) ==
    [metadata EXCEPT
        !.force_fallback = FALSE,
        !.fallback_used = decision.fallback_used,
        !.execution_failed = decision.execution_failed]

RecordDecision(proposed, decision) ==
    [metadata EXCEPT
        !.force_fallback = FALSE,
        !.fallback_used = @ \/ decision.fallback_used,
        !.execution_failed = @ \/ decision.execution_failed,
        !.step_limit_reached = @ \/ decision.step_limit_reached,
        !.retry_exhausted = @ \/ proposed.retry_exhausted,
        !.analysis_retries =
            IF RetryExecuted(proposed, decision) THEN @ + 1 ELSE @]

Supervise ==
    /\ pc = "supervise"
    /\ \E p \in Proposals :
        LET proposed == EnforceRetries(p)
            decision == Settle(proposed)
        IN  /\ metadata' = RecordDecision(proposed, decision)
            /\ next_agent' = decision.route
            /\ pc' = IF decision.route = "finish" THEN "ended" ELSE "dispatch"
    /\ supersteps' = supersteps + 1
    /\ UNCHANGED <<task, current_agent, step_count, route_history,
                   completed_agents, context>>

\* An injected supervisor that returns no RouteDecision at all: reading the
\* metadata of its answer raises outside the runtime's guard.
SuperviseRaises ==
    /\ pc = "supervise"
    /\ InjectedSupervisor
    /\ ~metadata.force_fallback
    /\ pc' = "raised"
    /\ supersteps' = supersteps + 1
    /\ UNCHANGED <<task, current_agent, next_agent, step_count, route_history,
                   completed_agents, metadata, context>>

-----------------------------------------------------------------------------
(* The agent nodes.                                                        *)

\* on_route accepts the route, then AGENT_STARTED; the agent is now awaited.
StartAgent ==
    /\ pc = "dispatch"
    /\ pc' = "running"
    /\ supersteps' = supersteps + 1
    /\ UNCHANGED <<task, current_agent, next_agent, step_count, route_history,
                   completed_agents, metadata, context>>

\* on_route is called outside every handler: what it raises ends the graph.
ObserverRaises ==
    /\ pc = "dispatch"
    /\ pc' = "raised"
    /\ supersteps' = supersteps + 1
    /\ UNCHANGED <<task, current_agent, next_agent, step_count, route_history,
                   completed_agents, metadata, context>>

\* An identifier of this run of the agent, and one that names nothing stored.
NewId(k) == <<step_count + 1, k>>
Dangling == <<0, 0>>

\* The agent stores one evidence per candidate and has the candidate cite it.
Audited(audit) ==
    [findings |-> [k \in DOMAIN audit |->
        [id |-> audit[k].id, status |-> audit[k].status,
         evidence_ids |-> {NewId(k)} \cup (IF audit[k].stray THEN {Dangling} ELSE {}),
         sound |-> audit[k].sound]],
     evidence |-> {NewId(k) : k \in DOMAIN audit}]

\* The binary agent makes its one finding itself.
BinaryResult ==
    [findings |-> <<[id |-> NewId(1), status |-> "candidate",
                     evidence_ids |-> {NewId(1)}, sound |-> TRUE]>>,
     evidence |-> {NewId(1)}]

AnalysisResults(route) ==
    IF route = "binary_analysis" THEN {BinaryResult}
    ELSE {Audited(a) : a \in UNION {[1..n -> Candidates] : n \in 0..MaxCandidates}}

FindingIds == {findings[k].id : k \in DOMAIN findings}
AuditedIds == {c.id : c \in Candidates}

\* The verifier answers once for each finding, and its answers are read by
\* identifier.  One it leaves out is a KeyError (AgentFails), so it has answers
\* to spare, to be given for anything, only when findings share an identifier.
Answers ==
    UNION {[ids -> Statuses] :
            ids \in {FindingIds \cup extra : extra \in
                {e \in SUBSET (AuditedIds \ FindingIds) :
                    Cardinality(FindingIds) + Cardinality(e) <= Len(findings)}}}

\* Every finding cites the one evidence of the verification.
Verified(answers) ==
    [findings |-> [k \in DOMAIN findings |->
        [findings[k] EXCEPT !.status = answers[findings[k].id],
                            !.evidence_ids = @ \cup {NewId(0)}]],
     evidence |-> {NewId(0)}]

\* The last answer for each identifier, those of this verification included.
Verdicts(answers) ==
    [id \in DOMAIN answers \cup DOMAIN verifications |->
        IF id \in DOMAIN answers THEN answers[id] ELSE verifications[id]]

\* Mutants: discovery may return final statuses; or cite anything.
AuthorizedStatus(route, result) ==
    \A k \in DOMAIN result.findings :
        LET f == result.findings[k]
        IN  route \in DiscoveryRoutes =>
                f.evidence_ids # {} /\ f.evidence_ids \subseteq evidence \cup result.evidence
AuthorizedEvidence(route, result) ==
    \A k \in DOMAIN result.findings :
        result.findings[k].status \in
            (IF route \in DiscoveryRoutes THEN {"candidate"} ELSE FinalStatuses)

\* _validate_finding_authority: who may write which findings.
Authorized(route, result) ==
    \A k \in DOMAIN result.findings :
        LET f == result.findings[k]
        IN  \/ /\ route \in DiscoveryRoutes
               /\ f.status = "candidate"
               /\ f.evidence_ids # {}
               /\ f.evidence_ids \subseteq evidence \cup result.evidence
            \/ route = "verification" /\ f.status \in FinalStatuses

\* Mutant: a verification adds its findings to the others.
MergeAlways(result, replace) ==
    /\ findings' = findings \o result.findings
    /\ evidence' = evidence \cup result.evidence

\* Pipeline.merge, findings and evidence.
Merge(result, replace) ==
    /\ findings' = IF replace THEN result.findings ELSE findings \o result.findings
    /\ evidence' = evidence \cup result.evidence

\* Every agent that returns leaves its route in the history and the lead to
\* the supervisor, whether it succeeded or not.
AgentLeaves ==
    /\ pc = "running"
    /\ pc' = "supervise"
    /\ current_agent' = next_agent
    /\ next_agent' = "none"
    /\ step_count' = step_count + 1
    /\ route_history' = Append(route_history, next_agent)
    /\ UNCHANGED <<task, supersteps>>

AgentSucceeds(routes) ==
    /\ next_agent \in routes
    /\ AgentLeaves
    /\ completed_agents' = Append(completed_agents, next_agent)
    /\ UNCHANGED metadata

PlannerAgent ==
    /\ AgentSucceeds({"planner"})
    /\ planned' = (planned \/ (task.fuzz_authorized /\ task.dynamic_validation))
    /\ UNCHANGED <<findings, evidence, verifications, reports, requested, review>>

AnalysisAgent ==
    /\ AgentSucceeds(AnalysisRoutes)
    /\ \E result \in AnalysisResults(next_agent) :
        /\ Authorized(next_agent, result)
        /\ Merge(result, FALSE)
    /\ UNCHANGED <<verifications, reports, planned, requested, review>>

FuzzAgent ==
    /\ AgentSucceeds({"fuzz"})
    /\ Merge([findings |-> <<>>, evidence |-> {NewId(0)}], FALSE)
    /\ UNCHANGED <<verifications, reports, planned, requested, review>>

\* Only an answer of the verifier, so one for each finding, can ask for more.
VerificationAgent ==
    /\ AgentSucceeds({"verification"})
    /\ \E answers \in Answers :
        /\ Authorized("verification", Verified(answers))
        /\ Merge(Verified(answers), TRUE)
        /\ verifications' = Verdicts(answers)
    /\ requested' \in (IF findings = <<>> THEN {FALSE} ELSE BOOLEAN)
    /\ UNCHANGED <<reports, planned, review>>

\* The structural review: duplicates, evidence, whether the status of each
\* finding is the one its last verification gave it, and its other fields.
ReviewPasses ==
    /\ \A i, j \in DOMAIN findings : findings[i].id = findings[j].id => i = j
    /\ \A k \in DOMAIN findings :
        /\ findings[k].evidence_ids \cap evidence # {}
        /\ findings[k].id \in DOMAIN verifications
        /\ verifications[findings[k].id] = findings[k].status
        /\ findings[k].sound

ReviewResult == IF ReviewPasses THEN "passed" ELSE "notes"

ReviewerAgent ==
    /\ AgentSucceeds({"reviewer"})
    /\ review' = ReviewResult
    /\ UNCHANGED <<findings, evidence, verifications, reports, planned, requested>>

ReportAgent ==
    /\ AgentSucceeds({"report"})
    /\ reports' = Append(reports, findings)
    /\ UNCHANGED <<findings, evidence, verifications, planned, requested, review>>

\* Mutant: the failure does not force the fallback.
OnlyRemember ==
    [metadata EXCEPT !.execution_failed = TRUE, !.last_agent_error = next_agent]

FailureMetadata ==
    [metadata EXCEPT !.force_fallback = TRUE, !.execution_failed = TRUE,
                     !.last_agent_error = next_agent]

\* The agent raised, reported failure, leaked private trace fields or wrote
\* findings it may not write: nothing of its result is merged.
AgentFails ==
    /\ AgentLeaves
    /\ metadata' = FailureMetadata
    /\ UNCHANGED <<completed_agents, context>>

-----------------------------------------------------------------------------

FinishAgent ==
    \/ PlannerAgent
    \/ AnalysisAgent
    \/ FuzzAgent
    \/ VerificationAgent
    \/ ReviewerAgent
    \/ ReportAgent
    \/ AgentFails

Done == pc \in {"ended", "raised"} /\ UNCHANGED vars

Next ==
    \/ Supervise
    \/ SuperviseRaises
    \/ StartAgent
    \/ ObserverRaises
    \/ FinishAgent
    \/ Done

\* The event loop runs every node that is ready, and every awaited agent
\* returns or raises; the runtime has no timeout of its own.
Spec == Init /\ [][Next]_vars /\ WF_vars(Next)

-----------------------------------------------------------------------------
(* Properties of every supervisor.                                         *)

\* The variables keep their types: in particular only members of the route
\* enumeration are ever dispatched, whatever the supervisor asks for.
TypeOK ==
    /\ task \in TaskAttributes
    /\ pc \in {"supervise", "dispatch", "running", "ended", "raised"}
    /\ supersteps \in Nat
    /\ current_agent \in AgentRoutes \cup {"none"}
    /\ next_agent \in AgentRoute \cup {"none"}
    /\ step_count \in Nat
    /\ route_history \in Seq(AgentRoutes)
    /\ completed_agents \in Seq(AgentRoutes)
    /\ metadata \in
        [force_fallback: BOOLEAN, fallback_used: BOOLEAN,
         execution_failed: BOOLEAN, step_limit_reached: BOOLEAN,
         retry_exhausted: BOOLEAN, analysis_retries: Nat,
         last_agent_error: AgentRoutes \cup {"none"}]
    /\ findings \in Seq(Findings)
    /\ evidence \subseteq Ids
    /\ DOMAIN verifications \subseteq Ids
    /\ \A id \in DOMAIN verifications : verifications[id] \in Statuses
    /\ reports \in Seq(Seq(Findings))
    /\ planned \in BOOLEAN
    /\ requested \in BOOLEAN
    /\ review \in {"none", "passed", "notes"}

\* The report has the last slot of the step budget, and the graph never comes
\* near the recursion limit, whose exception no fallback would catch.
StepsBounded ==
    /\ Len(route_history) <= MaxAgentSteps
    /\ Len(route_history) = MaxAgentSteps => InHistory("report", route_history)
    /\ supersteps <= RecursionLimit

RepeatsBounded ==
    \A r \in AgentRoutes : Count(route_history, r) <= MaxRouteRepeats

RetryBudget == metadata.analysis_retries <= MaxAnalysisRetries

\* RuntimePolicy holds for every supervisor, whatever it asks for: no more than
\* max_agent_steps agents run, failures included, and a run that uses them all
\* has used one for the report; no agent runs more than max_route_repeats
\* times; the retry counter never passes max_analysis_retries.
WithinPolicy == StepsBounded /\ RepeatsBounded /\ RetryBudget

\* A run in which any agent failed says so to the orchestrator, however many
\* decisions followed the failure.
FailuresRecorded ==
    Len(completed_agents) < Len(route_history) => metadata.execution_failed

\* A finding has a final status only if the last verification of its
\* identifier recorded that status, and no finding older than a verification
\* is left a candidate: the candidates are those of analyses that came after
\* the last verification, also when they repeat an identifier that has a
\* verdict already.
StatusesComeFromVerification ==
    /\ \A k \in DOMAIN findings : findings[k].status # "candidate" =>
        /\ findings[k].id \in DOMAIN verifications
        /\ findings[k].status = verifications[findings[k].id]
        /\ findings[k].status \in FinalStatuses
    /\ \A i, j \in DOMAIN findings :
        i < j /\ findings[i].status = "candidate" => findings[j].status = "candidate"

\* Every finding cites evidence, and only evidence the context holds; one with
\* a final status cites that of a verification that has run.
FindingsGrounded ==
    \A k \in DOMAIN findings :
        /\ findings[k].evidence_ids # {}
        /\ findings[k].evidence_ids \subseteq evidence
        /\ findings[k].status # "candidate" =>
            \E n \in DOMAIN route_history :
                /\ route_history[n] = "verification"
                /\ <<n, 0>> \in findings[k].evidence_ids

\* runtime.py, beside the retry policy: no supervisor exceeds the number of
\* analyses a verification may ask for.  The code counts only the retries the
\* supervisor declares as such.
RetriesNeverExceeded ==
    Cardinality({i \in 2..Len(route_history) :
                    /\ route_history[i] \in AnalysisRoutes
                    /\ route_history[i - 1] = "verification"}) <= MaxAnalysisRetries

-----------------------------------------------------------------------------
(* Properties of the default supervisor.                                   *)

AnalysesStarted ==
    Count(route_history, "source_analysis") + Count(route_history, "binary_analysis")
      + (IF pc \in {"dispatch", "running", "raised"} /\ next_agent \in AnalysisRoutes
         THEN 1 ELSE 0)

\* Every analysis after the first is a retry the counter knows, also when the
\* router refused one.
RetriesAccounted ==
    AnalysesStarted > 0 => AnalysesStarted = 1 + metadata.analysis_retries

\* Once an agent has failed, the report is the only agent that may still run,
\* and once at most.
OnlyReportAfterFailure ==
    \A i \in DOMAIN route_history :
        (i > Len(completed_agents) \/ completed_agents[i] # route_history[i]) =>
            \/ i = Len(route_history)
            \/ /\ i = Len(route_history) - 1
               /\ route_history[Len(route_history)] = "report"

\* No report is stale when the run ends, and a run without a failure has made
\* exactly one, fallback or not.  A run without a fallback has no failure, the
\* findings it reports all have a final status, and its review is the review of
\* these very findings: it passed if and only if they pass now.
ReportIsCurrent ==
    pc = "ended" =>
        /\ reports # <<>> => reports[Len(reports)] = findings
        /\ ~metadata.execution_failed => Len(reports) = 1
        /\ ~metadata.fallback_used =>
            /\ ~metadata.execution_failed
            /\ findings # <<>> => review = ReviewResult
            /\ \A k \in DOMAIN findings : findings[k].status \in FinalStatuses

\* The fuzz agent is reached only for an authorized, planned and suitable
\* target, and only once.
FuzzAuthorized ==
    InHistory("fuzz", route_history) \/ next_agent = "fuzz" =>
        /\ task.fuzz_authorized /\ task.dynamic_validation
        /\ task.target_type # "archive"
        /\ Count(route_history, "fuzz") + (IF next_agent = "fuzz" THEN 1 ELSE 0) = 1
=============================================================================
