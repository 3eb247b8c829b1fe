------------------------------- MODULE TaskRun -------------------------------
(***************************************************************************)
(* The orchestrator and the agent runtime with its default supervisor, for *)
(* one task: every step is a step of one of them or a call from one to the *)
(* other.  The orchestrator starts the graph (Start); the graph calls      *)
(* on_route before each agent (Route, RouteRaises), merges into the        *)
(* context the orchestrator caches (Agent), and returns (Return); the      *)
(* caller of run() may cancel while it is suspended (Cancel).              *)
(***************************************************************************)
EXTENDS AgentRuntime

CONSTANTS
    TaskId,
    MaxEvidence,     \* bound of Orchestrator: more than one run can gather
    MaxFailedStarts  \* bound of Orchestrator

VARIABLES status, error, running, cached, stored, events, fault

\* The context is shared: what the runtime merges is what the orchestrator
\* reads.
Core == INSTANCE Orchestrator WITH
    TaskIds <- {TaskId},
    evidence <- [t \in {TaskId} |-> Cardinality(evidence)],
    reported <- [t \in {TaskId} |-> reports # <<>>]

coreVars == <<status, error, running, cached, stored, events, fault>>
allVars == <<vars, coreVars>>

\* The application injects no supervisor.  With one, the core sees the arbitrary
\* runtime that the module Orchestrator has of its own.
TaskRunInit == ~InjectedSupervisor /\ Init /\ Core!Init

Create == UNCHANGED vars /\ Core!CreateTask(TaskId)

\* Orchestrator.run up to the await: the graph has its fresh state and context.
Start == UNCHANGED vars /\ Core!StartRun(TaskId)

StartFails == UNCHANGED vars /\ Core!StartFails(TaskId)

\* The supervisor node needs nothing of the core; the graph runs only inside
\* the await.
Supervisor == TaskId \in running /\ Supervise /\ UNCHANGED coreVars

\* on_route accepted the route and the agent is awaited.
Route == StartAgent /\ Core!RouteTo(TaskId, next_agent)

RouteRaises == ObserverRaises /\ Core!RouteRaises(TaskId, next_agent)

Agent == FinishAgent /\ Core!Merge(TaskId)

Return ==
    /\ pc = "ended"
    /\ UNCHANGED vars
    /\ Core!Return(TaskId, metadata.execution_failed)

Cancel == UNCHANGED vars /\ Core!Cancel(TaskId)

\* What the event loop does once the run has begun.
RunStep == Supervisor \/ Route \/ RouteRaises \/ Agent \/ Return

TaskRunNext ==
    \/ Create
    \/ Start
    \/ StartFails
    \/ RunStep
    \/ Cancel

\* Nobody is obliged to start or to cancel a run; a run that has begun is
\* resumed whenever it is ready, and its agents return or raise.
TaskRunSpec == TaskRunInit /\ [][TaskRunNext]_allVars /\ WF_allVars(RunStep)

-----------------------------------------------------------------------------

\* With the default supervisor, on_route never asks for a transition the
\* lifecycle forbids, and a run that ends without failure can be completed:
\* only the repository can make these calls raise.
RoutesAreLegal ==
    TaskId \in running =>
        /\ pc = "dispatch" =>
            LET s == Core!RouteStatus[next_agent]
            IN  s = cached[TaskId] \/ Core!CanTransition(cached[TaskId], s)
        /\ pc = "ended" /\ ~metadata.execution_failed =>
            reports # <<>> /\ Core!CanTransition(cached[TaskId], "completed")

\* A task is completed only by a run in which no agent failed, whose report is
\* current, and all of whose evidence can be looked up.
CompletedIsClean ==
    status[TaskId] = "completed" =>
        /\ completed_agents = route_history
        /\ reports[Len(reports)] = findings
        /\ Cardinality({p \in stored : p[1] = TaskId}) = Cardinality(evidence)
        /\ \A k \in DOMAIN findings : findings[k].evidence_ids \subseteq evidence

\* A run that has begun gives its task up.
RunEnds == TaskId \in running ~> TaskId \notin running
=============================================================================
