---------------------------- MODULE AgentRouter ----------------------------
(***************************************************************************)
(* The route vocabulary, the runtime policy and the router that has the    *)
(* last word on every route (agent_runtime/router.py, policies.py).        *)
(* Everything here is a pure function of the requested route and of the    *)
(* routes already executed; the reasons of a decision are left out.        *)
(***************************************************************************)
EXTENDS Naturals, Sequences, FiniteSets

CONSTANTS
    MaxAgentSteps,      \* RuntimePolicy.max_agent_steps
    MaxRouteRepeats,    \* RuntimePolicy.max_route_repeats
    MaxAnalysisRetries  \* RuntimePolicy.max_analysis_retries

\* RuntimePolicy.__post_init__ refuses every other value.
ASSUME RuntimePolicyAssumption ==
    /\ MaxAgentSteps \in Nat \ {0}
    /\ MaxRouteRepeats \in Nat \ {0}
    /\ MaxAnalysisRetries \in Nat

AnalysisRoutes == {"source_analysis", "binary_analysis"}

DiscoveryRoutes == AnalysisRoutes \cup {"fuzz"}

\* The routes with an agent behind them: all but FINISH.
AgentRoutes ==
    DiscoveryRoutes \cup {"planner", "verification", "reviewer", "report"}

AgentRoute == AgentRoutes \cup {"finish"}

\* What a supervisor may ask for: any member of the enumeration, or a value
\* outside it.
RequestedRoutes == AgentRoute \cup {"not-a-route"}

\* A RouteDecision.  retry and retry_exhausted are the two metadata entries
\* the runtime reads.
RouteDecision ==
    [route: RequestedRoutes,
     fallback_used: BOOLEAN, execution_failed: BOOLEAN,
     step_limit_reached: BOOLEAN, retry: BOOLEAN, retry_exhausted: BOOLEAN]

\* RouteDecision(route, reason): every flag off.
Routed(route) ==
    [route |-> route,
     fallback_used |-> FALSE, execution_failed |-> FALSE,
     step_limit_reached |-> FALSE, retry |-> FALSE, retry_exhausted |-> FALSE]

\* history.count(route)
Count(history, route) == Cardinality({i \in DOMAIN history : history[i] = route})

InHistory(route, history) == \E i \in DOMAIN history : history[i] = route

OutOfSteps(history) == Len(history) >= MaxAgentSteps

\* REPORT when it can still run, otherwise stop.
Fallback(history, failed, limit) ==
    [Routed(IF InHistory("report", history) \/ OutOfSteps(history)
             THEN "finish" ELSE "report")
        EXCEPT !.fallback_used = TRUE,
               !.execution_failed = failed,
               !.step_limit_reached = limit]

RepeatLimit(route, history) == Count(history, route) >= MaxRouteRepeats

\* Mutant: no slot is kept for the report.
NeverReserved(route, history) == FALSE

ReservedForReport(route, history) ==
    Len(history) = MaxAgentSteps - 1 /\ route # "report"

\* Mutant: a route is taken for a member of the enumeration.
ResolveUnchecked(requested, history) ==
    LET limit == OutOfSteps(history)
        repeated == RepeatLimit(requested, history)
    IN  IF requested = "finish" THEN Routed("finish")
        ELSE IF limit \/ repeated \/ ReservedForReport(requested, history)
             THEN Fallback(history, FALSE, limit \/ ~repeated)
        ELSE Routed(requested)

\* The order of the checks decides which flag a fallback carries: the step
\* limit, then the repeat limit (no flag), then the reserved last slot.
Resolve(requested, history) ==
    LET limit == OutOfSteps(history)
        repeated == RepeatLimit(requested, history)
    IN  IF requested \notin AgentRoute THEN Fallback(history, TRUE, FALSE)
        ELSE IF requested = "finish" THEN Routed("finish")
        ELSE IF limit \/ repeated \/ ReservedForReport(requested, history)
             THEN Fallback(history, FALSE, limit \/ ~repeated)
        ELSE Routed(requested)
=============================================================================
