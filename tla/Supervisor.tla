----------------------------- MODULE Supervisor -----------------------------
(***************************************************************************)
(* The deterministic V0.2 supervisor (agent_runtime/supervisor.py): the    *)
(* next route as a function of the task, of what the analysis context      *)
(* holds, and of the routes already executed.                              *)
(***************************************************************************)
EXTENDS AgentRouter

TargetTypes == {"source", "binary", "project", "archive"}

\* What the supervisor and the planner read of a task: the type of its target
\* and two entries of the target's metadata.
TaskAttributes ==
    [target_type: TargetTypes,
     fuzz_authorized: BOOLEAN, dynamic_validation: BOOLEAN]

AnalysisRoute(task) ==
    IF task.target_type = "binary" THEN "binary_analysis" ELSE "source_analysis"

\* Mutant: the plan is not consulted.
FuzzWhenAuthorized(task, planned) ==
    /\ task.fuzz_authorized
    /\ task.target_type \in {"source", "project", "binary"}

\* planned: some PLAN message of the context requests fuzz.execute.
FuzzRequested(task, planned) ==
    /\ task.fuzz_authorized
    /\ task.target_type \in {"source", "project", "binary"}
    /\ planned

\* After verification: one more analysis while the budget lasts, or review.
AfterVerification(task, requested, attempts) ==
    IF ~requested THEN Routed("reviewer")
    ELSE IF attempts < MaxAnalysisRetries
         THEN [Routed(AnalysisRoute(task)) EXCEPT !.retry = TRUE]
    ELSE [Routed("reviewer") EXCEPT !.retry_exhausted = TRUE]

\* found: the context has a finding; requested: its latest VERIFICATION_RESULT
\* asks for additional analysis; attempts: analysis retries so far.
Decide(task, current, history, found, planned, requested, attempts) ==
    CASE current = "none" -> Routed("planner")
      [] current = "planner" -> Routed(AnalysisRoute(task))
      [] current \in AnalysisRoutes ->
            Routed(IF ~found THEN "report"
                   ELSE IF FuzzRequested(task, planned) /\ ~InHistory("fuzz", history)
                   THEN "fuzz" ELSE "verification")
      [] current = "fuzz" -> Routed("verification")
      [] current = "verification" -> AfterVerification(task, requested, attempts)
      [] current = "reviewer" -> Routed("report")
      [] current = "report" -> Routed("finish")
      [] OTHER -> [Routed("report") EXCEPT !.fallback_used = TRUE]
=============================================================================
