--------------------------- MODULE MCAgentRuntime ---------------------------
(* Instances of AgentRuntime for TLC; the cfg files choose among them.     *)
EXTENDS AgentRuntime

\* One task: its attributes are read by the default supervisor and the planner
\* only.
FuzzedSource ==
    {t \in TaskAttributes : t.target_type = "source"
        /\ t.fuzz_authorized /\ t.dynamic_validation}

\* Any injected supervisor.  Two flags a decision may carry are left off: they
\* are copied into the metadata and read by no property.
AnyDecision ==
    {d \in RouteDecision : ~d.step_limit_reached /\ ~d.retry_exhausted}

\* An auditor with two identifiers of its own, one for findings the reviewer
\* has no note on and one for findings it has.
StableIds ==
    {c \in [id: {<<0, 1>>, <<0, 2>>}, status: Statuses,
            stray: BOOLEAN, sound: BOOLEAN] : c.sound <=> c.id = <<0, 1>>}
=============================================================================
