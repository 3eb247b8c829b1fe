------------------------------ MODULE MCTaskRun ------------------------------
(* An instance of TaskRun for TLC: the default supervisor, every task with a *)
(* source target and one task for each other target.                       *)
EXTENDS TaskRun

\* The default supervisor.
NoDecisions == {}

\* An auditor with two identifiers of its own, one for findings the reviewer
\* has no note on and one for findings it has.
StableIds ==
    {c \in [id: {<<0, 1>>, <<0, 2>>}, status: Statuses,
            stray: BOOLEAN, sound: BOOLEAN] : c.sound <=> c.id = <<0, 1>>}

Targets ==
    {t \in TaskAttributes :
        t.target_type = "source" \/ (t.fuzz_authorized /\ t.dynamic_validation)}
=============================================================================
