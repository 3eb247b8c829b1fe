---------------------------- MODULE Orchestrator ----------------------------
(***************************************************************************)
(* The core (core/orchestrator.py, core/task_manager.py, evidence/store.py *)
(* and the event timeline of core/event_bus.py): several tasks, each run   *)
(* by a coroutine.  run() awaits only the agent runtime, so what it does   *)
(* before and after that await is one step each; between them the runtime  *)
(* calls back for every route, merges results, and the caller may cancel.  *)
(* The runtime is any injected one: it may call back, merge, return and    *)
(* raise in every order.  A call the code refuses (a task that is unknown, *)
(* running, terminal or half-way) raises and changes nothing.              *)
(***************************************************************************)
EXTENDS StateManager, Naturals, Sequences, FiniteSets

CONSTANTS
    TaskIds,
    MaxEvidence,  \* bound: pieces of evidence in one context
    MaxFailedStarts  \* bound: runs that fail before the task leaves CREATED

ASSUME OrchestratorAssumption ==
    /\ MaxEvidence \in Nat
    /\ MaxFailedStarts \in Nat

VARIABLES
    status,    \* repository: task.status, or "absent"
    error,     \* repository: task.error is set
    running,   \* _running_task_ids
    cached,    \* _contexts: context.task.status, or "none" without a context
    evidence,  \* _contexts: how many pieces of evidence
    reported,  \* _contexts: some report
    stored,    \* evidence store: pairs of task and index in its context
    events,    \* event bus: the lifecycle events of each task
    fault      \* history: what kept a run from ending its task, if anything

vars == <<status, error, running, cached, evidence, reported, stored, events,
          fault>>

Init ==
    /\ status = [t \in TaskIds |-> "absent"]
    /\ error = [t \in TaskIds |-> FALSE]
    /\ running = {}
    /\ cached = [t \in TaskIds |-> "none"]
    /\ evidence = [t \in TaskIds |-> 0]
    /\ reported = [t \in TaskIds |-> FALSE]
    /\ stored = {}
    /\ events = [t \in TaskIds |-> <<>>]
    /\ fault = [t \in TaskIds |-> "none"]

Publish(t, new) == events' = [events EXCEPT ![t] = @ \o new]

\* EVIDENCE_ADDED, once for each piece that was saved.
EvidenceAdded(n) == [i \in 1..n |-> "evidence_added"]

\* InMemoryTaskManager.create_task
CreateTask(t) ==
    /\ status[t] = "absent"
    /\ status' = [status EXCEPT ![t] = "created"]
    /\ UNCHANGED <<error, running, cached, evidence, reported, stored, events,
                   fault>>

\* Mutant: the cached task is changed before the repository is asked.
CacheOnly(t, s) ==
    /\ cached' = [cached EXCEPT ![t] = s]
    /\ UNCHANGED <<status, error>>

\* _advance once validated and persisted by update_task.  The error is written
\* with FAILED and cleared with every other status.
Persist(t, s) ==
    /\ status' = [status EXCEPT ![t] = s]
    /\ error' = [error EXCEPT ![t] = (s = "failed")]
    /\ cached' = [cached EXCEPT ![t] = s]

\* _mark_failed: best effort; an exception of the repository is swallowed.
\* The context of t holds the status current.
MarkFailed(t, current) ==
    IF current \in Terminal
    THEN UNCHANGED <<status, error, fault>> /\ cached' = [cached EXCEPT ![t] = current]
    ELSE \/ Persist(t, "failed") /\ UNCHANGED fault
         \/ /\ fault' = [fault EXCEPT ![t] = "unsaved"]
            /\ cached' = [cached EXCEPT ![t] = current]
            /\ UNCHANGED <<status, error>>

\* Mutant: the running mark is checked, the status of the task is not.
NotRunning(t) == t \notin running /\ status[t] # "absent"

\* The guards of run(): not running, known, and CREATED.
Runnable(t) == t \notin running /\ status[t] = "created"

\* run() up to the await: own the task, cache a fresh context, PROFILING.
StartRun(t) ==
    /\ Runnable(t)
    /\ running' = running \cup {t}
    /\ CanTransition(status[t], "profiling")
    /\ Persist(t, "profiling")
    /\ evidence' = [evidence EXCEPT ![t] = 0]
    /\ reported' = [reported EXCEPT ![t] = FALSE]
    /\ Publish(t, <<"task_started">>)
    /\ fault' = [fault EXCEPT ![t] = "none"]
    /\ UNCHANGED stored

\* run() when the repository refuses PROFILING: the whole call is one step.
StartFails(t) ==
    /\ Runnable(t)
    /\ Len(events[t]) < MaxFailedStarts
    /\ MarkFailed(t, status[t])
    /\ evidence' = [evidence EXCEPT ![t] = 0]
    /\ reported' = [reported EXCEPT ![t] = FALSE]
    /\ Publish(t, <<"task_failed">>)
    /\ UNCHANGED <<running, stored>>

-----------------------------------------------------------------------------
(* While the runtime is awaited.                                           *)

RouteStatus ==
    [planner |-> "planning", source_analysis |-> "analyzing",
     binary_analysis |-> "analyzing", fuzz |-> "dynamic_testing",
     verification |-> "verifying", reviewer |-> "verifying",
     report |-> "reporting"]

\* The routes a runtime reports: every one that has an agent.
Routes == DOMAIN RouteStatus

\* _on_route: a status that does not change is not persisted again.
RouteTo(t, r) ==
    /\ t \in running
    /\ \/ /\ RouteStatus[r] = cached[t]
          /\ UNCHANGED <<status, error, cached>>
       \/ /\ CanTransition(cached[t], RouteStatus[r])
          /\ Persist(t, RouteStatus[r])
    /\ UNCHANGED <<running, evidence, reported, stored, events, fault>>

\* Mutants: the finally clause is missing; the failure is not recorded.
KeepRunning(t, n) ==
    /\ MarkFailed(t, cached[t])
    /\ Publish(t, Append(EvidenceAdded(n), "task_failed"))
    /\ stored' = stored \cup {<<t, i>> : i \in 1..n}
    /\ UNCHANGED <<running, evidence, reported>>
NeverMarked(t, n) ==
    /\ Publish(t, Append(EvidenceAdded(n), "task_failed"))
    /\ stored' = stored \cup {<<t, i>> : i \in 1..n}
    /\ running' = running \ {t}
    /\ UNCHANGED <<status, error, cached, evidence, reported, fault>>
\* The except clause of run(), after the evidence up to n was saved, and its
\* finally clause.
HandleException(t, n) ==
    /\ MarkFailed(t, cached[t])
    /\ Publish(t, Append(EvidenceAdded(n), "task_failed"))
    /\ stored' = stored \cup {<<t, i>> : i \in 1..n}
    /\ running' = running \ {t}
    /\ UNCHANGED <<evidence, reported>>

\* _on_route raises on an illegal transition, or when it cannot be persisted;
\* the graph does not catch it.
RouteRaises(t, r) ==
    /\ t \in running
    /\ RouteStatus[r] # cached[t]
    /\ HandleException(t, 0)

\* An agent's result enters the context.
Merge(t) ==
    /\ t \in running
    /\ evidence' \in {[evidence EXCEPT ![t] = n] : n \in evidence[t]..MaxEvidence}
    /\ reported' \in {[reported EXCEPT ![t] = b] : b \in {reported[t], TRUE}}
    /\ UNCHANGED <<status, error, running, cached, stored, events, fault>>

RuntimeRaises(t) ==
    /\ t \in running
    /\ HandleException(t, 0)

\* CancelledError is no Exception: only the finally clause runs.
Cancel(t) ==
    /\ t \in running
    /\ running' = running \ {t}
    /\ fault' = [fault EXCEPT ![t] = "cancelled"]
    /\ UNCHANGED <<status, error, cached, evidence, reported, stored, events>>

-----------------------------------------------------------------------------
(* After the runtime returned: synchronous, so one step with one outcome.  *)

NoReport(t) ==
    /\ ~reported[t]
    /\ HandleException(t, 0)

\* Saving piece n + 1 raises; the first n stay saved.
SaveFails(t) ==
    /\ reported[t]
    /\ \E n \in 0..evidence[t] : n < evidence[t] /\ HandleException(t, n)

\* Every piece is saved and the task is failed without an exception.
EndFailed(t) ==
    /\ reported[t]
    /\ HandleException(t, evidence[t])

\* Mutant: the evidence is left to a later step.
CompleteUnsaved(t) ==
    /\ reported[t]
    /\ CanTransition(cached[t], "completed")
    /\ Persist(t, "completed")
    /\ running' = running \ {t}
    /\ UNCHANGED <<evidence, reported, stored, events, fault>>

Complete(t) ==
    /\ reported[t]
    /\ CanTransition(cached[t], "completed")
    /\ Persist(t, "completed")
    /\ Publish(t, EvidenceAdded(evidence[t]))
    /\ stored' = stored \cup {<<t, i>> : i \in 1..evidence[t]}
    /\ running' = running \ {t}
    /\ UNCHANGED <<evidence, reported, fault>>

\* The runtime returned; failed is outcome.execution_failed.  EndFailed is both
\* the failed outcome and a COMPLETED that is illegal or cannot be persisted.
Return(t, failed) ==
    /\ t \in running
    /\ \/ NoReport(t)
       \/ SaveFails(t)
       \/ EndFailed(t)
       \/ ~failed /\ Complete(t)

Next ==
    \E t \in TaskIds :
        \/ CreateTask(t)
        \/ StartRun(t)
        \/ StartFails(t)
        \/ \E r \in Routes : RouteTo(t, r)
        \/ \E r \in Routes : RouteRaises(t, r)
        \/ Merge(t)
        \/ RuntimeRaises(t)
        \/ Cancel(t)
        \/ \E failed \in BOOLEAN : Return(t, failed)

Spec == Init /\ [][Next]_vars

-----------------------------------------------------------------------------
(* Properties.                                                             *)

TypeOK ==
    /\ status \in [TaskIds -> TaskStatus \cup {"absent"}]
    /\ error \in [TaskIds -> BOOLEAN]
    /\ running \subseteq TaskIds
    /\ cached \in [TaskIds -> TaskStatus \cup {"none"}]
    /\ evidence \in [TaskIds -> 0..MaxEvidence]
    /\ reported \in [TaskIds -> BOOLEAN]
    /\ stored \subseteq TaskIds \X (1..MaxEvidence)
    /\ events \in [TaskIds -> Seq({"task_started", "evidence_added", "task_failed"})]
    /\ fault \in [TaskIds -> {"none", "unsaved", "cancelled"}]

\* A context never shows a status the repository does not hold, although the
\* two are written one after the other and the second write may be refused.
ContextAgrees ==
    \A t \in TaskIds : cached[t] # "none" => cached[t] = status[t]

\* A run that has given its task up has ended it, unless the caller cancelled
\* it or the repository refused to record the failure.
ReleasedIsTerminal ==
    \A t \in TaskIds :
        cached[t] # "none" /\ t \notin running /\ fault[t] = "none" =>
            status[t] \in Terminal

\* The pieces the store holds for a task, the places of its timeline that
\* announce one, and what its timeline ends with.
Saved(t) == {i \in 1..MaxEvidence : <<t, i>> \in stored}
Shown(t) == {i \in DOMAIN events[t] : events[t][i] = "evidence_added"}
LastEvent(t) == events[t][Len(events[t])]

\* What the outcome of a task says is what the store and the timeline show.  A
\* completed task has a report, every piece of its evidence stored and shown,
\* and no trace of a failure.  A failed one keeps its context and carries an
\* error, its timeline ends with the failure, and nothing was stored for it
\* that the timeline does not show.
OutcomeIsVisible ==
    \A t \in TaskIds :
        /\ status[t] = "completed" =>
            /\ reported[t] /\ ~error[t]
            /\ Saved(t) = 1..evidence[t] /\ Cardinality(Shown(t)) = evidence[t]
            /\ LastEvent(t) # "task_failed"
        /\ status[t] = "failed" =>
            /\ error[t] /\ cached[t] = "failed"
            /\ LastEvent(t) = "task_failed"
            /\ Cardinality(Shown(t)) = Cardinality(Saved(t))

\* The core keeps the promise of TaskLifecycle.
Lifecycle == INSTANCE TaskLifecycle
ImplementsLifecycle == Lifecycle!Spec
=============================================================================
