---------------------------- MODULE TaskLifecycle ----------------------------
(***************************************************************************)
(* What the core promises about every task, whatever agents, supervisors   *)
(* and repositories are injected: a task is created once, one run at a     *)
(* time owns it, its status moves only along the lifecycle and only while  *)
(* a run owns it, and a run that has left CREATED is never repeated.       *)
(* The orchestrator is shown to implement this specification.              *)
(***************************************************************************)
EXTENDS StateManager

CONSTANT TaskIds

VARIABLES
    status,  \* the status the task repository holds, or "absent"
    running  \* the tasks owned by a run

lifecycleVars == <<status, running>>

Init ==
    /\ status = [t \in TaskIds |-> "absent"]
    /\ running = {}

Create(t) ==
    /\ status[t] = "absent"
    /\ status' = [status EXCEPT ![t] = "created"]
    /\ UNCHANGED running

\* A run takes the task and moves it out of CREATED in one step.
Start(t) ==
    /\ t \notin running
    /\ status[t] = "created"
    /\ status' = [status EXCEPT ![t] = "profiling"]
    /\ running' = running \cup {t}

\* A run that cannot begin may still fail the task.
FailToStart(t) ==
    /\ t \notin running
    /\ status[t] = "created"
    /\ status' = [status EXCEPT ![t] = "failed"]
    /\ UNCHANGED running

Advance(t, s) ==
    /\ t \in running
    /\ CanTransition(status[t], s)
    /\ s \notin Terminal
    /\ status' = [status EXCEPT ![t] = s]
    /\ UNCHANGED running

\* The run gives the task up, having brought it to an end or not.
Release(t) ==
    /\ t \in running
    /\ running' = running \ {t}
    /\ \/ UNCHANGED status
       \/ \E s \in Terminal :
            /\ CanTransition(status[t], s)
            /\ status' = [status EXCEPT ![t] = s]

Next ==
    \E t \in TaskIds :
        \/ Create(t)
        \/ Start(t)
        \/ FailToStart(t)
        \/ \E s \in TaskStatus : Advance(t, s)
        \/ Release(t)

Spec == Init /\ [][Next]_lifecycleVars

-----------------------------------------------------------------------------

TypeOK ==
    /\ status \in [TaskIds -> TaskStatus \cup {"absent"}]
    /\ running \subseteq TaskIds

\* The run that owns a task has moved it out of CREATED and not yet to an end.
OwnedIsActive ==
    \A t \in running : status[t] \notin Terminal \cup {"absent", "created"}

\* A task that a run has given up, terminal or not, is never touched again.
Frozen ==
    [][\A t \in TaskIds :
        t \notin running /\ status[t] \notin {"absent", "created"} =>
            status'[t] = status[t] /\ t \notin running']_lifecycleVars
=============================================================================
