------------------------- MODULE Orchestrator_proofs -------------------------
(***************************************************************************)
(* For every set of tasks and every bound: the types of Orchestrator, that *)
(* a context never disagrees with the repository, that a run gives a task  *)
(* up only at an end unless it was cancelled or could not save the         *)
(* failure, that the core implements TaskLifecycle, and that the outcome   *)
(* of a task is what the store and the timeline show.  What is proved of   *)
(* TaskLifecycle itself is carried over to the core by the refinement.     *)
(***************************************************************************)
EXTENDS Orchestrator, FiniteSetTheorems, TLAPS

\* The status a run leaves its task with while it owns it.
Active == TaskStatus \ (Terminal \cup {"created"})

\* A run owns only tasks whose context and repository show the same active
\* status.  This is what makes ContextAgrees and the refinement inductive: the
\* guards of the code read the context, the lifecycle speaks of the repository.
OwnedInv == \A t \in running : cached[t] = status[t] /\ status[t] \in Active

IInv == TypeOK /\ ContextAgrees /\ OwnedInv /\ ReleasedIsTerminal

LEMMA TransitionsProceed ==
    ASSUME NEW s \in TaskStatus, NEW u, CanTransition(s, u)
    PROVE  /\ u \in TaskStatus \ {"created"}
           /\ s \notin Terminal
  BY DEF CanTransition, Transitions, TaskStatus, Terminal

\* Every active status may fail.
LEMMA ActiveMayFail ==
    ASSUME NEW s \in TaskStatus \ Terminal
    PROVE  CanTransition(s, "failed")
  BY DEF CanTransition, Transitions, TaskStatus, Terminal

LEMMA RouteStatusActive ==
    ASSUME NEW r \in Routes
    PROVE  RouteStatus[r] \in Active
  BY DEF Routes, RouteStatus, Active, TaskStatus, Terminal

\* _mark_failed on a task whose context, if it has one, shows the status
\* current: it writes FAILED, or leaves the status and says so in fault.
LEMMA MarkFailedOutcome ==
    ASSUME TypeOK, NEW t \in TaskIds,
           NEW current \in TaskStatus \ Terminal, current = status[t],
           MarkFailed(t, current)
    PROVE  /\ status' \in [TaskIds -> TaskStatus \cup {"absent"}]
           /\ error' \in [TaskIds -> BOOLEAN]
           /\ cached' \in [TaskIds -> TaskStatus \cup {"none"}]
           /\ fault' \in [TaskIds -> {"none", "unsaved", "cancelled"}]
           /\ cached'[t] = status'[t]
           /\ \A u \in TaskIds \ {t} :
                cached'[u] = cached[u] /\ status'[u] = status[u] /\ fault'[u] = fault[u]
           /\ \/ status' = [status EXCEPT ![t] = "failed"]
              \/ status' = status /\ fault'[t] = "unsaved"
<1>1. CASE Persist(t, "failed") /\ UNCHANGED fault
  BY <1>1 DEF Persist, TypeOK, TaskStatus
<1>2. CASE /\ fault' = [fault EXCEPT ![t] = "unsaved"]
           /\ cached' = [cached EXCEPT ![t] = current]
           /\ UNCHANGED <<status, error>>
  BY <1>2 DEF TypeOK
<1> QED
  BY <1>1, <1>2 DEF MarkFailed

\* What an exception out of run() leaves behind, after n pieces were saved.
LEMMA ExceptionKeepsIInv ==
    ASSUME OrchestratorAssumption, IInv, NEW t \in TaskIds, t \in running,
           NEW n \in 0..MaxEvidence, HandleException(t, n)
    PROVE  /\ IInv'
           /\ \/ status' = [status EXCEPT ![t] = "failed"]
              \/ status' = status
<1>1. cached[t] = status[t] /\ cached[t] \in TaskStatus \ Terminal
  BY DEF IInv, OwnedInv, Active
<1>2. MarkFailed(t, cached[t]) /\ running' = running \ {t}
  BY DEF HandleException
<1>3. TypeOK
  BY DEF IInv
<1>4. /\ status' \in [TaskIds -> TaskStatus \cup {"absent"}]
      /\ error' \in [TaskIds -> BOOLEAN]
      /\ cached' \in [TaskIds -> TaskStatus \cup {"none"}]
      /\ fault' \in [TaskIds -> {"none", "unsaved", "cancelled"}]
      /\ cached'[t] = status'[t]
      /\ \A u \in TaskIds \ {t} :
           cached'[u] = cached[u] /\ status'[u] = status[u] /\ fault'[u] = fault[u]
      /\ \/ status' = [status EXCEPT ![t] = "failed"]
         \/ status' = status /\ fault'[t] = "unsaved"
  BY <1>1, <1>2, <1>3, MarkFailedOutcome
<1>5. TypeOK'
  <2>1. events' \in [TaskIds -> Seq({"task_started", "evidence_added", "task_failed"})]
    <3>1. Append(EvidenceAdded(n), "task_failed")
            \in Seq({"task_started", "evidence_added", "task_failed"})
      BY DEF EvidenceAdded
    <3> QED
      BY <3>1, <1>3 DEF HandleException, Publish, TypeOK
  <2>2. stored' \subseteq TaskIds \X (1..MaxEvidence)
    BY <1>3, OrchestratorAssumption DEF HandleException, TypeOK, OrchestratorAssumption
  <2> QED
    BY <2>1, <2>2, <1>2, <1>3, <1>4 DEF TypeOK, HandleException
<1>6. ContextAgrees' /\ OwnedInv' /\ ReleasedIsTerminal'
  <2>1. ContextAgrees'
    BY <1>3, <1>4 DEF IInv, ContextAgrees
  <2>2. OwnedInv'
    BY <1>2, <1>3, <1>4 DEF IInv, OwnedInv, TypeOK
  <2>3. ReleasedIsTerminal'
    BY <1>2, <1>3, <1>4 DEF IInv, ReleasedIsTerminal, TypeOK, Terminal
  <2> QED
    BY <2>1, <2>2, <2>3
<1> QED
  BY <1>4, <1>5, <1>6 DEF IInv

-----------------------------------------------------------------------------
(* Each action keeps the invariant and is a step of TaskLifecycle.         *)

LEMMA CreateTaskStep ==
    ASSUME IInv, NEW t \in TaskIds, CreateTask(t)
    PROVE  IInv' /\ Lifecycle!Create(t)
<1>1. TypeOK' /\ OwnedInv'
  BY DEF IInv, TypeOK, OwnedInv, CreateTask, TaskStatus, Active
<1>2. cached[t] = "none"
  BY DEF IInv, TypeOK, ContextAgrees, CreateTask, TaskStatus
<1>3. ContextAgrees' /\ ReleasedIsTerminal'
  BY <1>2 DEF IInv, TypeOK, ContextAgrees, ReleasedIsTerminal, CreateTask
<1> QED
  BY <1>1, <1>3 DEF IInv, CreateTask, Lifecycle!Create

LEMMA StartRunStep ==
    ASSUME OrchestratorAssumption, IInv, NEW t \in TaskIds, StartRun(t)
    PROVE  IInv' /\ Lifecycle!Start(t)
<1>1. TypeOK'
  BY DEF IInv, TypeOK, OrchestratorAssumption, StartRun, Persist, Publish, TaskStatus
<1>2. OwnedInv'
  BY DEF IInv, TypeOK, OwnedInv, StartRun, Persist, Active, TaskStatus, Terminal
<1>3. ContextAgrees' /\ ReleasedIsTerminal'
  BY DEF IInv, TypeOK, ContextAgrees, ReleasedIsTerminal, StartRun, Persist
<1> QED
  BY <1>1, <1>2, <1>3 DEF IInv, TypeOK, StartRun, Runnable, Persist, Lifecycle!Start

LEMMA StartFailsStep ==
    ASSUME OrchestratorAssumption, IInv, NEW t \in TaskIds, StartFails(t)
    PROVE  IInv' /\ (Lifecycle!FailToStart(t) \/ UNCHANGED <<status, running>>)
<1>1. /\ status[t] \in TaskStatus \ Terminal /\ t \notin running
      /\ MarkFailed(t, status[t]) /\ TypeOK
  BY DEF IInv, StartFails, Runnable, TaskStatus, Terminal
<1>2. /\ status' \in [TaskIds -> TaskStatus \cup {"absent"}]
      /\ error' \in [TaskIds -> BOOLEAN]
      /\ cached' \in [TaskIds -> TaskStatus \cup {"none"}]
      /\ fault' \in [TaskIds -> {"none", "unsaved", "cancelled"}]
      /\ cached'[t] = status'[t]
      /\ \A u \in TaskIds \ {t} :
           cached'[u] = cached[u] /\ status'[u] = status[u] /\ fault'[u] = fault[u]
      /\ \/ status' = [status EXCEPT ![t] = "failed"]
         \/ status' = status /\ fault'[t] = "unsaved"
  BY <1>1, MarkFailedOutcome
<1>3. TypeOK'
  BY <1>1, <1>2 DEF TypeOK, OrchestratorAssumption, StartFails, Publish
<1>4. OwnedInv'
  BY <1>1, <1>2 DEF IInv, TypeOK, OwnedInv, StartFails
<1>5. ContextAgrees' /\ ReleasedIsTerminal'
  BY <1>1, <1>2 DEF IInv, TypeOK, ContextAgrees, ReleasedIsTerminal, StartFails, Terminal
<1> QED
  BY <1>2, <1>3, <1>4, <1>5 DEF IInv, StartFails, Runnable, Lifecycle!FailToStart

LEMMA RouteToStep ==
    ASSUME IInv, NEW t \in TaskIds, NEW r \in Routes, RouteTo(t, r)
    PROVE  /\ IInv'
           /\ \/ Lifecycle!Advance(t, RouteStatus[r])
              \/ UNCHANGED <<status, running>>
<1>1. RouteStatus[r] \in Active
  BY RouteStatusActive
<1>2. CASE UNCHANGED <<status, error, cached>>
  BY <1>2 DEF IInv, TypeOK, ContextAgrees, OwnedInv, ReleasedIsTerminal, RouteTo
<1>3. CASE CanTransition(cached[t], RouteStatus[r]) /\ Persist(t, RouteStatus[r])
  <2>1. TypeOK'
    BY <1>1, <1>3 DEF IInv, TypeOK, RouteTo, Persist, Active
  <2>2. ContextAgrees' /\ OwnedInv' /\ ReleasedIsTerminal'
    BY <1>1, <1>3
       DEF IInv, TypeOK, ContextAgrees, OwnedInv, ReleasedIsTerminal, RouteTo, Persist
  <2>3. CanTransition(status[t], RouteStatus[r])
    BY <1>3 DEF IInv, OwnedInv, RouteTo
  <2>4. Lifecycle!CanTransition(status[t], RouteStatus[r])
    BY <2>3 DEF CanTransition, Transitions, Lifecycle!CanTransition, Lifecycle!Transitions
  <2>5. Lifecycle!Advance(t, RouteStatus[r])
    BY <1>1, <1>3, <2>4
       DEF RouteTo, Persist, Lifecycle!Advance, Active, Terminal, Lifecycle!Terminal
  <2> QED
    BY <2>1, <2>2, <2>5 DEF IInv
<1> QED
  BY <1>2, <1>3 DEF RouteTo

LEMMA MergeStep ==
    ASSUME OrchestratorAssumption, IInv, NEW t \in TaskIds, Merge(t)
    PROVE  IInv' /\ UNCHANGED <<status, running>>
<1>1. TypeOK'
  <2>1. PICK n \in evidence[t]..MaxEvidence : evidence' = [evidence EXCEPT ![t] = n]
    BY DEF Merge
  <2>2. n \in 0..MaxEvidence
    BY <2>1 DEF IInv, TypeOK, OrchestratorAssumption
  <2>3. PICK b \in {reported[t], TRUE} : reported' = [reported EXCEPT ![t] = b]
    BY DEF Merge
  <2>4. b \in BOOLEAN
    BY <2>3 DEF IInv, TypeOK
  <2> QED
    BY <2>1, <2>2, <2>3, <2>4 DEF IInv, TypeOK, Merge
<1> QED
  BY <1>1 DEF IInv, ContextAgrees, OwnedInv, ReleasedIsTerminal, Merge

\* An exception out of run() is a Release that may have failed the task.
LEMMA ExceptionStep ==
    ASSUME OrchestratorAssumption, IInv, NEW t \in TaskIds, t \in running,
           NEW n \in 0..MaxEvidence, HandleException(t, n)
    PROVE  IInv' /\ Lifecycle!Release(t)
<1>1. IInv' /\ (status' = [status EXCEPT ![t] = "failed"] \/ status' = status)
  BY ExceptionKeepsIInv
<1>2. running' = running \ {t}
  BY DEF HandleException
<1>3. Lifecycle!CanTransition(status[t], "failed")
  BY DEF IInv, OwnedInv, Active, TaskStatus, Terminal,
         Lifecycle!CanTransition, Lifecycle!Transitions
<1>4. "failed" \in Lifecycle!Terminal
  BY DEF Lifecycle!Terminal
<1>5. CASE status' = status
  BY <1>1, <1>2, <1>5 DEF Lifecycle!Release
<1>6. CASE status' = [status EXCEPT ![t] = "failed"]
  BY <1>1, <1>2, <1>3, <1>4, <1>6 DEF Lifecycle!Release
<1> QED
  BY <1>1, <1>5, <1>6

LEMMA CancelStep ==
    ASSUME IInv, NEW t \in TaskIds, Cancel(t)
    PROVE  IInv' /\ Lifecycle!Release(t)
  BY DEF IInv, TypeOK, ContextAgrees, OwnedInv, ReleasedIsTerminal, Cancel,
         Lifecycle!Release

LEMMA CompleteStep ==
    ASSUME OrchestratorAssumption, IInv, NEW t \in TaskIds, t \in running, Complete(t)
    PROVE  IInv' /\ Lifecycle!Release(t)
<1>1. EvidenceAdded(evidence[t])
        \in Seq({"task_started", "evidence_added", "task_failed"})
  BY DEF IInv, TypeOK, EvidenceAdded, OrchestratorAssumption
<1>2. stored' \subseteq TaskIds \X (1..MaxEvidence)
  BY DEF IInv, TypeOK, Complete, OrchestratorAssumption
<1>3. TypeOK'
  BY <1>1, <1>2 DEF IInv, TypeOK, Complete, Persist, Publish, TaskStatus
<1>4. ContextAgrees' /\ OwnedInv' /\ ReleasedIsTerminal'
  BY DEF IInv, TypeOK, ContextAgrees, OwnedInv, ReleasedIsTerminal, Complete, Persist,
         Terminal
<1>5. CanTransition(status[t], "completed")
  BY DEF IInv, OwnedInv, Complete
<1>6. Lifecycle!CanTransition(status[t], "completed") /\ "completed" \in Lifecycle!Terminal
  BY <1>5 DEF CanTransition, Transitions, Lifecycle!CanTransition, Lifecycle!Transitions,
              Lifecycle!Terminal
<1>7. Lifecycle!Release(t)
  BY <1>6 DEF Complete, Persist, Lifecycle!Release
<1> QED
  BY <1>3, <1>4, <1>7 DEF IInv

LEMMA ReturnStep ==
    ASSUME OrchestratorAssumption, IInv, NEW t \in TaskIds, NEW failed \in BOOLEAN,
           Return(t, failed)
    PROVE  IInv' /\ Lifecycle!Release(t)
<1>1. t \in running
  BY DEF Return
<1>2. CASE NoReport(t)
  <2>1. 0 \in 0..MaxEvidence
    BY DEF OrchestratorAssumption
  <2> QED
    BY <1>1, <1>2, <2>1, ExceptionStep DEF NoReport
<1>3. CASE SaveFails(t)
  <2>1. PICK n \in 0..evidence[t] : HandleException(t, n)
    BY <1>3 DEF SaveFails
  <2>2. n \in 0..MaxEvidence
    BY <2>1 DEF IInv, TypeOK, OrchestratorAssumption
  <2> QED
    BY <1>1, <2>1, <2>2, ExceptionStep
<1>4. CASE EndFailed(t)
  <2>1. evidence[t] \in 0..MaxEvidence
    BY DEF IInv, TypeOK
  <2> QED
    BY <1>1, <1>4, <2>1, ExceptionStep DEF EndFailed
<1>5. CASE Complete(t)
  BY <1>1, <1>5, CompleteStep
<1> QED
  BY <1>2, <1>3, <1>4, <1>5 DEF Return

LEMMA NextStep ==
    ASSUME OrchestratorAssumption, IInv, [Next]_vars
    PROVE  IInv' /\ [Lifecycle!Next]_<<status, running>>
<1>1. CASE UNCHANGED vars
  BY <1>1 DEF vars, IInv, TypeOK, ContextAgrees, OwnedInv, ReleasedIsTerminal
<1>2. ASSUME NEW t \in TaskIds, CreateTask(t)
      PROVE  IInv' /\ [Lifecycle!Next]_<<status, running>>
  BY <1>2, CreateTaskStep DEF Lifecycle!Next
<1>3. ASSUME NEW t \in TaskIds, StartRun(t)
      PROVE  IInv' /\ [Lifecycle!Next]_<<status, running>>
  BY <1>3, StartRunStep DEF Lifecycle!Next
<1>4. ASSUME NEW t \in TaskIds, StartFails(t)
      PROVE  IInv' /\ [Lifecycle!Next]_<<status, running>>
  BY <1>4, StartFailsStep DEF Lifecycle!Next
<1>5. ASSUME NEW t \in TaskIds, NEW r \in Routes, RouteTo(t, r)
      PROVE  IInv' /\ [Lifecycle!Next]_<<status, running>>
  <2>1. RouteStatus[r] \in Lifecycle!TaskStatus
    BY RouteStatusActive DEF Active, TaskStatus, Lifecycle!TaskStatus
  <2> QED
    BY <1>5, <2>1, RouteToStep DEF Lifecycle!Next
<1>6. ASSUME NEW t \in TaskIds, NEW r \in Routes, RouteRaises(t, r)
      PROVE  IInv' /\ [Lifecycle!Next]_<<status, running>>
  <2>1. 0 \in 0..MaxEvidence
    BY DEF OrchestratorAssumption
  <2> QED
    BY <1>6, <2>1, ExceptionStep DEF RouteRaises, Lifecycle!Next
<1>7. ASSUME NEW t \in TaskIds, Merge(t)
      PROVE  IInv' /\ [Lifecycle!Next]_<<status, running>>
  BY <1>7, MergeStep
<1>8. ASSUME NEW t \in TaskIds, RuntimeRaises(t)
      PROVE  IInv' /\ [Lifecycle!Next]_<<status, running>>
  <2>1. 0 \in 0..MaxEvidence
    BY DEF OrchestratorAssumption
  <2> QED
    BY <1>8, <2>1, ExceptionStep DEF RuntimeRaises, Lifecycle!Next
<1>9. ASSUME NEW t \in TaskIds, Cancel(t)
      PROVE  IInv' /\ [Lifecycle!Next]_<<status, running>>
  BY <1>9, CancelStep DEF Lifecycle!Next
<1>10. ASSUME NEW t \in TaskIds, NEW failed \in BOOLEAN, Return(t, failed)
       PROVE  IInv' /\ [Lifecycle!Next]_<<status, running>>
  BY <1>10, ReturnStep DEF Lifecycle!Next
<1> QED
  BY <1>1, <1>2, <1>3, <1>4, <1>5, <1>6, <1>7, <1>8, <1>9, <1>10 DEF Next

LEMMA InitStep == OrchestratorAssumption /\ Init => IInv /\ Lifecycle!Init
  BY DEF OrchestratorAssumption, Init, IInv, TypeOK, ContextAgrees, OwnedInv,
         ReleasedIsTerminal, Lifecycle!Init

-----------------------------------------------------------------------------

\* The inductive invariant holds in every reachable state.
THEOREM InductiveInvariant == Spec => []IInv
  BY OrchestratorAssumption, InitStep, NextStep, PTL DEF Spec

\* The variables keep their types.
THEOREM TypeCorrect == Spec => []TypeOK
<1>1. IInv => TypeOK
  BY DEF IInv
<1> QED
  BY <1>1, InductiveInvariant, PTL

\* The cached context and the repository never disagree.
THEOREM ContextNeverStale == Spec => []ContextAgrees
<1>1. IInv => ContextAgrees
  BY DEF IInv
<1> QED
  BY <1>1, InductiveInvariant, PTL

\* A run gives its task up only at an end, cancellation and a repository that
\* refuses to record the failure excepted.
THEOREM ReleasedAtAnEnd == Spec => []ReleasedIsTerminal
<1>1. IInv => ReleasedIsTerminal
  BY DEF IInv
<1> QED
  BY <1>1, InductiveInvariant, PTL

\* The core implements the abstract lifecycle: the initial states map to initial
\* states, and every step to a step or a stutter.
THEOREM CoreImplementsLifecycle == Spec => ImplementsLifecycle
<1>1. OrchestratorAssumption /\ Init => Lifecycle!Init
  BY InitStep
<1>2. OrchestratorAssumption /\ IInv /\ [Next]_vars => [Lifecycle!Next]_<<status, running>>
  BY NextStep
<1> QED
  BY <1>1, <1>2, OrchestratorAssumption, InductiveInvariant, PTL
     DEF Spec, ImplementsLifecycle, Lifecycle!Spec, Lifecycle!lifecycleVars

-----------------------------------------------------------------------------
(* What an outcome shows.  Until its run ends, nothing is stored or shown  *)
(* for a task, and the timeline of a task that runs ends with its start.   *)

Told(t) ==
    /\ t \in running \/ status[t] \in {"absent", "created"} => Saved(t) = {} /\ Shown(t) = {}
    /\ t \in running => events[t] # <<>> /\ LastEvent(t) = "task_started"
    /\ status[t] = "completed" =>
        /\ reported[t] /\ ~error[t]
        /\ Saved(t) = 1..evidence[t] /\ Cardinality(Shown(t)) = evidence[t]
        /\ LastEvent(t) # "task_failed"
    /\ status[t] = "failed" =>
        /\ error[t] /\ cached[t] = "failed"
        /\ LastEvent(t) = "task_failed"
        /\ Cardinality(Shown(t)) = Cardinality(Saved(t))

AllTold == \A t \in TaskIds : Told(t)

\* A step that leaves a task alone.
LEMMA ToldElsewhere ==
    ASSUME NEW u \in TaskIds, Told(u),
           status'[u] = status[u], error'[u] = error[u], cached'[u] = cached[u],
           evidence'[u] = evidence[u], reported'[u] = reported[u],
           events'[u] = events[u], u \in running' <=> u \in running,
           Saved(u)' = Saved(u)
    PROVE  Told(u)'
BY DEF Told, Shown, LastEvent

LEMMA Concatenation ==
    ASSUME NEW E, NEW a \in Seq(E), NEW b \in Seq(E), NEW n \in Nat, Len(b) = n
    PROVE  /\ DOMAIN (a \o b) = 1..(Len(a) + n) /\ Len(a \o b) = Len(a) + n
           /\ \A i \in 1..(Len(a) + n) :
                (a \o b)[i] = IF i <= Len(a) THEN a[i] ELSE b[i - Len(a)]
OBVIOUS

\* The timeline after a run whose task had none of its evidence shown.
LEMMA Announced ==
    ASSUME NEW t \in TaskIds, NEW n \in Nat,
           events \in [TaskIds -> Seq({"task_started", "evidence_added", "task_failed"})],
           Shown(t) = {}
    PROVE  /\ Publish(t, Append(EvidenceAdded(n), "task_failed")) =>
                Cardinality(Shown(t)') = n /\ LastEvent(t)' = "task_failed"
           /\ Publish(t, EvidenceAdded(n)) =>
                /\ Cardinality(Shown(t)') = n
                /\ events[t] # <<>> /\ LastEvent(t) = "task_started" =>
                    LastEvent(t)' # "task_failed"
<1> DEFINE E == {"task_started", "evidence_added", "task_failed"}
           l == Len(events[t])
           old == events[t]
           added == EvidenceAdded(n)
<1>1. old \in Seq(E) /\ l \in Nat /\ DOMAIN old = 1..l
  OBVIOUS
<1>2. added \in Seq(E) /\ Len(added) = n /\ \A i \in 1..n : added[i] = "evidence_added"
  BY DEF EvidenceAdded
<1>3. \A i \in 1..l : old[i] # "evidence_added"
  BY <1>1 DEF Shown
<1>4. Cardinality((l + 1)..(l + n)) = n
  <2>1. l + 1 \in Int /\ l + n \in Int
    BY <1>1
  <2>2. Cardinality((l + 1)..(l + n)) = IF l + 1 > l + n THEN 0 ELSE (l + n) - (l + 1) + 1
    BY <2>1, FS_Interval
  <2> QED
    BY <1>1, <2>2
<1>5. ASSUME Publish(t, Append(added, "task_failed"))
      PROVE  Cardinality(Shown(t)') = n /\ LastEvent(t)' = "task_failed"
  <2> DEFINE new == Append(added, "task_failed")
  <2>1. events'[t] = old \o new
    BY <1>5 DEF Publish
  <2>2. /\ new \in Seq(E) /\ Len(new) = n + 1 /\ new[n + 1] = "task_failed"
        /\ \A i \in 1..n : new[i] = "evidence_added"
    BY <1>2
  <2> HIDE DEF new, old, added
  <2>3. /\ DOMAIN (old \o new) = 1..(l + n + 1) /\ Len(old \o new) = l + n + 1
        /\ \A i \in 1..(l + n + 1) :
            (old \o new)[i] = IF i <= l THEN old[i] ELSE new[i - l]
    BY <1>1, <2>2, Concatenation DEF old
  <2>4. (old \o new)[l + n + 1] = "task_failed"
    BY <1>1, <2>2, <2>3
  <2>5. {i \in 1..(l + n + 1) : (old \o new)[i] = "evidence_added"} = (l + 1)..(l + n)
    <3>1. \A i \in 1..(l + n + 1) : i <= l \/ i \in (l + 1)..(l + n) \/ i = l + n + 1
      BY <1>1
    <3>2. \A i \in 1..l : (old \o new)[i] # "evidence_added"
      BY <1>1, <1>3, <2>3
    <3>3. \A i \in (l + 1)..(l + n) : i - l \in 1..n /\ ~(i <= l) /\ i \in 1..(l + n + 1)
      BY <1>1
    <3>4. \A i \in (l + 1)..(l + n) : (old \o new)[i] = "evidence_added"
      BY <2>2, <2>3, <3>3
    <3>5. \A i \in 1..(l + n + 1) : i <= l => i \in 1..l
      BY <1>1
    <3> QED
      BY <2>4, <3>1, <3>2, <3>3, <3>4, <3>5
  <2> QED
    BY <1>4, <2>1, <2>3, <2>4, <2>5 DEF Shown, LastEvent
<1>6. ASSUME Publish(t, added)
      PROVE  /\ Cardinality(Shown(t)') = n
             /\ events[t] # <<>> /\ LastEvent(t) = "task_started" =>
                 LastEvent(t)' # "task_failed"
  <2>1. events'[t] = old \o added
    BY <1>6 DEF Publish
  <2> HIDE DEF old, added
  <2>2. /\ DOMAIN (old \o added) = 1..(l + n) /\ Len(old \o added) = l + n
        /\ \A i \in 1..(l + n) :
            (old \o added)[i] = IF i <= l THEN old[i] ELSE added[i - l]
    BY <1>1, <1>2 DEF old
  <2>3. \A i \in 1..l : i \in 1..(l + n) /\ (old \o added)[i] = old[i]
    BY <1>1, <2>2
  <2>4. \A i \in (l + 1)..(l + n) :
            i \in 1..(l + n) /\ (old \o added)[i] = "evidence_added"
    <3>1. \A i \in (l + 1)..(l + n) : i - l \in 1..n /\ ~(i <= l) /\ i \in 1..(l + n)
      BY <1>1
    <3> QED
      BY <1>2, <2>2, <3>1
  <2>5. \A i \in 1..(l + n) : i \in 1..l \/ i \in (l + 1)..(l + n)
    BY <1>1
  <2>6. {i \in 1..(l + n) : (old \o added)[i] = "evidence_added"} = (l + 1)..(l + n)
    BY <1>3, <2>3, <2>4, <2>5
  <2>7. ASSUME events[t] # <<>>, LastEvent(t) = "task_started"
        PROVE  (old \o added)[l + n] # "task_failed"
    <3>1. l # 0 /\ old[l] = "task_started"
      BY <1>1, <2>7 DEF LastEvent, old
    <3>2. l + n \in 1..(l + n)
      BY <1>1, <3>1
    <3>3. CASE l + n \in 1..l
      <4>1. l + n = l
        BY <1>1, <3>3
      <4> QED
        BY <3>1, <3>3, <4>1, <2>3
    <3>4. CASE l + n \in (l + 1)..(l + n)
      BY <2>4, <3>4
    <3> QED
      BY <2>5, <3>2, <3>3, <3>4
  <2> QED
    BY <1>4, <2>1, <2>2, <2>6, <2>7 DEF Shown, LastEvent
<1> QED
  BY <1>5, <1>6

\* The timeline after an event that is no evidence.
LEMMA OneEvent ==
    ASSUME NEW t \in TaskIds, NEW e \in {"task_started", "task_failed"},
           events \in [TaskIds -> Seq({"task_started", "evidence_added", "task_failed"})],
           Publish(t, <<e>>)
    PROVE  Shown(t)' = Shown(t) /\ LastEvent(t)' = e /\ events'[t] # <<>>
<1> DEFINE E == {"task_started", "evidence_added", "task_failed"}
           old == events[t]
           new == <<e>>
<1>1. old \in Seq(E) /\ new \in Seq(E) /\ Len(new) = 1 /\ new[1] = e
  OBVIOUS
<1>2. events'[t] = old \o new
  BY DEF Publish
<1>3. Len(old) \in Nat /\ DOMAIN old = 1..Len(old) /\ e # "evidence_added"
  BY <1>1
<1> HIDE DEF old, new
<1>4. /\ DOMAIN (old \o new) = 1..(Len(old) + 1) /\ Len(old \o new) = Len(old) + 1
      /\ \A i \in 1..(Len(old) + 1) :
            (old \o new)[i] = IF i <= Len(old) THEN old[i] ELSE new[i - Len(old)]
  BY <1>1, Concatenation
<1>5. (old \o new)[Len(old) + 1] = e
  BY <1>1, <1>3, <1>4
<1>6. \A i \in 1..Len(old) : i \in 1..(Len(old) + 1) /\ (old \o new)[i] = old[i]
  BY <1>3, <1>4
<1>7. \A i \in 1..(Len(old) + 1) : i \in 1..Len(old) \/ i = Len(old) + 1
  BY <1>3
<1>8. {i \in 1..(Len(old) + 1) : (old \o new)[i] = "evidence_added"}
        = {i \in 1..Len(old) : old[i] = "evidence_added"}
  BY <1>3, <1>5, <1>6, <1>7
<1>9. (old \o new) # <<>>
  BY <1>3, <1>4
<1> QED
  BY <1>2, <1>3, <1>4, <1>5, <1>8, <1>9 DEF Shown, LastEvent, old

\* The store after the first n pieces of a task were saved.
LEMMA SavedAfter ==
    ASSUME OrchestratorAssumption, NEW t \in TaskIds, NEW n \in 0..MaxEvidence,
           stored' = stored \cup {<<t, i>> : i \in 1..n}
    PROVE  /\ \A u \in TaskIds \ {t} : Saved(u)' = Saved(u)
           /\ Saved(t) = {} => Saved(t)' = 1..n
<1>1. \A i \in 1..n : i \in 1..MaxEvidence
  BY DEF OrchestratorAssumption
<1> QED
  BY <1>1 DEF Saved

-----------------------------------------------------------------------------
(* Each action keeps what is told of every task.                           *)

LEMMA CreateTaskTold ==
    ASSUME IInv, AllTold, NEW t \in TaskIds, CreateTask(t)
    PROVE  AllTold'
<1>1. ASSUME NEW u \in TaskIds \ {t}
      PROVE  Told(u)'
  BY <1>1, ToldElsewhere DEF AllTold, CreateTask, Saved, IInv, TypeOK
<1>2. Told(t)'
  <2>1. Told(t) /\ status'[t] = "created" /\ running' = running /\ t \notin running
    BY DEF AllTold, CreateTask, IInv, TypeOK, OwnedInv, Active, TaskStatus
  <2>2. Saved(t)' = {} /\ Shown(t)' = {}
    BY <2>1 DEF CreateTask, Told, Saved, Shown
  <2> QED
    BY <2>1, <2>2 DEF Told
<1> QED
  BY <1>1, <1>2 DEF AllTold

LEMMA StartRunTold ==
    ASSUME IInv, AllTold, NEW t \in TaskIds, StartRun(t)
    PROVE  AllTold'
<1>1. ASSUME NEW u \in TaskIds \ {t}
      PROVE  Told(u)'
  BY <1>1, ToldElsewhere
     DEF AllTold, StartRun, Persist, Publish, Saved, IInv, TypeOK
<1>2. Told(t)'
  <2>1. status'[t] = "profiling" /\ Saved(t)' = {} /\ Shown(t) = {}
    BY DEF AllTold, Told, StartRun, Runnable, Persist, Saved, IInv, TypeOK
  <2>2. Shown(t)' = Shown(t) /\ LastEvent(t)' = "task_started" /\ events'[t] # <<>>
    BY OneEvent DEF StartRun, IInv, TypeOK
  <2> QED
    BY <2>1, <2>2 DEF Told
<1> QED
  BY <1>1, <1>2 DEF AllTold

LEMMA StartFailsTold ==
    ASSUME IInv, AllTold, NEW t \in TaskIds, StartFails(t)
    PROVE  AllTold'
<1>1. /\ status[t] = "created" /\ t \notin running /\ t \notin running'
      /\ MarkFailed(t, "created") /\ stored' = stored /\ TypeOK
  BY DEF StartFails, Runnable, IInv
<1>2. \/ Persist(t, "failed")
      \/ cached' = [cached EXCEPT ![t] = "created"] /\ UNCHANGED <<status, error>>
  BY <1>1 DEF MarkFailed, Terminal
<1>3. ASSUME NEW u \in TaskIds \ {t}
      PROVE  Told(u)'
  <2>1. /\ status'[u] = status[u] /\ error'[u] = error[u] /\ cached'[u] = cached[u]
        /\ events'[u] = events[u] /\ Saved(u)' = Saved(u)
    BY <1>1, <1>2 DEF Persist, StartFails, Publish, Saved, TypeOK
  <2> QED
    BY <1>1, <2>1, ToldElsewhere DEF AllTold, StartFails, TypeOK
<1>4. Told(t)'
  <2>1. Saved(t)' = {} /\ Shown(t) = {}
    BY <1>1 DEF AllTold, Told, Saved
  <2>2. Shown(t)' = {} /\ LastEvent(t)' = "task_failed"
    BY <1>1, <2>1, OneEvent DEF StartFails, TypeOK
  <2>3. \/ status'[t] = "failed" /\ error'[t] /\ cached'[t] = "failed"
        \/ status'[t] = "created"
    BY <1>1, <1>2 DEF Persist, TypeOK
  <2> QED
    BY <1>1, <2>1, <2>2, <2>3 DEF Told
<1> QED
  BY <1>3, <1>4 DEF AllTold

LEMMA RouteToTold ==
    ASSUME IInv, AllTold, NEW t \in TaskIds, NEW r \in Routes, RouteTo(t, r)
    PROVE  AllTold'
<1>1. /\ t \in running /\ status[t] \in Active /\ cached[t] = status[t]
      /\ UNCHANGED <<running, evidence, reported, stored, events>> /\ TypeOK
  BY DEF RouteTo, IInv, OwnedInv
<1>2. \/ UNCHANGED <<status, error, cached>>
      \/ Persist(t, RouteStatus[r]) /\ RouteStatus[r] \in Active
  BY RouteStatusActive DEF RouteTo
<1>3. \A u \in TaskIds : Saved(u)' = Saved(u) /\ Shown(u)' = Shown(u) /\ LastEvent(u)' = LastEvent(u)
  BY <1>1 DEF Saved, Shown, LastEvent
<1>4. ASSUME NEW u \in TaskIds \ {t}
      PROVE  Told(u)'
  <2>1. status'[u] = status[u] /\ error'[u] = error[u] /\ cached'[u] = cached[u]
    BY <1>1, <1>2 DEF Persist, TypeOK
  <2> QED
    BY <1>1, <1>3, <2>1, ToldElsewhere DEF AllTold
<1>5. Told(t)'
  <2>1. status'[t] \in Active
    BY <1>1, <1>2 DEF Persist, TypeOK
  <2> QED
    BY <1>1, <1>3, <2>1 DEF AllTold, Told, Active, Terminal
<1> QED
  BY <1>4, <1>5 DEF AllTold

LEMMA MergeTold ==
    ASSUME IInv, AllTold, NEW t \in TaskIds, Merge(t)
    PROVE  AllTold'
<1>1. /\ t \in running /\ status[t] \in Active
      /\ UNCHANGED <<status, error, running, cached, stored, events>> /\ TypeOK
  BY DEF Merge, IInv, OwnedInv
<1>2. \A u \in TaskIds : Saved(u)' = Saved(u) /\ Shown(u)' = Shown(u) /\ LastEvent(u)' = LastEvent(u)
  BY <1>1 DEF Saved, Shown, LastEvent
<1>3. ASSUME NEW u \in TaskIds \ {t}
      PROVE  Told(u)'
  <2>1. evidence'[u] = evidence[u] /\ reported'[u] = reported[u]
    BY <1>1 DEF Merge, TypeOK
  <2> QED
    BY <1>1, <1>2, <2>1, ToldElsewhere DEF AllTold
<1>4. Told(t)'
  BY <1>1, <1>2 DEF AllTold, Told, Active, Terminal
<1> QED
  BY <1>3, <1>4 DEF AllTold

LEMMA CancelTold ==
    ASSUME IInv, AllTold, NEW t \in TaskIds, Cancel(t)
    PROVE  AllTold'
<1>1. /\ t \in running /\ status[t] \in Active /\ running' = running \ {t}
      /\ UNCHANGED <<status, error, cached, evidence, reported, stored, events>>
  BY DEF Cancel, IInv, OwnedInv
<1>2. \A u \in TaskIds : Saved(u)' = Saved(u)
  BY <1>1 DEF Saved
<1>3. ASSUME NEW u \in TaskIds \ {t}
      PROVE  Told(u)'
  BY <1>1, <1>2, ToldElsewhere DEF AllTold
<1>4. Told(t)'
  BY <1>1 DEF Told, Active, TaskStatus, Terminal
<1> QED
  BY <1>3, <1>4 DEF AllTold

LEMMA ExceptionTold ==
    ASSUME OrchestratorAssumption, IInv, AllTold, NEW t \in TaskIds, t \in running,
           NEW n \in 0..MaxEvidence, HandleException(t, n)
    PROVE  AllTold'
<1>1. cached[t] = status[t] /\ status[t] \in Active /\ TypeOK /\ n \in Nat
  BY DEF IInv, OwnedInv, OrchestratorAssumption
<1>2. /\ MarkFailed(t, cached[t]) /\ running' = running \ {t}
      /\ Publish(t, Append(EvidenceAdded(n), "task_failed"))
      /\ stored' = stored \cup {<<t, i>> : i \in 1..n}
      /\ UNCHANGED <<evidence, reported>>
  BY DEF HandleException
<1>3. \/ Persist(t, "failed")
      \/ cached' = [cached EXCEPT ![t] = status[t]] /\ UNCHANGED <<status, error>>
  BY <1>1, <1>2 DEF MarkFailed, Active
<1>4. /\ \A u \in TaskIds \ {t} : Saved(u)' = Saved(u)
      /\ Saved(t) = {} => Saved(t)' = 1..n
  BY <1>2, SavedAfter
<1>5. ASSUME NEW u \in TaskIds \ {t}
      PROVE  Told(u)'
  <2>1. /\ status'[u] = status[u] /\ error'[u] = error[u] /\ cached'[u] = cached[u]
        /\ events'[u] = events[u]
    BY <1>1, <1>2, <1>3 DEF Persist, Publish, TypeOK
  <2> QED
    BY <1>2, <1>4, <2>1, ToldElsewhere DEF AllTold
<1>6. Told(t)'
  <2>1. Saved(t) = {} /\ Shown(t) = {}
    BY DEF AllTold, Told
  <2>2. Cardinality(Shown(t)') = n /\ LastEvent(t)' = "task_failed"
    BY <1>1, <1>2, <2>1, Announced DEF TypeOK
  <2>3. Cardinality(Saved(t)') = n
    <3>1. Cardinality(1..n) = IF 1 > n THEN 0 ELSE n - 1 + 1
      BY <1>1, FS_Interval
    <3>2. Cardinality(1..n) = n
      BY <1>1, <3>1
    <3> QED
      BY <1>4, <2>1, <3>2
  <2>4. \/ status'[t] = "failed" /\ error'[t] /\ cached'[t] = "failed"
        \/ status'[t] = status[t]
    BY <1>1, <1>3 DEF Persist, TypeOK
  <2> QED
    BY <1>1, <1>2, <2>2, <2>3, <2>4 DEF Told, Active, TaskStatus, Terminal
<1> QED
  BY <1>5, <1>6 DEF AllTold

LEMMA CompleteTold ==
    ASSUME OrchestratorAssumption, IInv, AllTold, NEW t \in TaskIds, t \in running,
           Complete(t)
    PROVE  AllTold'
<1>1. TypeOK /\ evidence[t] \in 0..MaxEvidence /\ evidence[t] \in Nat
  BY DEF IInv, TypeOK, OrchestratorAssumption
<1>2. /\ \A u \in TaskIds \ {t} : Saved(u)' = Saved(u)
      /\ Saved(t) = {} => Saved(t)' = 1..evidence[t]
  BY <1>1, SavedAfter DEF Complete
<1>3. ASSUME NEW u \in TaskIds \ {t}
      PROVE  Told(u)'
  <2>1. /\ status'[u] = status[u] /\ error'[u] = error[u] /\ cached'[u] = cached[u]
        /\ events'[u] = events[u]
    BY <1>1 DEF Complete, Persist, Publish, TypeOK
  <2> QED
    BY <1>2, <2>1, ToldElsewhere DEF AllTold, Complete
<1>4. Told(t)'
  <2>1. /\ Saved(t) = {} /\ Shown(t) = {}
        /\ events[t] # <<>> /\ LastEvent(t) = "task_started"
    BY DEF AllTold, Told
  <2>2. Cardinality(Shown(t)') = evidence[t] /\ LastEvent(t)' # "task_failed"
    BY <1>1, <2>1, Announced DEF Complete, TypeOK
  <2>3. /\ status'[t] = "completed" /\ error'[t] = FALSE
        /\ evidence'[t] = evidence[t] /\ reported'[t] = reported[t] /\ reported[t]
        /\ t \notin running'
    BY <1>1 DEF Complete, Persist, TypeOK
  <2> QED
    BY <1>2, <2>1, <2>2, <2>3 DEF Told
<1> QED
  BY <1>3, <1>4 DEF AllTold

LEMMA ReturnTold ==
    ASSUME OrchestratorAssumption, IInv, AllTold, NEW t \in TaskIds,
           NEW failed \in BOOLEAN, Return(t, failed)
    PROVE  AllTold'
<1>1. t \in running
  BY DEF Return
<1>2. 0 \in 0..MaxEvidence /\ evidence[t] \in 0..MaxEvidence
  BY DEF IInv, TypeOK, OrchestratorAssumption
<1>3. CASE NoReport(t)
  BY <1>1, <1>2, <1>3, ExceptionTold DEF NoReport
<1>4. CASE SaveFails(t)
  <2>1. PICK n \in 0..evidence[t] : HandleException(t, n)
    BY <1>4 DEF SaveFails
  <2>2. n \in 0..MaxEvidence
    BY <1>2, <2>1 DEF OrchestratorAssumption
  <2> QED
    BY <1>1, <2>1, <2>2, ExceptionTold
<1>5. CASE EndFailed(t)
  BY <1>1, <1>2, <1>5, ExceptionTold DEF EndFailed
<1>6. CASE Complete(t)
  BY <1>1, <1>6, CompleteTold
<1> QED
  BY <1>3, <1>4, <1>5, <1>6 DEF Return

LEMMA NextTold ==
    ASSUME OrchestratorAssumption, IInv, AllTold, [Next]_vars
    PROVE  AllTold'
<1>1. CASE UNCHANGED vars
  BY <1>1 DEF vars, AllTold, Told, Saved, Shown, LastEvent
<1>2. 0 \in 0..MaxEvidence
  BY DEF OrchestratorAssumption
<1>3. ASSUME NEW t \in TaskIds, RuntimeRaises(t)
      PROVE  AllTold'
  BY <1>2, <1>3, ExceptionTold DEF RuntimeRaises
<1>4. ASSUME NEW t \in TaskIds, NEW r \in Routes, RouteRaises(t, r)
      PROVE  AllTold'
  BY <1>2, <1>4, ExceptionTold DEF RouteRaises
<1> QED
  BY <1>1, <1>3, <1>4, CreateTaskTold, StartRunTold, StartFailsTold, RouteToTold,
     MergeTold, CancelTold, ReturnTold DEF Next

\* A completed task is stored, shown and reported in full; a failed one carries
\* its error, and nothing was stored for it that its timeline does not show.
THEOREM OutcomesAreVisible == Spec => []OutcomeIsVisible
<1>1. Init => AllTold
  BY DEF Init, AllTold, Told, Saved, Shown
<1>2. OrchestratorAssumption /\ IInv /\ AllTold /\ [Next]_vars => AllTold'
  BY NextTold
<1>3. AllTold => OutcomeIsVisible
  BY DEF AllTold, Told, OutcomeIsVisible
<1> QED
  BY <1>1, <1>2, <1>3, OrchestratorAssumption, InductiveInvariant, PTL DEF Spec

-----------------------------------------------------------------------------
(* What follows from the lifecycle alone, and so holds of the core.        *)

LEMMA LifecycleProceeds ==
    ASSUME NEW s \in Lifecycle!TaskStatus, NEW u, Lifecycle!CanTransition(s, u)
    PROVE  /\ u \in Lifecycle!TaskStatus \ {"created"}
           /\ s \notin Lifecycle!Terminal
  BY DEF Lifecycle!CanTransition, Lifecycle!Transitions, Lifecycle!TaskStatus,
         Lifecycle!Terminal

LEMMA LifecycleTypes == Lifecycle!Spec => []Lifecycle!TypeOK
<1>1. Lifecycle!Init => Lifecycle!TypeOK
  BY DEF Lifecycle!Init, Lifecycle!TypeOK
<1>2. Lifecycle!TypeOK /\ [Lifecycle!Next]_(Lifecycle!lifecycleVars) => Lifecycle!TypeOK'
  <2> SUFFICES ASSUME Lifecycle!TypeOK, [Lifecycle!Next]_(Lifecycle!lifecycleVars)
               PROVE  Lifecycle!TypeOK'
    OBVIOUS
  <2> USE DEF Lifecycle!TypeOK, Lifecycle!TaskStatus
  <2>1. CASE UNCHANGED Lifecycle!lifecycleVars
    BY <2>1 DEF Lifecycle!lifecycleVars
  <2>2. ASSUME NEW t \in TaskIds, Lifecycle!Create(t)
        PROVE  Lifecycle!TypeOK'
    BY <2>2 DEF Lifecycle!Create
  <2>3. ASSUME NEW t \in TaskIds, Lifecycle!Start(t)
        PROVE  Lifecycle!TypeOK'
    BY <2>3 DEF Lifecycle!Start
  <2>4. ASSUME NEW t \in TaskIds, Lifecycle!FailToStart(t)
        PROVE  Lifecycle!TypeOK'
    BY <2>4 DEF Lifecycle!FailToStart
  <2>5. ASSUME NEW t \in TaskIds, NEW s \in Lifecycle!TaskStatus, Lifecycle!Advance(t, s)
        PROVE  Lifecycle!TypeOK'
    BY <2>5 DEF Lifecycle!Advance
  <2>6. ASSUME NEW t \in TaskIds, Lifecycle!Release(t)
        PROVE  Lifecycle!TypeOK'
    BY <2>6 DEF Lifecycle!Release, Lifecycle!Terminal
  <2> QED
    BY <2>1, <2>2, <2>3, <2>4, <2>5, <2>6 DEF Lifecycle!Next
<1> QED
  BY <1>1, <1>2, PTL DEF Lifecycle!Spec

\* A run owns only tasks that have left CREATED and not reached an end.
LEMMA OwnedByLifecycle == Lifecycle!Spec => []Lifecycle!OwnedIsActive
<1> USE DEF Lifecycle!TypeOK, Lifecycle!OwnedIsActive, Lifecycle!Terminal
<1>1. Lifecycle!Init => Lifecycle!OwnedIsActive
  BY DEF Lifecycle!Init
<1>2. /\ Lifecycle!TypeOK /\ Lifecycle!OwnedIsActive
      /\ [Lifecycle!Next]_(Lifecycle!lifecycleVars)
      => Lifecycle!OwnedIsActive'
  <2> SUFFICES ASSUME Lifecycle!TypeOK, Lifecycle!OwnedIsActive,
                      [Lifecycle!Next]_(Lifecycle!lifecycleVars)
               PROVE  Lifecycle!OwnedIsActive'
    OBVIOUS
  <2>1. CASE UNCHANGED Lifecycle!lifecycleVars
    BY <2>1 DEF Lifecycle!lifecycleVars
  <2>2. ASSUME NEW t \in TaskIds, Lifecycle!Create(t) \/ Lifecycle!FailToStart(t)
        PROVE  Lifecycle!OwnedIsActive'
    BY <2>2 DEF Lifecycle!Create, Lifecycle!FailToStart
  <2>3. ASSUME NEW t \in TaskIds, Lifecycle!Start(t)
        PROVE  Lifecycle!OwnedIsActive'
    BY <2>3 DEF Lifecycle!Start
  <2>4. ASSUME NEW t \in TaskIds, NEW s \in Lifecycle!TaskStatus, Lifecycle!Advance(t, s)
        PROVE  Lifecycle!OwnedIsActive'
    <3>1. status[t] \in Lifecycle!TaskStatus
      BY <2>4 DEF Lifecycle!Advance
    <3>2. s \notin Lifecycle!Terminal \cup {"absent", "created"}
      BY <2>4, <3>1, LifecycleProceeds DEF Lifecycle!Advance, Lifecycle!TaskStatus
    <3> QED
      BY <2>4, <3>2 DEF Lifecycle!Advance
  <2>5. ASSUME NEW t \in TaskIds, Lifecycle!Release(t)
        PROVE  Lifecycle!OwnedIsActive'
    BY <2>5 DEF Lifecycle!Release
  <2> QED
    BY <2>1, <2>2, <2>3, <2>4, <2>5 DEF Lifecycle!Next
<1> QED
  BY <1>1, <1>2, LifecycleTypes, PTL DEF Lifecycle!Spec

\* A task its run has given up keeps its status for ever and is never run again.
LEMMA FrozenByLifecycle == Lifecycle!Spec => Lifecycle!Frozen
<1>1. Lifecycle!OwnedIsActive /\ Lifecycle!TypeOK
        /\ [Lifecycle!Next]_(Lifecycle!lifecycleVars) =>
        [\A t \in TaskIds :
            t \notin running /\ status[t] \notin {"absent", "created"} =>
                status'[t] = status[t] /\ t \notin running']_(Lifecycle!lifecycleVars)
  <2> SUFFICES ASSUME Lifecycle!TypeOK, Lifecycle!Next,
                      NEW u \in TaskIds, u \notin running,
                      status[u] \notin {"absent", "created"}
               PROVE  status'[u] = status[u] /\ u \notin running'
    OBVIOUS
  <2> USE DEF Lifecycle!Create, Lifecycle!Start, Lifecycle!FailToStart,
              Lifecycle!Advance, Lifecycle!Release
  <2>1. PICK t \in TaskIds :
            \/ Lifecycle!Create(t) \/ Lifecycle!Start(t) \/ Lifecycle!FailToStart(t)
            \/ \E s \in Lifecycle!TaskStatus : Lifecycle!Advance(t, s)
            \/ Lifecycle!Release(t)
    BY DEF Lifecycle!Next
  <2>2. t # u
    BY <2>1
  <2> QED
    BY <2>1, <2>2 DEF Lifecycle!TypeOK
<1> QED
  BY <1>1, LifecycleTypes, OwnedByLifecycle, PTL DEF Lifecycle!Spec, Lifecycle!Frozen

\* The core runs only tasks that have left CREATED and not reached an end.
THEOREM OwnedTasksAreActive == Spec => []Lifecycle!OwnedIsActive
  BY CoreImplementsLifecycle, OwnedByLifecycle, PTL DEF ImplementsLifecycle

\* The core never touches a task again that a run of it has given up: no second
\* run, no other status, whatever the runtime and the repository did.
THEOREM GivenUpIsFrozen == Spec => Lifecycle!Frozen
  BY CoreImplementsLifecycle, FrozenByLifecycle, PTL DEF ImplementsLifecycle
=============================================================================
