---------------------------- MODULE StateManager ----------------------------
(***************************************************************************)
(* The task lifecycle as a relation on statuses (core/state_manager.py).   *)
(***************************************************************************)

TaskStatus ==
    {"created", "profiling", "planning", "analyzing", "dynamic_testing",
     "verifying", "reporting", "completed", "failed"}

Terminal == {"completed", "failed"}

\* Mutant: verification cannot send a task back to analysis.
TransitionsWithoutRetry ==
    [created         |-> {"profiling", "failed"},
     profiling       |-> {"planning", "reporting", "failed"},
     planning        |-> {"analyzing", "reporting", "failed"},
     analyzing       |-> {"dynamic_testing", "verifying", "reporting", "failed"},
     dynamic_testing |-> {"verifying", "reporting", "failed"},
     verifying       |-> {"reporting", "failed"},
     reporting       |-> {"completed", "failed"},
     completed       |-> {},
     failed          |-> {}]

Transitions ==
    [created         |-> {"profiling", "failed"},
     profiling       |-> {"planning", "reporting", "failed"},
     planning        |-> {"analyzing", "reporting", "failed"},
     analyzing       |-> {"dynamic_testing", "verifying", "reporting", "failed"},
     dynamic_testing |-> {"verifying", "reporting", "failed"},
     verifying       |-> {"analyzing", "dynamic_testing", "reporting", "failed"},
     reporting       |-> {"completed", "failed"},
     completed       |-> {},
     failed          |-> {}]

CanTransition(current, target) == target \in Transitions[current]
=============================================================================
