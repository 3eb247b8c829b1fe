# VulnAgent: TLA+ specification and proofs

TLA+ modules for the core of VulnAgent, the instances TLC checks, and proofs
TLAPS checks for every value of the constants. Every definition is translated
from the Python source; `PROJECT.json` maps it to its lines (`map`), and lists
the runs, the hazards each property answers to, and one mutation of the code
model that breaks each checked property.

Paths below are relative to `src/src/vulnagent/`.

## 1. The system

VulnAgent takes an analysis task (a source tree, a binary, or an archive), lets a
sequence of agents work on it, and stores findings, evidence and a report.

```
 HTTP route ──run──▶ Orchestrator ──ainvoke──▶ AgentRuntime ──run──▶ agent ──▶ capability
                        │  ▲   ▲                   │  │
             update_task│  │   └────on_route───────┘  └─decide──▶ Supervisor ─▶ AgentRouter
                        ▼  │ context (shared)            merge ─▶ AnalysisContext
                   TaskManager   EvidenceStore   EventBus
```

Everything in this picture runs in one asyncio event loop: two actions interleave
only where a coroutine awaits. Below it, three parts use threads (the binary
workflow, the artifact store it saves to, the project importer), and the workflow
and the fuzz engine start processes.

### Components

| component | state it keeps | operations | what makes it correct |
|---|---|---|---|
| Agent router (`agent_runtime/router.py`, `policies.py`) | none | `resolve`, `_fallback` | every decision leads to an end within the policy's limits, and there is always room for the report |
| Supervisor (`agent_runtime/supervisor.py`) | none | `decide` | analysis, verification, review, report, with retries that are counted and a fuzz step only where it is authorized |
| Agent runtime (`agent_runtime/runtime.py`, `state.py`, `core/pipeline.py`) | runtime state and metadata, the analysis context | supervisor node, agent nodes, merge | bounded, failures never forgotten, findings only changed by verification |
| Agents (`agents/*.py`) | none | `run` | only the verification agent changes a finding |
| Orchestrator (`core/orchestrator.py`) | running tasks, cached contexts | `run`, `_on_route`, `_mark_failed` | one run at a time owns a task, it ends the task, and all views of the task agree |
| Task manager, lifecycle (`core/task_manager.py`, `state_manager.py`) | tasks | `create_task`, `update_task` | statuses move only along the lifecycle |
| Evidence store, event bus (`evidence/store.py`, `core/event_bus.py`) | saved evidence, timelines | `save`, `publish` | what a completed task cites can be looked up |
| HTTP API (`api/`) | none | one route per query, `run_task` | `run_task` is `Orchestrator.run` |
| Binary artifact store (`analyzers/binary/reverse/artifacts.py`) | an index file, one file per artifact, locks | `save_result`, `load`, `list_by_task` | nothing listed is missing, nothing saved is lost |
| Binary reverse workflow, tool adapters (`analyzers/binary/reverse/workflow.py`, `adapters.py`) | one result, its tool records, a worker thread | `analyze`, `unpack`, `inspect` | facts of two images never mix, what is missing is recorded, a failing tool costs only its facts |
| Fuzz engine, executor (`fuzz/`, `execution/`) | a campaign's counters, the target process | `run`, `execute` | counters agree with the evidence, no process outlives its execution |
| Project importer (`analyzers/source/parser/project_importer.py`) | managed directories, worker threads | `import_project`, `cleanup` | what is returned is complete, what failed can be tried again |
| Source parsers (`analyzers/source/parser/source_project_parser.py`, `python_parser.py`, `python_resolver.py`) | what was found, parsed and failed so far | `analyze`, `resolve_call_graph_for_files` | no entry lost or counted twice, no call lost, no edge the sources do not justify |
| Tool and agent registries (`agent_runtime/tool_registry.py`, `tool_enabled.py`, `agents/registry.py`) | tools and agents by name, allow-lists | `register`, `register_many`, `invoke_tool` | a batch is registered whole or not at all; an agent reaches the tools it was bound to |
| Bootstrap (`bootstrap.py`) | the application | `build_application` | an application has every tool and every agent, and shares its registries with its runtime |
| Binary readers and heuristics | none | parse, score | correct offsets, names |
| LLM router, mocks, helpers, contracts | none | pure functions | |

### Behaviours that are hard

* **Interleaving at an await.** `Orchestrator.run` marks a task as running, then
  awaits the runtime; another `run`, a cancellation, callbacks and merges happen
  in between.
* **Several views of one task.** The repository, the orchestrator's cached
  context, the runtime's context and the event timeline are written one after
  the other; a write may be refused between two of them.
* **Failures inside failures.** An agent, a supervisor, the route observer, the
  repository and the evidence store may each raise, also while a failure is
  being recorded.
* **Limits that meet.** Steps, repeats, retries and LangGraph's recursion limit
  are separate counters; the report must still fit when any of them is reached.
* **Stale answers.** Verification may ask for another analysis after the review,
  so that a review or report could describe findings that have changed since.
* **Crash between two files.** `save_result` writes an artifact and then the
  index; processes share the directory but not the lock.
* **A timeout that races an exit.** The executor kills a target that may just
  have exited, and counts the execution one way or the other.
* **Optional stages that fail one by one.** The binary workflow parses, unpacks,
  parses again, inspects and saves; every stage may fail in several ways, and
  the input may go away between two of them.
* **Identifiers somebody else chose.** Verdicts, review and report are read by the
  identifier of a finding, which for a source audit is whatever the injected auditor
  says, once or again on a retry.
* **Removals that do not remove.** A failed clone and `cleanup()` remove with
  `ignore_errors`, and some exceptions pass the removal.
* **Threads that outlive their caller.** A cancelled import or save goes on in
  its worker thread.
* **A disk that changes while it is read.** A source file is classified during
  the walk, and read only after the whole walk.
* **Registries that stay open.** Whoever holds a registry may register before and
  after an application is built from it, and after agents were bound to it.

`PROJECT.json` lists these as hazards, each at its line with the properties that
would catch it.

## 2. Modules

```
 StateManager ◀── TaskLifecycle ◀─implements── Orchestrator ◀implements┐
      ▲                                            │                   │
      └────────────────EXTENDS─────────────────────┘                TaskRun
 AgentRouter ◀── Supervisor ◀── AgentRuntime ◀────────EXTENDS──────────┘

 ArtifactCatalog ◀─implements── ArtifactStore

 PythonResolver ◀── SourceProject

 BinaryWorkflow      FuzzCampaign      ProjectImporter      Application
```

**`AgentRouter`** is `resolve` and `_fallback` as operators of a requested route
and the history. Its constants are the fields of `RuntimePolicy`, assumed as
`policies.py` validates them.

**`Supervisor`** is the default supervisor: `Decide` as an operator of the task,
the last agent, the history and what the context shows.

**`AgentRuntime`** is one invocation of the graph. Its variables are the fields
of `RuntimeState` and of `AnalysisContext`. A supervisor node is one step
(`Supervise`). An agent node is two, split at the await of `agent.run`:
`StartAgent` does what comes before, one action per agent of the suite does what
its outcome causes (validation, merge, history, metadata), and `AgentFails` is
what any exception or rejected result causes. Capabilities return whatever their
protocol allows: any candidates, also with evidence nobody holds or without the fields
the reviewer asks for, and any verdicts. `InjectedDecisions` replaces the default
supervisor by one that returns anything. The identifiers of evidence, and of the one
finding the binary agent makes, come from the code and are fresh: the step that made
them and the place in that step. Those of a source audit are the injected auditor's
choice (`Candidates`): it may repeat one within an audit and from one audit to the next,
and what reads findings by identifier (`Verified`, `Verdicts`, `ReviewPasses`) is modelled
as it then behaves. One source audit returns at most `MaxCandidates` findings.

**`TaskLifecycle`** is the abstract specification of the core: who owns a task
and how its status may move. **`StateManager`** is the transition table.

**`Orchestrator`** is `run()` over several tasks, with any runtime: what it does
before its only await is `StartRun` or `StartFails`, what it does after is
`Return` or an exception, and between the two the runtime may route, merge,
raise or be cancelled in any order. Every call of the repository or the evidence
store may raise. `ImplementsLifecycle` states that it implements
`TaskLifecycle`. Evidence of a task is a number; `fault` is a history variable
that remembers why a run could not end its task.

**`TaskRun`** composes `Orchestrator` (as an instance for one task) and
`AgentRuntime`: each step is a step of both that agree on the route, on the
shared context and on the outcome. It composes the runtime the application builds, with
the default supervisor; `InjectedDecisions` belongs to `AgentRuntime` alone.

**`ArtifactCatalog`** is what the artifact store promises: each save and each
load takes effect in one step. **`ArtifactStore`** is the code: threads of
several processes, a lock per process, the artifact written and then the index
read and written, an error at each of these, and crashes that take a process and
its lock. A file is replaced atomically, as `os.replace` does. A process may
crash; a loss of power, which could undo a rename that was not flushed, is not
modelled.

**`FuzzCampaign`** is one `ControlledFuzzEngine.run` with the executor and the
target process. The target may exit at any moment with any code, never exit, and
leave descendants that hold its pipes; the timeout may come at any moment of an
execution. Inputs are left out: the target does anything with any of them. A
hash is what it is computed from.

**`BinaryWorkflow`** is one `BinaryReverseWorkflow.analyze` with the adapters of
upx and radare2. `pc` is the stage at which the coroutine awaits, `thread` the
place in the function its worker thread executes: every process an adapter
starts, and every check after it, is a step, because the input may go away and
the caller may cancel between them. `run` is the status the thread ended with,
`"raised"` when it let an exception out. A fact is known by the image it was found
in, so that mixing two images shows. What a parser extracts is left out. The save
is one step here; `ArtifactStore` has its detail.

**`ProjectImporter`** is `import_project` and `cleanup` over worker threads that
test the target, create it, and write its members one by one. Only imports of
one origin share a directory name, so the model has one origin, of any kind.
`rmtree` is one step: what a thread writes during it is what a thread may also
write after it. It may leave the directory with some of its files (`Remains`), because
errors are ignored. A clone fails with an exception the code catches (`CloneRaises`) or
with one that passes the removal (`CloneEscapes`).

**`PythonResolver`** is `python_resolver.py` as operators: the index over the symbols
of all files, what the names of a module's imports stand for, and what a call
target resolves to. A dotted name is the sequence of its parts. **`SourceProject`** is
one `analyze()` call of `SourceProjectParser` or `PythonSourceParser`: listing a
folder, accepting one entry and parsing one file are a step each, because anybody may
edit, break or delete a file between them. The syntax tree of a file is given as
its definitions, the calls in their bodies, and its imports, those of the module apart
from those nested deeper, which `ast.walk`, breadth first, meets later (`Programs`). A file
is fine, or raises an exception `parse_python_file` turns into an error (`"broken"`), or
one it does not name (`"uncaught"`).

**`Application`** is the composition root and its two registries: registration of
one or many entries, valid or not; `build_application` with registries of its own or
the caller's; agents bound to the tools of their allow-list, which they look up
again at each invocation. An application is built at once, without an await, so
building is one step; what comes before and after it is anybody's registration.

**`MC*`** modules give TLC instances their constants. **`*_proofs`** modules hold
theorems.

## 3. What TLC checks

Each run finishes in seconds to about two minutes. Passing runs together fire every
action of every module.

| run | instance | shows |
|---|---|---|
| `runtime_injected` | any supervisor, 5 steps, 1 candidate, an auditor with two identifiers | the limits of the policy, failure recording and findings hold whatever the supervisor decides |
| `runtime_undeclared` | any supervisor, 4 steps | *violated*: retries that are not declared are not counted |
| `orchestrator` | 2 tasks, 2 pieces of evidence, 2 failed starts | the core implements the lifecycle; its views of a task agree; a released task has ended; completed and failed tasks are complete in store and timeline |
| `task_run` | the orchestrator and the runtime with its default supervisor, 8 steps, 2 retries, 2 candidates with two identifiers, one target of each kind that is routed differently | retries are all counted; after a failure only the report runs; no report is stale, and a run without a fallback reports findings that are all final and whose review is the review of these very findings; fuzzing happens once and only if authorized; the routes are legal transitions; a completed task is clean; a run ends |
| `artifact_threads` | 3 threads in one process, 2 artifacts with 2 contents, 4 calls, 1 crash | the store implements the catalog; saved stays listed; the index never lists what cannot be loaded; calls end |
| `fuzz_campaign` | up to 2 seeds, 2 mutations, 4 exit codes, 2 outputs | counters agree with the evidence; no process is left; campaigns are complete; executions end unless their pipes are held |
| `imports` | 2 calls, 2 members | imports never share a directory; what is returned is complete; no temporary directory is forgotten; calls end |
| `imports_cleanup` | the same | *violated*: a cancelled import makes its directory again after `cleanup()` |
| `binary_workflow` | every combination of tools and arguments, up to 3 functions | images are kept apart; records account for what is saved; an analysis ends |
| `source_project` | both parsers, 3 projects of up to 6 files, 2 edits of the disk, every root, folders that cannot be listed | every entry is classified and every file parsed or reported once; every resolved call denotes a definition the sources justify and none is lost; a call returns |
| `application` | 1 application, 1 capability, 1 route, batches of up to 2 entries | registrations are all or nothing; an application stays whole; bound agents keep their tools |
| `workflow_persists` | 1 function | *violated*: a tool whose output is no text, or an input that goes away, costs the whole result |

### Why these bounds are enough

* *Steps.* Eight steps hold a run of the default supervisor with a
  retry and a fallback: planner, analysis, verification, analysis, verification,
  reviewer, report. At this bound the step limit cuts the retry loop, the
  repeat limit refuses the third analysis, and a second retry is wanted that no
  repeat allows. Five steps with an arbitrary supervisor reach both limits in
  every order. The bounds themselves are proved for every policy.
* *Two identifiers.* One audit may repeat one or use both, the next may do either; of the
  two one is of findings that lack what the reviewer asks for, so that a review may pass,
  or have notes for either cause.
* *Two tasks.* Tasks share only the set of running tasks and the stores;
  ownership conflicts need two calls for one task, independence two tasks.
* *Evidence.* Two pieces let a save fail before, between and never.
* *Threads and calls.* A lost update needs two writers, and a third thread may
  load meanwhile; four calls let one artifact be saved twice and read. Two contents
  tell a replaced artifact from the old one.
* *Four executions* let a crash repeat, differ in code, differ in output, and be
  overtaken by a timeout.
* *Three functions* let pseudocode fail for the first, a middle and the last one;
  the workflow is otherwise finite.
* *Three small projects* hold every form of import and of call, a module that is a file
  and a package at once, a class that bears a module's name, an `__init__` outside
  any package, a folder in a folder that one parser ignores, and files of no
  language. Two edits let a file change before the walk meets it and again before it
  is parsed, or two files change.
* *One application.* Applications share only the caller's registry, which anybody may
  change anyway; a batch of two is what may be refused half-way. The theorems are about
  any number.
* *Two imports* are what a collision needs; two members let a failure
  leave a part.

### Fairness

* `TaskRun`: weak fairness of the steps the event loop takes once a run has begun. The
  event loop resumes every coroutine that is ready. That an awaited agent returns or raises
  is an assumption: the code gives agents no timeout. Nobody has to start or
  cancel a run.
* `ArtifactStore`: weak fairness per thread. `threading.Lock` is not fair, but
  the number of calls is bounded here, so that a thread that waits is served.
* `FuzzCampaign`: the engine is scheduled, the timeout expires, and a target that
  was sent SIGKILL dies. A target need not exit by itself, and no descendant need
  exit.
* `ProjectImporter`: weak fairness per worker thread; a clone has a timeout.
* `SourceProject`: weak fairness of the steps of the call, which waits for nobody.
* `BinaryWorkflow`: weak fairness of the coroutine and its worker thread together:
  only one of them can move. Every process of an adapter has a timeout.

`Application` has no fairness: nobody has to register, build or invoke.
`AgentRuntime` states `WF_vars(Next)` for the same reason as `TaskRun`; its runs
check safety only, and TLC's deadlock check shows that the graph stops only in
`ended` or `raised`. Deadlock checking is off where the system really stops:
tasks that are over, threads without calls, a finished campaign.

## 4. What is proved

The theorems hold for every value of the constants under their named assumptions
(`RuntimeAssumption`, `OrchestratorAssumption`, `StoreAssumption` and so on:
the ranges `policies.py` validates, natural numbers for bounds, the shape of files and
programs). TLC evaluates the
assumptions in each run.

* **`Orchestrator_proofs`**: `TypeOK`, `ContextAgrees` and `ReleasedIsTerminal`,
  and `CoreImplementsLifecycle`, the refinement of `TaskLifecycle`. `ContextAgrees`
  is not inductive alone: one has to know that a task that is owned has a cached
  context whose status is active. `MarkFailedOutcome` is the lemma for all the
  paths that end in the `except` clause. `OutcomeIsVisible`, which compares what the store
  holds with what the timeline shows, rests on `Told`: until a run ends, nothing is
  stored or shown for its task, and its timeline ends with its start. `Announced` counts
  the evidence in a timeline after one run was added to it.
  The lemmas about `TaskLifecycle` itself (an owned task has left CREATED and has not
  ended, and what a run has given up never changes again) are carried over to the core
  by the refinement: `OwnedTasksAreActive` and `GivenUpIsFrozen`.
* **`TaskRun_proofs`**, first part, any supervisor: types, `WithinPolicy` (the bounds on
  steps, repeats and retries), `FailuresRecorded`, `StatusesComeFromVerification` and
  `FindingsGrounded`, for any policy, any tasks, any number of candidates and
  any supervisor. The invariant adds `Progress`, which relates the number of
  graph nodes to the number of agents (this is what bounds them by the recursion
  limit), `Pending`, which says that a route that was dispatched is one the router
  admits (without it a decision made before the await would say nothing after it),
  and `AllGrounded`, that a finding keeps the evidence it cites because neither the evidence
  stored nor the history ever loses anything (`Extends`, `GroundedStays`). Nothing is assumed of the identifiers an auditor
  gives: `StatusesComeFromVerification` says that a final status is the one the last
  verification of that identifier recorded, and that all candidates stand behind
  all verified findings. What the code computes in loops
  (`Count`, `Merge`) enters through lemmas about how it changes in one step.
* **`TaskRun_proofs`**, second part, the default supervisor: `RetriesAccounted`,
  `OnlyReportAfterFailure`, `ReportIsCurrent` and `FuzzAuthorized`, for any policy. They
  have the hypothesis `~InjectedSupervisor`, because an injected supervisor breaks them
  (`runtime_undeclared`). Their invariant `DefaultInv` follows the run: `Position` says
  which agents may come after the one that ran last, and that nothing comes after the
  report; `Failing` that the agent that failed is the last one before the report;
  `Retrying` that an analysis after a verification is the only one that is a retry;
  `Reporting` what is known of the findings on the way to the report as long as neither
  a fallback nor a failure cut it short. None is inductive without `Position`, which is
  where `Decide`, `EnforceRetries` and the router's `resolve` meet: whatever the router
  refuses, it asks for the report instead.
* **`TaskRun_proofs`**, third part, the composition: `TaskRunImplementsCore`, that every
  behaviour of `TaskRun` is one of `Orchestrator` for the task, so that the theorems about the
  core (`ContextAgrees`, `ImplementsLifecycle`, `OutcomeIsVisible` and the others) hold of
  it; `RoutesAreLegal` and `CompletedIsClean`. Both need that, during its run, the
  status of a task is the one of the agent that runs or ran last (`Owned`), which ties the
  state of the core to the position of the runtime, and that before its run nothing has moved
  (`Fresh`).
* **`ArtifactStore_proofs`**: types; `NeverDangles` for any number of processes
  and crashes, from `FilesBacked` (an artifact in the index, or in a snapshot a thread
  will write back, has a file; files are never removed); and, with
  the assumption `SingleProcess`, `SavedStaysListed` and
  `StoreImplementsCatalog`. These need `Locked` (a thread inside is the one that
  holds the lock) and `Serial` (its snapshot is still the index). With two
  processes both are false: an entry may be lost, and the module docstring of
  `artifacts.py` asks for a single writer among processes. The run has one
  process; the theorem `NeverDangles` is what covers several.
* **`FuzzCampaign_proofs`**: types, `NoTargetLeft`, `CampaignComplete` and
  `CrashesCounted`, for any number of seeds, mutations and exit codes.
  `CrashesCounted` rests on `Counted` (the counters are those of the evidence so far;
  the library's theorems on cardinality say what one more piece adds), and
  `CampaignComplete` on `Shape`, which relates the stage of the engine to what was
  executed.
* **`ProjectImporter_proofs`**: types, `TargetsExclusive`, `ReturnedComplete` and
  `LeftoversAreManaged`, for any number of imports and members. None is
  inductive alone: one needs that a directory is there only once its call was put on the
  list (`Accounted`, `WorkersAccounted`), that a call and its thread agree (`ThreadsFollow`), that
  `cleanup()` never reaches the destination a caller supplied (`SharedIsKept`), that
  a target a thread copies into is there with every file so far (`CopiesHeld`), and
  that nobody copies into a directory that was returned (`ReturnedAlone`).
* **`BinaryWorkflow_proofs`**: types, `FactsKeptApart` and `RecordsAccount`, for any
  number of functions. Both speak of what was saved; the invariant says the same
  of the result in the making, stage by stage (`RecordsFollow`, `FactsFollow`), and
  that the inspector's input is the unpacked image exactly when that was parsed
  (`ImageFollows`).
* **`Application_proofs`**: types, `ApplicationIsWhole`, `InvocationsReachBound` and
  `RegistersAllOrNothing`, for any registries, applications, capabilities and
  routes. The invariant adds `Unbuilt` (the registries of an application that was not
  built are empty) and `BoundKept` (a registry still holds the adapters an agent found
  in it). That an accepted batch adds exactly its own names, each with its own value, is the
  lemma `BatchGrows`.
* **`SourceProject_proofs`**: types, `EntriesAccounted` and `EdgesGrounded`, for any
  files in any folders, any programs in them, any limit, any folders that cannot be
  listed and any number of edits. `EntriesAccounted` needs that the walk lists
  nothing twice (`WalkIsDisjoint`: no folder still to be listed lies in another or holds
  anything already met; each folder listed is replaced by folders just below it), that the
  classes of an entry are disjoint (`ClassesAreDisjoint`) so that their sizes add up, and, for
  a disk nobody touches, that a file outside hidden folders was met or lies below
  a folder still to be listed (`WalkIsComplete`). `EdgesGrounded` is a fact about
  the resolver for any sequence of parsed files (`Grounded`): `ReadingIsDenoted` goes through
  the cases of `resolve_token`, `BoundAreOfItsModule` follows a binding back to the import
  statement of the caller's module that made it, and `LongestIsOne` says that the innermost
  module or class around a caller exists when any does. The library's induction cannot
  be instantiated, so that a set of numbers has a least element comes from the
  well-foundedness of the strict subsets of a set (`Least`).

The types of `Orchestrator`, `ArtifactStore`, `ProjectImporter` and
`BinaryWorkflow` are theorems, and their runs do not check them again.

### Model-checked only

All liveness: `RunEnds`, `CallsEnd`, `ExecutionEndsUnlessHeld`, `ImportsEnd`, `AnalysisEnds`
and `ScanReturns`. Every other property a passing run checks is a theorem.
Liveness under fairness and `ENABLED` are outside what the prover can do, as is induction
over data: what a recursive function computes for every input is not proved, and no module
declares a RECURSIVE operator.

## 5. Where the code and its documentation disagree

Each is a run that TLC ends with a counterexample; `PROJECT.json` quotes the lines.

1. `runtime_undeclared`: a comment says no injected supervisor can exceed the
   retry policy; the code counts only the retries a decision declares.
2. `imports_cleanup`: `cleanup()` removes "everything this importer created",
   except what the worker thread of a cancelled import creates afterwards.
3. `workflow_persists`: a result is to be persisted "even when an optional tool is
   missing or fails"; output that cannot be decoded, and a fingerprint of an input that
   is gone, are exceptions nobody turns into an outcome.

Others were met while modelling and are part of the models, without a run:

* `docs/02_protocol/agent_protocol.md:196` (from the repository's root) asks that an agent
  executed again under one task produce no uncontrolled duplicates, findings having stable
  unique identifiers. Analysing again appends what it found to what is there
  (`Merge`), under the same identifiers if the auditor's are stable, and no code makes,
  checks or compares those. The duplicate detector is not called, and the reviewer only
  notes what it sees. No property says that identifiers are unique: it is false after
  the first retry with such an auditor.
* `analyzers/source/parser/python_parser.py:402` says that "a single broken file never
  aborts a whole project scan". The `except` clause does not name the exception of a file
  that nests too deeply (`RecursionError`, `MemoryError`), of a coding cookie that names a
  codec that is not of text (`LookupError`), or, on Python 3.11, of a NUL (`ValueError`),
  and each ends the whole scan (`ParseRaises`). `ScanReturns` names this exception to
  its rule, and nothing else ends a scan.
* A clone whose failure is an exception the clause does not name, or whose removal fails,
  leaves a part of the project behind (`CloneEscapes`, `Remains`). In a destination the
  caller supplied it stays until the caller removes it, and refuses the next import.
* `analyzers/source/parser/languages.py:184` says that files above the limit are
  "never read into memory"; the size is that of the walk, and a file that grew since is
  read whole (`Classify` looks at the disk of its moment, `Parse` at that of its own).
* A relative import inside a package's `__init__.py` is resolved one level too high
  (`RelativeBase`); the parser's README calls the base an approximation.

`ExecutionEndsUnlessHeld` has its condition for a reason: `communicate()` after
the kill has no timeout and waits for pipes a descendant of the target may hold.

## 6. Not modelled

* Binary readers and heuristics, and what the Python parser reads off a syntax tree
  (signatures, decorators, entry points): sequential functions of bytes or text; test
  vectors reach them better.
* The order of a walk over a changing folder as the operating system gives it: a folder is
  listed in one step.
* The HTTP routes other than `run_task`, which read one value and change nothing.
* Subscribers of the event bus, logging, wording of errors, the values of settings,
  mocks, pydantic validation beyond the types of the models.
* An auditor that hands out a finding object it returned before (every audit returns
  objects of its own here), and a capability that writes to the objects it is given.
* A `max_file_bytes` that is an infinite float, on which `int()` raises.
* Loss of power, and running two server processes over one task repository (it
  is in memory).

## 7. Plan

Done: the core (`AgentRuntime`, `Orchestrator`, `TaskRun`), the artifact store,
the fuzz campaign, the importer, the binary workflow and the composition root, each
with its proofs; the default supervisor, the refinement of the core by the composition, and
the source parsers with the call resolver, each with theirs.

Next, in this order:

1. Subscribers of the event bus, as a cause of failure between the views of a task.
2. What the resolver loses: that a call is resolved at all whenever one of its readings
   is defined, and which reading wins.
3. That what the runtime does with any supervisor is a refinement of a bounded dispatcher
   that knows nothing of agents.
