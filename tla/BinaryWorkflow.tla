--------------------------- MODULE BinaryWorkflow ---------------------------
(***************************************************************************)
(* One call of BinaryReverseWorkflow.analyze (reverse/workflow.py) and the *)
(* adapters of upx and radare2 it runs in worker threads                   *)
(* (reverse/adapters.py).  The coroutine awaits one thread at a time; the  *)
(* thread goes on when the coroutine is cancelled.  The input belongs to   *)
(* the caller and may go away at any moment.                               *)
(*                                                                         *)
(* Facts are known by the image they were found in: the input or what upx  *)
(* unpacked from it.                                                       *)
(***************************************************************************)
EXTENDS Naturals, Sequences

CONSTANT MaxFunctions  \* bound: functions radare2 lists

ASSUME WorkflowAssumption == MaxFunctions \in Nat

VARIABLES
    request,     \* the arguments of analyze, and which tools are injected
    input,       \* the input can be read
    caller,      \* what the caller sees
    pc,          \* the stage of the coroutine
    thread,      \* where its worker thread is, or "idle"
    run,         \* the status a thread ended with, until it is consumed
    process,     \* in a thread: the status the ToolRunResult will have
    pending,     \* in radare2's thread: functions without pseudocode
    failed,      \* in radare2's thread: pseudocode_failures is not empty
    tool_input,  \* the image the inspector is given
    derived,     \* the unpacked image was parsed
    facts,       \* per result: the image its tool facts come from
    records,     \* pairs of stage and status
    saved        \* the result in the artifact store

vars == <<request, input, caller, pc, thread, run, process, pending, failed,
          tool_input, derived, facts, records, saved>>
threadVars == <<thread, run, process, pending, failed>>
resultVars == <<tool_input, derived, facts, records>>

Images == {"input", "unpacked"}
NoResult == [saved |-> FALSE]
Result == [saved |-> TRUE, tool_input |-> tool_input, derived |-> derived,
           facts |-> facts, records |-> records]

Init ==
    /\ request \in [authorized: BOOLEAN, unpack: BOOLEAN,
                    unpacker: BOOLEAN, inspector: BOOLEAN]
    /\ input = TRUE
    /\ caller = "waiting"
    /\ pc = "start"
    /\ thread = "idle"
    /\ run = "none"
    /\ process = "none"
    /\ pending = 0
    /\ failed = FALSE
    /\ tool_input = "input"
    /\ derived = FALSE
    /\ facts = [result |-> "none", derived |-> "none"]
    /\ records = <<>>
    /\ saved = NoResult

-----------------------------------------------------------------------------
(* In a worker thread.                                                     *)

\* The function the thread executes returns a status, or raises.
End(status) ==
    /\ thread' = "idle"
    /\ run' = status
    /\ UNCHANGED <<process, pending, failed>>

\* The thread goes on; its tool run will end with this status, if it ends here.
Goto(place, status) ==
    /\ thread' = place
    /\ process' = status
    /\ UNCHANGED run

Thread(place) ==
    /\ thread = place
    /\ UNCHANGED <<request, input, caller, pc, resultVars>>

\* The static analyzer; "error" is its ModuleExecutionError.
Parse ==
    /\ Thread("parse_input") \/ Thread("parse_unpacked")
    /\ \/ End("error")
       \/ (thread = "parse_input" => input) /\ End("ok")
    /\ UNCHANGED saved

\* The unpacked image lies in a private directory.
Readable(image) == image = "input" => input

\* _preflight; the workflow has been authorized.
Preflight(image, first) ==
    \/ ~Readable(image) /\ End("invalid_input")
    \/ Readable(image) /\ End("unavailable")
    \/ Readable(image) /\ Goto(first, "none") /\ UNCHANGED <<pending, failed>>

\* unpack() makes its private directory before it runs upx.
UpxPreflight ==
    /\ Thread("upx_preflight")
    /\ Preflight("input", "upx") \/ End("output_error")
    /\ UNCHANGED saved

\* What _run returns when the process was started, or could not be.
Statuses == {"ok", "error", "timeout"}

\* subprocess.run decodes the output of the process: output that is no text is
\* an exception _run does not catch.
Undecodable == End("raised")

Upx ==
    /\ Thread("upx")
    /\ \/ Undecodable
       \/ \E s \in Statuses : Goto("upx_check", s) /\ UNCHANGED <<pending, failed>>
    /\ UNCHANGED saved

\* The fingerprint of the input is taken before the output is checked, and its
\* OSError leaves unpack().
UpxCheck ==
    /\ Thread("upx_check")
    /\ IF ~input THEN End("raised")
       ELSE IF process = "ok" THEN \E s \in {"ok", "output_error", "output_too_large"} : End(s)
       ELSE End(process)
    /\ UNCHANGED saved

R2Preflight ==
    /\ Thread("r2_preflight")
    /\ Preflight(tool_input, "aflj")
    /\ UNCHANGED saved

\* A run of radare2 that ends the inspection: it failed, or its answer is no
\* JSON array.
R2Stops ==
    \/ Undecodable
    \/ \E s \in (Statuses \ {"ok"}) \cup {"invalid_output"} :
         Goto("r2_check", s) /\ UNCHANGED <<pending, failed>>

\* How many functions parse_radare2_functions keeps; it skips malformed rows.
FunctionCounts == 0..MaxFunctions

Aflj ==
    /\ Thread("aflj")
    /\ \/ R2Stops
       \/ /\ Goto("agfj", "ok")
          /\ pending' \in FunctionCounts
          /\ failed' = FALSE
    /\ UNCHANGED saved

Agfj ==
    /\ Thread("agfj")
    /\ R2Stops \/ (Goto("version", "ok") /\ UNCHANGED <<pending, failed>>)
    /\ UNCHANGED saved

\* The outcome of -v is a fact of its own.
Version ==
    /\ Thread("version")
    /\ Undecodable \/ (Goto("pdc", "ok") /\ UNCHANGED <<pending, failed>>)
    /\ UNCHANGED saved

\* Mutant: a function whose pseudocode fails is tried again.
PdcAgain ==
    /\ Thread("pdc")
    /\ pending > 0
    /\ \/ Undecodable
       \/ Goto("pdc", "ok") /\ pending' = pending - 1 /\ UNCHANGED failed
       \/ Goto("pdc", "partial") /\ failed' = ~failed /\ UNCHANGED pending
    /\ UNCHANGED saved

\* Pseudocode, one function after the other; a failure is remembered.
Pdc ==
    /\ Thread("pdc")
    /\ pending > 0
    /\ \/ Undecodable
       \/ /\ \/ Goto("pdc", process) /\ UNCHANGED failed
             \/ Goto("pdc", "partial") /\ failed' = TRUE
          /\ pending' = pending - 1
    /\ UNCHANGED saved

PdcDone ==
    /\ Thread("pdc")
    /\ pending = 0
    /\ Goto("r2_check", IF failed THEN "partial" ELSE "ok")
    /\ UNCHANGED <<pending, failed, saved>>

\* The fingerprint of the image; its OSError leaves inspect().
R2Check ==
    /\ Thread("r2_check")
    /\ End(IF Readable(tool_input) THEN process ELSE "raised")
    /\ UNCHANGED saved

\* save_result of the artifact store
Save ==
    /\ Thread("saving")
    /\ \/ End("raised") /\ UNCHANGED saved
       \/ End("ok") /\ saved' = Result

Work ==
    \/ Parse
    \/ UpxPreflight \/ Upx \/ UpxCheck
    \/ R2Preflight \/ Aflj \/ Agfj \/ Version \/ Pdc \/ PdcDone \/ R2Check
    \/ Save

-----------------------------------------------------------------------------
(* The coroutine, when the thread it awaits has ended.                     *)

Resumed(stage) ==
    /\ caller = "waiting" /\ pc = stage
    /\ thread = "idle"
    /\ UNCHANGED <<request, input, process, pending, failed, saved>>

Await(stage, place) ==
    /\ pc' = stage /\ thread' = place /\ run' = "none"
    /\ UNCHANGED caller

\* Out of analyze with a result or an exception.
Leave(outcome) ==
    /\ caller' = outcome
    /\ UNCHANGED <<pc, thread, run>>

\* What follows the unpacking, when it left these records.
Inspect(list) ==
    IF request.inspector
    THEN Await("inspect", "r2_preflight") /\ records' = list
    ELSE Await("save", "saving") /\ records' = Append(list, <<"reverse", "not_configured">>)

Start ==
    /\ Resumed("start")
    /\ IF request.authorized THEN Await("static", "parse_input") ELSE Leave("raised")
    /\ UNCHANGED resultVars

AfterStatic ==
    /\ Resumed("static")
    /\ IF run = "error" THEN Leave("raised") /\ UNCHANGED records
       ELSE IF ~request.unpack THEN Inspect(records)
       ELSE IF ~request.unpacker THEN Inspect(Append(records, <<"upx", "not_configured">>))
       ELSE Await("unpack", "upx_preflight") /\ UNCHANGED records
    /\ UNCHANGED <<tool_input, derived, facts>>

AfterUnpack ==
    /\ Resumed("unpack")
    /\ IF run = "raised" THEN Leave("raised") /\ UNCHANGED records
       ELSE IF run = "ok"
       THEN Await("reparse", "parse_unpacked") /\ records' = Append(records, <<"upx", run>>)
       ELSE Inspect(Append(records, <<"upx", run>>))
    /\ UNCHANGED <<tool_input, derived, facts>>

\* Mutant: an unpacked image that cannot be parsed goes unrecorded.
ReparsedOrNot ==
    /\ Resumed("reparse")
    /\ derived' = (run = "ok")
    /\ tool_input' = IF run = "ok" THEN "unpacked" ELSE "input"
    /\ Inspect(records)
    /\ UNCHANGED facts

\* An unpacked image that cannot be parsed is recorded and left aside.
AfterReparse ==
    /\ Resumed("reparse")
    /\ IF run = "ok"
       THEN tool_input' = "unpacked" /\ derived' = TRUE /\ Inspect(records)
       ELSE /\ Inspect(Append(records, <<"parse_unpacked", "error">>))
            /\ UNCHANGED <<tool_input, derived>>
    /\ UNCHANGED facts

\* Mutant: the facts always go to the result of the input.
InspectedInput ==
    /\ Resumed("inspect")
    /\ IF run = "raised" THEN Leave("raised") /\ UNCHANGED <<facts, records>>
       ELSE /\ records' = Append(records, <<"reverse", run>>)
            /\ facts' = IF run \in {"ok", "partial"}
                        THEN [facts EXCEPT !.result = tool_input] ELSE facts
            /\ Await("save", "saving")
    /\ UNCHANGED <<tool_input, derived>>

\* The facts go to the result of the image they were found in.
AfterInspect ==
    /\ Resumed("inspect")
    /\ IF run = "raised" THEN Leave("raised") /\ UNCHANGED <<facts, records>>
       ELSE /\ records' = Append(records, <<"reverse", run>>)
            /\ facts' =
                 IF run \notin {"ok", "partial"} THEN facts
                 ELSE IF derived THEN [facts EXCEPT !.derived = tool_input]
                 ELSE [facts EXCEPT !.result = tool_input]
            /\ Await("save", "saving")
    /\ UNCHANGED <<tool_input, derived>>

AfterSave ==
    /\ Resumed("save")
    /\ Leave(IF run = "ok" THEN "returned" ELSE "raised")
    /\ UNCHANGED resultVars

Coroutine ==
    \/ Start
    \/ AfterStatic
    \/ AfterUnpack
    \/ AfterReparse
    \/ AfterInspect
    \/ AfterSave

-----------------------------------------------------------------------------

\* A thread that has not begun is not begun any more.
Cancel ==
    /\ caller = "waiting"
    /\ caller' = "cancelled"
    /\ \/ UNCHANGED thread
       \/ /\ thread \in {"parse_input", "upx_preflight", "parse_unpacked",
                         "r2_preflight", "saving"}
          /\ thread' = "idle"
    /\ UNCHANGED <<request, input, pc, run, process, pending, failed, resultVars, saved>>

InputGoes ==
    /\ input
    /\ input' = FALSE
    /\ UNCHANGED <<request, caller, pc, threadVars, resultVars, saved>>

Next == Work \/ Coroutine \/ Cancel \/ InputGoes

\* The thread and the coroutine are scheduled; every tool has a timeout.
Spec == Init /\ [][Next]_vars /\ WF_vars(Work \/ Coroutine)

-----------------------------------------------------------------------------

RunStatuses ==
    Statuses \cup {"none", "partial", "raised", "invalid_input", "unavailable",
                   "output_error", "output_too_large", "invalid_output"}

TypeOK ==
    /\ request \in [authorized: BOOLEAN, unpack: BOOLEAN,
                    unpacker: BOOLEAN, inspector: BOOLEAN]
    /\ input \in BOOLEAN
    /\ caller \in {"waiting", "returned", "raised", "cancelled"}
    /\ pc \in {"start", "static", "unpack", "reparse", "inspect", "save"}
    /\ thread \in {"idle", "parse_input", "parse_unpacked", "saving", "upx_preflight", "upx",
                   "upx_check", "r2_preflight", "aflj", "agfj", "version", "pdc", "r2_check"}
    /\ run \in RunStatuses
    /\ process \in RunStatuses
    /\ pending \in 0..MaxFunctions
    /\ failed \in BOOLEAN
    /\ tool_input \in Images
    /\ derived \in BOOLEAN
    /\ facts \in [result: Images \cup {"none"}, derived: Images \cup {"none"}]
    /\ records \in Seq({"upx", "parse_unpacked", "reverse"}
                         \X (RunStatuses \cup {"not_configured"}))

\* "A derived image has a distinct address space; do not mix facts": what is
\* saved shows facts of the input in the result and facts of the unpacked image
\* in the derived one, which is there, whatever failed on the way.
FactsKeptApart ==
    saved # NoResult =>
        /\ saved.facts.result \in {"none", "input"}
        /\ saved.facts.derived \in {"none", "unpacked"}
        /\ saved.facts.derived # "none" => saved.derived
        /\ saved.derived <=> saved.tool_input = "unpacked"

\* The records of a saved result account for what it holds and lacks: each
\* requested stage has one, an unpacked image is missing only if a record says
\* so, and facts are there if and only if the inspector's record says so.
RecordsAccount ==
    saved # NoResult =>
        LET Of(stage) == {i \in DOMAIN saved.records : saved.records[i][1] = stage}
            Says(stage, statuses) ==
                \E i \in Of(stage) : saved.records[i][2] \in statuses
        IN  /\ \A i, j \in DOMAIN saved.records :
                 saved.records[i][1] = saved.records[j][1] => i = j
            /\ request.unpack <=> Of("upx") # {}
            /\ Of("reverse") # {}
            /\ saved.derived <=> Says("upx", {"ok"}) /\ Of("parse_unpacked") = {}
            /\ Says("reverse", {"ok", "partial"}) <=>
                 \E d \in DOMAIN saved.facts : saved.facts[d] # "none"

\* An analysis that is not cancelled ends.
AnalysisEnds == caller = "waiting" ~> caller # "waiting"

\* analyze, "Persist a result even when an optional tool is missing or fails":
\* once the input was parsed, only the store itself may keep an analysis from
\* its result.
ResultPersists == caller = "raised" => pc \in {"start", "static", "save"}
=============================================================================
