---------------------- MODULE BinaryWorkflow_proofs ----------------------
(***************************************************************************)
(* What the binary workflow saves never mixes two images, and its records  *)
(* account for it, for any number of functions: both follow from what the  *)
(* stages of the coroutine have recorded so far.                           *)
(***************************************************************************)
EXTENDS BinaryWorkflow, TLAPS

Stages == {"upx", "parse_unpacked", "reverse"}
Records == Seq(Stages \X (RunStatuses \cup {"not_configured"}))

Has(list, stage) == \E i \in DOMAIN list : list[i][1] = stage
Says(list, stage, statuses) ==
    \E i \in DOMAIN list : list[i][1] = stage /\ list[i][2] \in statuses
OnePerStage(list) ==
    \A i, j \in DOMAIN list : list[i][1] = list[j][1] => i = j

\* The unpacked image is given to the inspector when it was parsed.
ImageFollows == tool_input = "unpacked" <=> derived

FactsFollow ==
    /\ facts.result \in {"none", "input"}
    /\ facts.derived \in {"none", "unpacked"}
    /\ facts.derived # "none" => derived
    /\ pc # "save" => facts.result = "none" /\ facts.derived = "none"

\* What is recorded at each stage of the coroutine.
RecordsFollow ==
    /\ OnePerStage(records)
    /\ pc \in {"start", "static", "unpack"} => records = <<>> /\ ~derived
    /\ pc \in {"unpack", "reparse"} => request.unpack
    /\ pc = "reparse" =>
         /\ Says(records, "upx", {"ok"})
         /\ ~Has(records, "parse_unpacked") /\ ~derived
    /\ pc \in {"inspect", "save"} =>
         /\ request.unpack <=> Has(records, "upx")
         /\ derived <=> Says(records, "upx", {"ok"}) /\ ~Has(records, "parse_unpacked")
    /\ pc # "save" => ~Has(records, "reverse")
    /\ pc = "save" =>
         /\ Has(records, "reverse")
         /\ Says(records, "reverse", {"ok", "partial"}) <=>
              facts.result # "none" \/ facts.derived # "none"

Flow ==
    /\ thread = "saving" => pc = "save"
    /\ ImageFollows
    /\ FactsFollow
    /\ RecordsFollow

IInv == TypeOK /\ Flow /\ FactsKeptApart /\ RecordsAccount

-----------------------------------------------------------------------------

\* A record more.
LEMMA Appended ==
    ASSUME NEW list \in Records, NEW stage \in Stages,
           NEW s \in RunStatuses \cup {"not_configured"}
    PROVE  LET new == Append(list, <<stage, s>>)
           IN  /\ new \in Records
               /\ \A x \in Stages : Has(new, x) <=> Has(list, x) \/ x = stage
               /\ \A x \in Stages, S \in SUBSET RunStatuses :
                    Says(new, x, S) <=> Says(list, x, S) \/ (x = stage /\ s \in S)
               /\ OnePerStage(list) /\ ~Has(list, stage) => OnePerStage(new)
<1> DEFINE new == Append(list, <<stage, s>>)
<1>1. new \in Records
  BY DEF Records
<1>2. /\ DOMAIN list = 1..Len(list) /\ Len(list) \in Nat
      /\ DOMAIN new = 1..(Len(list) + 1)
      /\ \A i \in 1..Len(list) : new[i] = list[i]
      /\ new[Len(list) + 1] = <<stage, s>>
  BY DEF Records
<1> HIDE DEF new
<1>3. \A x \in Stages : Has(new, x) <=> Has(list, x) \/ x = stage
  BY <1>2 DEF Has
<1>4. \A x \in Stages, S \in SUBSET RunStatuses :
        Says(new, x, S) <=> Says(list, x, S) \/ (x = stage /\ s \in S)
  BY <1>2 DEF Says
<1>5. OnePerStage(list) /\ ~Has(list, stage) => OnePerStage(new)
  BY <1>2 DEF OnePerStage, Has
<1> QED
  BY <1>1, <1>3, <1>4, <1>5 DEF new

LEMMA KnownStatuses ==
    /\ {"ok"} \in SUBSET RunStatuses
    /\ {"ok", "partial"} \in SUBSET RunStatuses
BY DEF RunStatuses, Statuses

LEMMA Empty ==
    /\ <<>> \in Records
    /\ OnePerStage(<<>>)
    /\ \A x \in Stages : ~Has(<<>>, x)
    /\ \A x \in Stages, S \in SUBSET RunStatuses : ~Says(<<>>, x, S)
BY DEF Records, OnePerStage, Has, Says

LEMMA InitKeeps == Init => IInv
<1> SUFFICES ASSUME Init PROVE IInv
  OBVIOUS
<1>1. TypeOK
  <2>1. records \in Seq({"upx", "parse_unpacked", "reverse"}
                           \X (RunStatuses \cup {"not_configured"}))
    BY Empty DEF Init, Records, Stages
  <2>2. pending \in 0..MaxFunctions
    BY WorkflowAssumption DEF Init
  <2>3. run \in RunStatuses /\ process \in RunStatuses
    BY DEF Init, RunStatuses
  <2> QED
    BY <2>1, <2>2, <2>3 DEF Init, TypeOK, Images
<1>2. Flow
  BY Empty DEF Init, Flow, ImageFollows, FactsFollow, RecordsFollow, Stages
<1>3. FactsKeptApart /\ RecordsAccount
  BY DEF Init, FactsKeptApart, RecordsAccount
<1> QED
  BY <1>1, <1>2, <1>3 DEF IInv

\* A step that leaves the stage and the result alone, and does not begin a save.
LEMMA Aside ==
    ASSUME IInv, TypeOK', UNCHANGED <<request, pc, resultVars, saved>>,
           thread' # "saving" \/ thread' = thread
    PROVE  IInv'
<1>1. Flow'
  BY DEF IInv, Flow, ImageFollows, FactsFollow, RecordsFollow, resultVars
<1>2. FactsKeptApart' /\ RecordsAccount'
  BY DEF IInv, FactsKeptApart, RecordsAccount
<1> QED
  BY <1>1, <1>2 DEF IInv

LEMMA WorkIsTyped ==
    ASSUME TypeOK, Work
    PROVE  TypeOK'
<1> USE DEF Thread, End, Goto, TypeOK, RunStatuses, Statuses, resultVars
<1>1. CASE Parse
  BY <1>1 DEF Parse
<1>2. CASE UpxPreflight
  BY <1>2 DEF UpxPreflight, Preflight
<1>3. CASE Upx
  BY <1>3 DEF Upx, Undecodable
<1>4. CASE UpxCheck
  BY <1>4 DEF UpxCheck
<1>5. CASE R2Preflight
  BY <1>5 DEF R2Preflight, Preflight
<1>6. CASE Aflj
  <2>1. CASE R2Stops
    BY <1>6, <2>1 DEF Aflj, R2Stops, Undecodable
  <2>2. CASE ~R2Stops
    <3>1. /\ thread' = "agfj" /\ process' \in RunStatuses
          /\ pending' \in 0..MaxFunctions /\ failed' \in BOOLEAN
          /\ UNCHANGED <<request, input, caller, pc, run, tool_input, derived, facts, records>>
      BY <1>6, <2>2 DEF Aflj, FunctionCounts
    <3> QED
      BY <3>1
  <2> QED
    BY <2>1, <2>2
<1>7. CASE Agfj
  BY <1>7 DEF Agfj, R2Stops, Undecodable
<1>8. CASE Version
  BY <1>8 DEF Version, Undecodable
<1>9. CASE Pdc
  <2>1. CASE Undecodable
    BY <1>9, <2>1 DEF Pdc, Undecodable
  <2>2. CASE ~Undecodable
    <3>1. pending' \in 0..MaxFunctions
      <4>1. pending \in 0..MaxFunctions /\ pending > 0 /\ pending' = pending - 1
        BY <1>9, <2>2 DEF Pdc
      <4> HIDE DEF TypeOK
      <4> QED
        BY <4>1, WorkflowAssumption
    <3>2. /\ thread' = "pdc" /\ process' \in RunStatuses /\ failed' \in BOOLEAN
          /\ UNCHANGED <<request, input, caller, pc, run, tool_input, derived, facts, records>>
      BY <1>9, <2>2 DEF Pdc
    <3> QED
      BY <3>1, <3>2
  <2> QED
    BY <2>1, <2>2
<1>10. CASE PdcDone
  BY <1>10 DEF PdcDone
<1>11. CASE R2Check
  BY <1>11 DEF R2Check
<1>12. CASE Save
  BY <1>12 DEF Save
<1> QED
  BY <1>1, <1>2, <1>3, <1>4, <1>5, <1>6, <1>7, <1>8, <1>9, <1>10, <1>11, <1>12
     DEF Work

\* What is saved is the result as the last stage left it.
LEMMA SaveKeeps ==
    ASSUME IInv, Save
    PROVE  IInv'
<1>1. TypeOK'
  BY WorkIsTyped DEF IInv, Work
<1>2. pc = "save" /\ thread' = "idle" /\ UNCHANGED <<request, pc, resultVars>>
  BY DEF IInv, Flow, Save, Thread, End
<1>3. CASE UNCHANGED saved
  BY <1>1, <1>2, <1>3, Aside
<1>4. CASE saved' = Result
  <2>1. Flow'
    BY <1>2 DEF IInv, Flow, ImageFollows, FactsFollow, RecordsFollow, resultVars
  <2>2. FactsKeptApart'
    BY <1>2, <1>4 DEF IInv, TypeOK, Flow, ImageFollows, FactsFollow, FactsKeptApart,
                      Result, Images, resultVars
  <2>3. RecordsAccount'
    <3>1. DOMAIN facts = {"result", "derived"}
      BY DEF IInv, TypeOK
    <3>2. /\ saved'.records = records /\ saved'.derived = derived
          /\ saved'.facts = facts /\ request' = request
      BY <1>2, <1>4 DEF Result
    <3>3. /\ OnePerStage(records)
          /\ request.unpack <=> Has(records, "upx")
          /\ Has(records, "reverse")
          /\ derived <=> Says(records, "upx", {"ok"}) /\ ~Has(records, "parse_unpacked")
          /\ Says(records, "reverse", {"ok", "partial"}) <=>
               \E d \in DOMAIN facts : facts[d] # "none"
      BY <1>2, <3>1 DEF IInv, Flow, RecordsFollow
    <3> QED
      BY <3>2, <3>3 DEF RecordsAccount, OnePerStage, Has, Says
  <2> QED
    BY <1>1, <2>1, <2>2, <2>3 DEF IInv
<1> QED
  BY <1>3, <1>4 DEF Save

LEMMA WorkKeeps ==
    ASSUME IInv, Work
    PROVE  IInv'
<1>1. CASE Save
  BY <1>1, SaveKeeps
<1>2. CASE Work /\ ~Save
  <2>1. UNCHANGED <<request, pc, resultVars, saved>> /\ thread' # "saving"
    BY <1>2 DEF Work, Parse, UpxPreflight, Upx, UpxCheck, R2Preflight, Aflj, Agfj, Version,
                Pdc, PdcDone, R2Check, Thread, End, Goto, Preflight, Undecodable, R2Stops
  <2> QED
    BY <2>1, WorkIsTyped, Aside DEF IInv
<1> QED
  BY <1>1, <1>2

-----------------------------------------------------------------------------

\* After the unpacking, with records that say whether there is an unpacked image.
LEMMA InspectKeeps ==
    ASSUME IInv, UNCHANGED <<request, input, process, pending, failed, saved, facts>>,
           pc # "save", thread = "idle",
           NEW list \in Records, Inspect(list),
           OnePerStage(list), ~Has(list, "reverse"),
           request.unpack <=> Has(list, "upx"),
           derived' \in BOOLEAN, tool_input' \in Images, ImageFollows',
           derived' <=> Says(list, "upx", {"ok"}) /\ ~Has(list, "parse_unpacked")
    PROVE  IInv'
<1>1. facts'.result = "none" /\ facts'.derived = "none"
  BY DEF IInv, Flow, FactsFollow
<1>2. FactsKeptApart' /\ RecordsAccount'
  BY DEF IInv, FactsKeptApart, RecordsAccount
<1>3. CASE request.inspector
  <2>1. pc' = "inspect" /\ thread' = "r2_preflight" /\ run' = "none" /\ caller' = caller
        /\ records' = list
    BY <1>3 DEF Inspect, Await
  <2>2. TypeOK'
    BY <2>1 DEF IInv, TypeOK, RunStatuses, Statuses, Records, Stages
  <2>3. Flow'
    BY <1>1, <2>1 DEF Flow, FactsFollow, RecordsFollow
  <2> QED
    BY <1>2, <2>2, <2>3 DEF IInv
<1>4. CASE ~request.inspector
  <2>1. pc' = "save" /\ thread' = "saving" /\ run' = "none" /\ caller' = caller
        /\ records' = Append(list, <<"reverse", "not_configured">>)
    BY <1>4 DEF Inspect, Await
  <2>2. /\ records' \in Records /\ OnePerStage(records')
        /\ \A x \in Stages : Has(records', x) <=> Has(list, x) \/ x = "reverse"
        /\ \A x \in Stages, S \in SUBSET RunStatuses :
             Says(records', x, S) <=> Says(list, x, S) \/ (x = "reverse" /\ "not_configured" \in S)
    BY <2>1, Appended DEF Stages
  <2>3. TypeOK'
    BY <2>1, <2>2 DEF IInv, TypeOK, RunStatuses, Statuses, Records, Stages
  <2>4. ~Says(list, "reverse", {"ok", "partial"})
    BY DEF Has, Says
  <2>5. Flow'
    BY <1>1, <2>1, <2>2, <2>4, KnownStatuses DEF Flow, FactsFollow, RecordsFollow, Stages
  <2> QED
    BY <1>2, <2>3, <2>5 DEF IInv
<1> QED
  BY <1>3, <1>4

LEMMA CoroutineKeeps ==
    ASSUME IInv, Coroutine
    PROVE  IInv'
<1> USE DEF Resumed
<1>1. FactsKeptApart' /\ RecordsAccount'
  BY DEF IInv, Coroutine, Start, AfterStatic, AfterUnpack, AfterReparse, AfterInspect,
         AfterSave, FactsKeptApart, RecordsAccount
<1>2. records \in Records /\ run \in RunStatuses /\ OnePerStage(records)
  BY DEF IInv, TypeOK, Records, Stages, Flow, RecordsFollow
<1>3. ASSUME UNCHANGED <<request, input, process, pending, failed, saved, resultVars>>,
             thread = "idle", NEW outcome \in {"raised", "returned"}, Leave(outcome)
      PROVE  IInv'
  <2>1. TypeOK'
    BY <1>3 DEF IInv, TypeOK, Leave, resultVars
  <2> QED
    BY <1>3, <2>1, Aside DEF Leave
<1>4. CASE Start
  <2>1. CASE request.authorized
    <3>1. TypeOK'
      BY <1>4, <2>1 DEF Start, Await, IInv, TypeOK, RunStatuses, resultVars
    <3>2. Flow'
      BY <1>4, <2>1 DEF Start, Await, IInv, Flow, ImageFollows, FactsFollow, RecordsFollow,
                        resultVars
    <3> QED
      BY <1>1, <3>1, <3>2 DEF IInv
  <2> QED
    BY <1>3, <1>4, <2>1 DEF Start
<1>5. CASE AfterStatic
  <2>1. records = <<>> /\ ~derived /\ derived' = FALSE /\ ImageFollows' /\ tool_input' \in Images
        /\ pc # "save" /\ thread = "idle"
        /\ UNCHANGED <<request, input, process, pending, failed, saved, facts>>
    BY <1>5 DEF AfterStatic, IInv, TypeOK, Flow, ImageFollows, RecordsFollow
  <2>2. CASE Leave("raised") /\ UNCHANGED records
    BY <1>3, <1>5, <2>2 DEF AfterStatic, resultVars
  <2>3. CASE ~request.unpack /\ Inspect(records)
    <3>1. /\ OnePerStage(records) /\ ~Has(records, "reverse")
          /\ ~Has(records, "upx") /\ ~Says(records, "upx", {"ok"})
      BY <2>1, Empty, KnownStatuses DEF Stages
    <3> QED
      BY <1>2, <2>1, <2>3, <3>1, InspectKeeps
  <2>4. CASE request.unpack /\ Inspect(Append(records, <<"upx", "not_configured">>))
    <3> DEFINE list == Append(records, <<"upx", "not_configured">>)
    <3>1. /\ list \in Records /\ OnePerStage(list) /\ ~Has(list, "reverse")
          /\ Has(list, "upx") /\ ~Says(list, "upx", {"ok"})
      BY <1>2, <2>1, Appended, Empty, KnownStatuses DEF Stages
    <3> HIDE DEF list
    <3>2. Inspect(list)
      BY <2>4 DEF list
    <3> QED
      BY <2>1, <2>4, <3>1, <3>2, InspectKeeps
  <2>5. CASE request.unpack /\ Await("unpack", "upx_preflight") /\ UNCHANGED records
    <3>1. TypeOK'
      BY <1>5, <2>5 DEF AfterStatic, Await, IInv, TypeOK, RunStatuses
    <3>2. Flow'
      BY <1>5, <2>5 DEF AfterStatic, Await, IInv, Flow, ImageFollows, FactsFollow,
                        RecordsFollow
    <3> QED
      BY <1>1, <3>1, <3>2 DEF IInv
  <2> QED
    BY <1>5, <2>2, <2>3, <2>4, <2>5 DEF AfterStatic, IInv, TypeOK
<1>6. CASE AfterUnpack
  <2>1. /\ records = <<>> /\ request.unpack
        /\ ~derived /\ derived' = FALSE /\ ImageFollows' /\ tool_input' \in Images
        /\ pc # "save" /\ thread = "idle"
        /\ UNCHANGED <<request, input, process, pending, failed, saved, facts>>
    BY <1>6 DEF AfterUnpack, IInv, TypeOK, Flow, ImageFollows, RecordsFollow
  <2> DEFINE list == Append(records, <<"upx", run>>)
  <2>2. /\ list \in Records /\ OnePerStage(list)
        /\ ~Has(list, "reverse") /\ ~Has(list, "parse_unpacked") /\ Has(list, "upx")
        /\ Says(list, "upx", {"ok"}) <=> run = "ok"
    <3>1. "upx" \in Stages /\ run \in RunStatuses \cup {"not_configured"}
      BY <1>2 DEF Stages
    <3>2. /\ ~Has(records, "reverse") /\ ~Has(records, "parse_unpacked")
          /\ ~Has(records, "upx") /\ ~Says(records, "upx", {"ok"})
      BY <2>1, Empty, KnownStatuses DEF Stages
    <3>3. /\ list \in Records
          /\ \A x \in Stages : Has(list, x) <=> Has(records, x) \/ x = "upx"
          /\ \A x \in Stages, S \in SUBSET RunStatuses :
               Says(list, x, S) <=> Says(records, x, S) \/ (x = "upx" /\ run \in S)
          /\ OnePerStage(list)
      BY <1>2, <3>1, <3>2, Appended
    <3> HIDE DEF list
    <3> QED
      BY <3>2, <3>3, KnownStatuses DEF Stages
  <2> HIDE DEF list
  <2>3. CASE Leave("raised") /\ UNCHANGED records
    BY <1>3, <1>6, <2>3 DEF AfterUnpack, resultVars
  <2>4. CASE run = "ok" /\ Await("reparse", "parse_unpacked") /\ records' = list
    <3>1. TypeOK'
      BY <1>6, <2>2, <2>4 DEF AfterUnpack, Await, IInv, TypeOK, RunStatuses, Records, Stages
    <3>2. Flow'
      BY <1>6, <2>1, <2>2, <2>4 DEF AfterUnpack, Await, IInv, Flow, ImageFollows, FactsFollow,
                                    RecordsFollow
    <3> QED
      BY <1>1, <3>1, <3>2 DEF IInv
  <2>5. CASE run # "ok" /\ Inspect(list)
    BY <2>1, <2>2, <2>5, InspectKeeps
  <2> QED
    BY <1>6, <2>3, <2>4, <2>5 DEF AfterUnpack, list
<1>7. CASE AfterReparse
  <2>1. /\ request.unpack /\ Says(records, "upx", {"ok"}) /\ Has(records, "upx")
        /\ ~Has(records, "parse_unpacked") /\ ~Has(records, "reverse")
        /\ ~derived /\ tool_input = "input"
    BY <1>7 DEF AfterReparse, IInv, TypeOK, Images, Flow, ImageFollows, RecordsFollow, Has, Says
  <2>2. CASE tool_input' = "unpacked" /\ derived' = TRUE /\ Inspect(records)
    <3>1. ImageFollows' /\ derived' \in BOOLEAN /\ tool_input' \in Images
      BY <2>2 DEF ImageFollows, Images
    <3> QED
      BY <1>2, <1>7, <2>1, <2>2, <3>1, InspectKeeps DEF AfterReparse
  <2>3. CASE /\ Inspect(Append(records, <<"parse_unpacked", "error">>))
             /\ UNCHANGED <<tool_input, derived>>
    <3> DEFINE list == Append(records, <<"parse_unpacked", "error">>)
    <3>1. /\ list \in Records /\ OnePerStage(list) /\ ~Has(list, "reverse")
          /\ Has(list, "upx") /\ Has(list, "parse_unpacked")
      BY <1>2, <2>1, Appended DEF Stages, RunStatuses, Statuses
    <3> HIDE DEF list
    <3>2. Inspect(list)
      BY <2>3 DEF list
    <3>3. ImageFollows' /\ derived' = FALSE /\ tool_input' \in Images
      BY <2>1, <2>3 DEF ImageFollows, Images
    <3> QED
      BY <1>7, <2>1, <2>3, <3>1, <3>2, <3>3, InspectKeeps DEF AfterReparse
  <2> QED
    BY <1>7, <2>2, <2>3 DEF AfterReparse
<1>8. CASE AfterInspect
  <2>1. CASE Leave("raised") /\ UNCHANGED <<facts, records>>
    BY <1>3, <1>8, <2>1 DEF AfterInspect, resultVars
  <2>2. CASE run # "raised"
    <3>1. /\ facts.result = "none" /\ facts.derived = "none" /\ ~Has(records, "reverse")
          /\ request.unpack <=> Has(records, "upx")
          /\ derived <=> Says(records, "upx", {"ok"}) /\ ~Has(records, "parse_unpacked")
          /\ ImageFollows
      BY <1>8 DEF AfterInspect, IInv, Flow, FactsFollow, RecordsFollow
    <3>2. /\ records' = Append(records, <<"reverse", run>>)
          /\ pc' = "save" /\ thread' = "saving" /\ run' = "none"
          /\ UNCHANGED <<request, input, process, pending, failed, saved, caller, tool_input, derived>>
      BY <1>8, <2>2 DEF AfterInspect, Await
    <3>3. /\ records' \in Records /\ OnePerStage(records')
          /\ \A x \in Stages : Has(records', x) <=> Has(records, x) \/ x = "reverse"
          /\ \A x \in Stages, S \in SUBSET RunStatuses :
               Says(records', x, S) <=> Says(records, x, S) \/ (x = "reverse" /\ run \in S)
      <4>1. "reverse" \in Stages /\ run \in RunStatuses \cup {"not_configured"}
        BY <1>2 DEF Stages
      <4> HIDE DEF Resumed
      <4> QED
        BY <1>2, <3>1, <3>2, <4>1, Appended
    <3>4. ~Says(records, "reverse", {"ok", "partial"})
      BY <3>1 DEF Has, Says
    <3>5. /\ facts' \in [result: Images \cup {"none"}, derived: Images \cup {"none"}]
          /\ facts'.result \in {"none", "input"}
          /\ facts'.derived \in {"none", "unpacked"}
          /\ facts'.derived # "none" => derived
          /\ run \in {"ok", "partial"} <=> facts'.result # "none" \/ facts'.derived # "none"
      BY <1>8, <2>2, <3>1 DEF AfterInspect, ImageFollows, IInv, TypeOK, Images
    <3>6. TypeOK'
      BY <3>2, <3>3, <3>5 DEF IInv, TypeOK, RunStatuses, Records, Stages
    <3>7. RecordsFollow'
      BY <3>1, <3>2, <3>3, <3>4, <3>5, KnownStatuses DEF RecordsFollow, Stages
    <3>8. Flow'
      BY <3>1, <3>2, <3>5, <3>7 DEF Flow, FactsFollow, ImageFollows
    <3> QED
      BY <1>1, <3>6, <3>8 DEF IInv
  <2> QED
    BY <1>8, <2>1, <2>2 DEF AfterInspect
<1>9. CASE AfterSave
  BY <1>3, <1>9 DEF AfterSave
<1> QED
  BY <1>4, <1>5, <1>6, <1>7, <1>8, <1>9 DEF Coroutine

LEMMA NextKeeps == IInv /\ [Next]_vars => IInv'
<1> SUFFICES ASSUME IInv, [Next]_vars PROVE IInv'
  OBVIOUS
<1>1. CASE Work
  BY <1>1, WorkKeeps
<1>2. CASE Coroutine
  BY <1>2, CoroutineKeeps
<1>3. CASE Cancel
  <2>1. TypeOK'
    BY <1>3 DEF Cancel, IInv, TypeOK, resultVars
  <2> QED
    BY <1>3, <2>1, Aside DEF Cancel
<1>4. CASE InputGoes
  <2>1. TypeOK'
    <3>1. input' \in BOOLEAN /\ UNCHANGED <<request, caller, pc, thread, run, process, pending,
                                           failed, tool_input, derived, facts, records>>
      BY <1>4 DEF InputGoes, threadVars, resultVars
    <3> QED
      BY <3>1 DEF IInv, TypeOK
  <2> QED
    BY <1>4, <2>1, Aside DEF InputGoes, threadVars
<1>5. CASE UNCHANGED vars
  <2>1. TypeOK'
    BY <1>5 DEF vars, IInv, TypeOK
  <2> QED
    BY <1>5, <2>1, Aside DEF vars, resultVars
<1> QED
  BY <1>1, <1>2, <1>3, <1>4, <1>5 DEF Next

-----------------------------------------------------------------------------

\* Types, what each stage has recorded, and what is saved.
THEOREM InductiveInvariant == Spec => []IInv
BY InitKeeps, NextKeeps, PTL DEF Spec

\* The workflow's state keeps its types.
THEOREM TypeCorrect == Spec => []TypeOK
<1>1. IInv => TypeOK
  BY DEF IInv
<1> QED
  BY <1>1, InductiveInvariant, PTL

\* Whatever fails on the way, a saved result holds facts of the input only, and
\* its unpacked analysis facts of the unpacked image only.
THEOREM ImagesKeptApart == Spec => []FactsKeptApart
<1>1. IInv => FactsKeptApart
  BY DEF IInv
<1> QED
  BY <1>1, InductiveInvariant, PTL

\* The records of a saved result say which stages were requested, which of them
\* failed, and therefore what the result lacks.
THEOREM ResultsAreAccountedFor == Spec => []RecordsAccount
<1>1. IInv => RecordsAccount
  BY DEF IInv
<1> QED
  BY <1>1, InductiveInvariant, PTL
=============================================================================
