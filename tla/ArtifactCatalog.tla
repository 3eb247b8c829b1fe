--------------------------- MODULE ArtifactCatalog ---------------------------
(***************************************************************************)
(* What the binary artifact store promises to the threads of one process:  *)
(* a catalog of results that each save changes in one step, that no save   *)
(* of another result and no crash ever takes anything from, and that each  *)
(* load reads in one step.  A save that does not return may have changed   *)
(* the catalog or not; one that returns has.                               *)
(***************************************************************************)
CONSTANTS Threads, ArtifactIds, Results, NoResult

VARIABLES
    catalog,  \* the result listed for each artifact, or NoResult
    call,     \* the call each thread is in
    answer    \* what the last load of each thread returned

catalogVars == <<catalog, call, answer>>

NoCall == [kind |-> "none"]
SaveCall(a, r, stage) ==
    [kind |-> "save", id |-> a, result |-> r, stage |-> stage]
LoadCall(a) == [kind |-> "load", id |-> a]

Init ==
    /\ catalog = [a \in ArtifactIds |-> NoResult]
    /\ call = [t \in Threads |-> NoCall]
    /\ answer = [t \in Threads |-> NoResult]

Call(t) ==
    /\ call[t] = NoCall
    /\ \E a \in ArtifactIds :
        \/ call' = [call EXCEPT ![t] = LoadCall(a)]
        \/ \E r \in Results : call' = [call EXCEPT ![t] = SaveCall(a, r, "pending")]
    /\ UNCHANGED <<catalog, answer>>

Apply(t) ==
    /\ call[t].kind = "save"
    /\ call[t].stage = "pending"
    /\ catalog' = [catalog EXCEPT ![call[t].id] = call[t].result]
    /\ call' = [call EXCEPT ![t].stage = "applied"]
    /\ UNCHANGED answer

SaveReturns(t) ==
    /\ call[t].kind = "save"
    /\ call[t].stage = "applied"
    /\ call' = [call EXCEPT ![t] = NoCall]
    /\ UNCHANGED <<catalog, answer>>

LoadReturns(t) ==
    /\ call[t].kind = "load"
    /\ answer' = [answer EXCEPT ![t] = catalog[call[t].id]]
    /\ call' = [call EXCEPT ![t] = NoCall]
    /\ UNCHANGED catalog

\* An exception ends one call; a crash ends them all.
Abort(ended) ==
    /\ call' = [t \in Threads |-> IF t \in ended THEN NoCall ELSE call[t]]
    /\ UNCHANGED <<catalog, answer>>

Next ==
    \/ \E t \in Threads : Call(t) \/ Apply(t) \/ SaveReturns(t) \/ LoadReturns(t)
    \/ \E ended \in SUBSET Threads : Abort(ended)

Spec == Init /\ [][Next]_catalogVars
=============================================================================
