------------------------ MODULE ArtifactStore_proofs ------------------------
(***************************************************************************)
(* Proofs about ArtifactStore: its types and IndexNeverDangles for any     *)
(* number of processes; SavedIsListed and the refinement of the catalog    *)
(* for one process, which is where the lock reaches.                       *)
(***************************************************************************)
EXTENDS ArtifactStore, TLAPS

LEMMA OperationTypes ==
    ASSUME NEW o \in Operations \cup {NoOp}
    PROVE  /\ o.kind \in {"save", "load", "none"}
           /\ o.kind = "save" =>
                /\ o = [kind |-> "save", id |-> o.id, result |-> o.result]
                /\ o.id \in ArtifactIds /\ o.result \in Results
           /\ o.kind = "load" =>
                o = [kind |-> "load", id |-> o.id] /\ o.id \in ArtifactIds
           /\ o.kind = "none" => o = NoOp
  BY DEF Operations, NoOp

-----------------------------------------------------------------------------
(* Types.                                                                  *)

LEMMA LeaveTypes ==
    ASSUME TypeOK, NEW t \in Threads, Leave(t)
    PROVE  /\ lock' \in [Processes -> Threads \cup {NoThread}]
           /\ pc' \in [Threads -> {"idle", "called", "locked", "written", "read", "indexed"}]
           /\ op' \in [Threads -> Operations \cup {NoOp}]
           /\ \A u \in Threads : (pc'[u] = "idle") = (op'[u] = NoOp)
           /\ snapshot' \in [Threads -> SUBSET ArtifactIds]
  BY StoreAssumption DEF TypeOK, Leave, Operations, NoOp

LEMMA LoadedType ==
    ASSUME TypeOK, NEW t \in Threads, op[t].kind = "load"
    PROVE  Loaded(t) \in Results \cup {NoResult, "missing"}
  BY OperationTypes DEF TypeOK, Loaded

\* The variables keep their types, whatever threads, processes and crashes do.
THEOREM TypeCorrect == Spec => []TypeOK
<1>1. Init => TypeOK
  BY StoreAssumption DEF Init, TypeOK, Operations, NoOp
<1>2. TypeOK /\ [Next]_vars => TypeOK'
  <2> SUFFICES ASSUME TypeOK, [Next]_vars PROVE TypeOK'
    OBVIOUS
  <2>1. ASSUME NEW t \in Threads, Call(t) PROVE TypeOK'
    BY <2>1, StoreAssumption DEF Call, TypeOK, Operations, NoOp
  <2>2. ASSUME NEW t \in Threads, Acquire(t) PROVE TypeOK'
    BY <2>2, StoreAssumption DEF Acquire, TypeOK
  <2>3. ASSUME NEW t \in Threads, WriteArtifact(t) PROVE TypeOK'
    BY <2>3, OperationTypes DEF WriteArtifact, TypeOK
  <2>4. ASSUME NEW t \in Threads, ReadIndex(t) PROVE TypeOK'
    BY <2>4 DEF ReadIndex, TypeOK
  <2>5. ASSUME NEW t \in Threads, WriteIndex(t) PROVE TypeOK'
    BY <2>5, OperationTypes DEF WriteIndex, TypeOK
  <2>6. ASSUME NEW t \in Threads, SaveReturns(t) PROVE TypeOK'
    <3>1. op[t].id \in ArtifactIds
      BY <2>6, OperationTypes DEF SaveReturns, TypeOK
    <3> QED
      BY <2>6, <3>1, LeaveTypes DEF SaveReturns, TypeOK
  <2>7. ASSUME NEW t \in Threads, LoadReturns(t) PROVE TypeOK'
    <3>1. Loaded(t) \in Results \cup {NoResult, "missing"}
      BY <2>7, LoadedType DEF LoadReturns
    <3> QED
      BY <2>7, <3>1, LeaveTypes DEF LoadReturns, TypeOK
  <2>8. ASSUME NEW t \in Threads, Raise(t) PROVE TypeOK'
    BY <2>8, LeaveTypes DEF Raise, TypeOK
  <2>9. ASSUME NEW p \in Processes, Crash(p) PROVE TypeOK'
    BY <2>9, StoreAssumption DEF Crash, TypeOK, Operations, NoOp
  <2>10. CASE UNCHANGED vars
    BY <2>10 DEF vars, TypeOK
  <2> QED
    BY <2>1, <2>2, <2>3, <2>4, <2>5, <2>6, <2>7, <2>8, <2>9, <2>10 DEF Next, Step
<1> QED
  BY <1>1, <1>2, PTL DEF Spec

-----------------------------------------------------------------------------
(* Any number of processes: the artifact comes before its entry.           *)

\* What an index lists, or a thread believes it lists, or is about to list,
\* has a file, and no file is ever removed.
FilesBacked ==
    /\ \A a \in index : file[a] # NoResult
    /\ \A t \in Threads : \A a \in snapshot[t] : file[a] # NoResult
    /\ \A t \in Threads :
        op[t].kind = "save" /\ pc[t] \in {"written", "read"} => file[op[t].id] # NoResult
    /\ \A t \in Threads : answer[t] # "missing"

LEMMA LeaveBacked ==
    ASSUME TypeOK, FilesBacked, NEW t \in Threads, Leave(t),
           UNCHANGED <<file, index>>, \A u \in Threads : answer'[u] # "missing"
    PROVE  FilesBacked'
  BY DEF TypeOK, FilesBacked, Leave, NoOp

LEMMA BackedStep == TypeOK /\ FilesBacked /\ [Next]_vars => FilesBacked'
<1> SUFFICES ASSUME TypeOK, FilesBacked, [Next]_vars PROVE FilesBacked'
  OBVIOUS
<1>1. ASSUME NEW t \in Threads, Call(t) PROVE FilesBacked'
  BY <1>1 DEF Call, TypeOK, FilesBacked, Operations
<1>2. ASSUME NEW t \in Threads, Acquire(t) PROVE FilesBacked'
  BY <1>2 DEF Acquire, TypeOK, FilesBacked
<1>3. ASSUME NEW t \in Threads, WriteArtifact(t) PROVE FilesBacked'
  <2>1. op[t].id \in ArtifactIds /\ op[t].result # NoResult
    BY <1>3, OperationTypes, StoreAssumption DEF WriteArtifact, TypeOK
  <2>2. \A a \in ArtifactIds : file[a] # NoResult => file'[a] # NoResult
    BY <1>3, <2>1 DEF WriteArtifact, TypeOK
  <2>3. \A u \in Threads : op[u].kind = "save" => op[u].id \in ArtifactIds
    BY OperationTypes DEF TypeOK
  <2>4. file'[op[t].id] # NoResult
    BY <1>3, <2>1 DEF WriteArtifact, TypeOK
  <2> QED
    BY <1>3, <2>2, <2>3, <2>4 DEF WriteArtifact, TypeOK, FilesBacked
<1>4. ASSUME NEW t \in Threads, ReadIndex(t) PROVE FilesBacked'
  BY <1>4 DEF ReadIndex, TypeOK, FilesBacked
<1>5. ASSUME NEW t \in Threads, WriteIndex(t) PROVE FilesBacked'
  BY <1>5 DEF WriteIndex, TypeOK, FilesBacked
<1>6. ASSUME NEW t \in Threads, SaveReturns(t) PROVE FilesBacked'
  BY <1>6, LeaveBacked DEF SaveReturns, FilesBacked
<1>7. ASSUME NEW t \in Threads, LoadReturns(t) PROVE FilesBacked'
  <2>1. Loaded(t) # "missing"
    <3>1. op[t].id \in ArtifactIds
      BY <1>7, OperationTypes DEF LoadReturns, TypeOK
    <3> QED
      BY <3>1, StoreAssumption DEF Loaded, TypeOK, FilesBacked
  <2> QED
    BY <1>7, <2>1, LeaveBacked DEF LoadReturns, FilesBacked, TypeOK
<1>8. ASSUME NEW t \in Threads, Raise(t) PROVE FilesBacked'
  BY <1>8, LeaveBacked DEF Raise, FilesBacked
<1>9. ASSUME NEW p \in Processes, Crash(p) PROVE FilesBacked'
  BY <1>9 DEF Crash, TypeOK, FilesBacked, NoOp
<1>10. CASE UNCHANGED vars
  BY <1>10 DEF vars, FilesBacked
<1> QED
  BY <1>1, <1>2, <1>3, <1>4, <1>5, <1>6, <1>7, <1>8, <1>9, <1>10 DEF Next, Step

\* However many processes share the directory, and wherever they crash, the
\* index lists no artifact without a file and no load finds one missing.
THEOREM NeverDangles == Spec => []IndexNeverDangles
<1>1. Init => FilesBacked
  BY StoreAssumption DEF Init, FilesBacked, NoOp
<1>2. FilesBacked => IndexNeverDangles
  BY DEF FilesBacked, IndexNeverDangles
<1> QED
  BY <1>1, <1>2, TypeCorrect, BackedStep, PTL DEF Spec

-----------------------------------------------------------------------------
(* One process.                                                            *)

SingleProcess == \A p, q \in Processes : p = q

Inside(t) == pc[t] \in {"locked", "written", "read", "indexed"}

\* A thread inside holds the lock of its process.
Locked == \A t \in Threads : Inside(t) => lock[ProcessOf[t]] = t

LEMMA Alone ==
    ASSUME SingleProcess, TypeOK, Locked, NEW t \in Threads, NEW u \in Threads,
           Inside(t), Inside(u)
    PROVE  t = u
<1>1. ProcessOf[t] = ProcessOf[u]
  BY StoreAssumption DEF SingleProcess
<1> QED
  BY <1>1 DEF Locked

\* So nothing changes under a thread inside: the index is as it read it, the
\* file as it wrote it.
Serial ==
    /\ Locked
    /\ \A t \in Threads : pc[t] = "read" => snapshot[t] = index
    /\ \A t \in Threads :
        op[t].kind = "save" /\ pc[t] \in {"written", "read", "indexed"} =>
            file[op[t].id] = op[t].result
    /\ \A t \in Threads : pc[t] = "indexed" => op[t].id \in index
    /\ returned \subseteq index

LEMMA LockedStep ==
    ASSUME SingleProcess, TypeOK, Locked, [Next]_vars
    PROVE  Locked'
<1>1. ASSUME NEW t \in Threads, Leave(t), Inside(t) PROVE Locked'
  <2>1. \A u \in Threads : u # t => ~Inside(u)
    BY <1>1, Alone
  <2> QED
    BY <1>1, <2>1 DEF Leave, Locked, Inside, TypeOK
<1>2. ASSUME NEW t \in Threads, Call(t) PROVE Locked'
  BY <1>2 DEF Call, Locked, Inside, TypeOK
<1>3. ASSUME NEW t \in Threads, Acquire(t) PROVE Locked'
  <2>1. \A u \in Threads : ~Inside(u)
    BY <1>3, StoreAssumption DEF Acquire, Locked, SingleProcess
  <2> QED
    BY <1>3, <2>1, StoreAssumption DEF Acquire, Locked, Inside, TypeOK
<1>4. ASSUME NEW t \in Threads, WriteArtifact(t) \/ ReadIndex(t) \/ WriteIndex(t)
      PROVE  Locked'
  BY <1>4 DEF WriteArtifact, ReadIndex, WriteIndex, Locked, Inside, TypeOK
<1>5. ASSUME NEW t \in Threads, SaveReturns(t) \/ LoadReturns(t) \/ Raise(t)
      PROVE  Locked'
  BY <1>1, <1>5 DEF SaveReturns, LoadReturns, Raise, Inside
<1>6. ASSUME NEW p \in Processes, Crash(p) PROVE Locked'
  BY <1>6, StoreAssumption DEF Crash, Locked, Inside, TypeOK, SingleProcess
<1>7. CASE UNCHANGED vars
  BY <1>7 DEF vars, Locked, Inside
<1> QED
  BY <1>2, <1>3, <1>4, <1>5, <1>6, <1>7 DEF Next, Step

LEMMA LeaveSerial ==
    ASSUME SingleProcess, TypeOK, Serial, NEW t \in Threads, Leave(t), Locked',
           UNCHANGED <<file, index>>, returned' \subseteq index
    PROVE  Serial'
  BY DEF TypeOK, Serial, Leave, NoOp

LEMMA SerialStep ==
    ASSUME SingleProcess, TypeOK, Serial, [Next]_vars
    PROVE  Serial'
<1>0. Locked'
  BY LockedStep DEF Serial
<1>1. ASSUME NEW t \in Threads, Call(t) PROVE Serial'
  BY <1>0, <1>1 DEF Call, TypeOK, Serial
<1>2. ASSUME NEW t \in Threads, Acquire(t) PROVE Serial'
  BY <1>0, <1>2 DEF Acquire, TypeOK, Serial
<1>3. ASSUME NEW t \in Threads, WriteArtifact(t) PROVE Serial'
  <2>1. op[t].id \in ArtifactIds
    BY <1>3, OperationTypes DEF WriteArtifact, TypeOK
  <2>2. \A u \in Threads : u # t => ~Inside(u)
    BY <1>3, Alone DEF WriteArtifact, Inside, Serial
  <2> QED
    BY <1>0, <1>3, <2>1, <2>2 DEF WriteArtifact, TypeOK, Serial, Inside
<1>4. ASSUME NEW t \in Threads, ReadIndex(t) PROVE Serial'
  BY <1>0, <1>4 DEF ReadIndex, TypeOK, Serial
<1>5. ASSUME NEW t \in Threads, WriteIndex(t) PROVE Serial'
  <2>1. \A u \in Threads : u # t => ~Inside(u)
    BY <1>5, Alone DEF WriteIndex, Inside, Serial
  <2>2. index' = index \cup {op[t].id}
    BY <1>5 DEF WriteIndex, Serial
  <2> QED
    BY <1>0, <1>5, <2>1, <2>2 DEF WriteIndex, TypeOK, Serial, Inside
<1>6. ASSUME NEW t \in Threads, SaveReturns(t) PROVE Serial'
  <2>1. returned' \subseteq index
    BY <1>6 DEF SaveReturns, Serial
  <2> QED
    BY <1>0, <1>6, <2>1, LeaveSerial DEF SaveReturns
<1>7. ASSUME NEW t \in Threads, LoadReturns(t) \/ Raise(t) PROVE Serial'
  <2>1. returned' \subseteq index
    BY <1>7 DEF LoadReturns, Raise, Serial
  <2> QED
    BY <1>0, <1>7, <2>1, LeaveSerial DEF LoadReturns, Raise
<1>8. ASSUME NEW p \in Processes, Crash(p) PROVE Serial'
  BY <1>0, <1>8 DEF Crash, TypeOK, Serial, NoOp
<1>9. CASE UNCHANGED vars
  BY <1>0, <1>9 DEF vars, Serial
<1> QED
  BY <1>1, <1>2, <1>3, <1>4, <1>5, <1>6, <1>7, <1>8, <1>9 DEF Next, Step

LEMMA SerialInit == Init => Serial
  BY StoreAssumption DEF Init, Serial, Locked, Inside, NoOp

LEMMA SerialAlways ==
    ASSUME SingleProcess
    PROVE  Spec => [](TypeOK /\ Serial)
<1>1. TypeOK /\ Serial /\ [Next]_vars => Serial'
  BY SerialStep
<1> QED
  BY <1>1, TypeCorrect, SerialInit, PTL DEF Spec

\* With one process, what a save has returned for stays listed.
THEOREM SavedStaysListed ==
    ASSUME SingleProcess
    PROVE  Spec => []SavedIsListed
<1>1. Serial => SavedIsListed
  BY DEF Serial, SavedIsListed
<1> QED
  BY <1>1, SerialAlways, PTL

-----------------------------------------------------------------------------
(* The refinement.                                                         *)

catalog ==
    [a \in ArtifactIds |-> IF a \in index THEN file[a] ELSE NoResult]

CallOf(t) ==
    IF op[t].kind = "save"
    THEN [kind |-> "save", id |-> op[t].id, result |-> op[t].result,
          stage |-> IF Applied(t) THEN "applied" ELSE "pending"]
    ELSE op[t]

call == [t \in Threads |-> CallOf(t)]

\* Mapped states are equal when what they are made of is.
LEMMA SameCatalog ==
    ASSUME UNCHANGED <<file, index>>
    PROVE  catalog' = catalog
  BY DEF catalog

LEMMA SameCall ==
    ASSUME NEW t \in Threads, UNCHANGED <<op[t], Applied(t)>>
    PROVE  CallOf(t)' = CallOf(t)
  BY DEF CallOf

\* A thread that saves and now has its effect.
LEMMA Applies ==
    ASSUME NEW t \in Threads, op[t].kind = "save", ~Applied(t),
           Applied(t)', op' = op
    PROVE  /\ CallOf(t).kind = "save" /\ CallOf(t).stage = "pending"
           /\ CallOf(t).id = op[t].id /\ CallOf(t).result = op[t].result
           /\ CallOf(t)' = [CallOf(t) EXCEPT !.stage = "applied"]
  BY DEF CallOf

\* A thread whose call and effect stay.
LEMMA Stays ==
    ASSUME NEW t \in Threads, op' = op, Applied(t)' <=> Applied(t)
    PROVE  CallOf(t)' = CallOf(t)
  BY DEF CallOf

\* A thread that leaves has no call; the others keep theirs.
LEMMA LeaveCalls ==
    ASSUME TypeOK, NEW t \in Threads, Leave(t), UNCHANGED index
    PROVE  call' = [call EXCEPT ![t] = Catalog!NoCall]
<1>1. CallOf(t)' = Catalog!NoCall
  BY DEF CallOf, Catalog!NoCall, Leave, NoOp, TypeOK
<1>2. ASSUME NEW u \in Threads, u # t PROVE CallOf(u)' = CallOf(u)
  BY <1>2 DEF CallOf, Applied, Leave, TypeOK
<1> QED
  BY <1>1, <1>2 DEF call

LEMMA CatalogInit == Init => Catalog!Init
<1> SUFFICES ASSUME Init PROVE Catalog!Init
  OBVIOUS
<1>1. \A t \in Threads : CallOf(t) = Catalog!NoCall
  BY DEF Init, CallOf, NoOp, Catalog!NoCall
<1> QED
  BY <1>1 DEF Init, Catalog!Init, CallOf

\* Every step of the store is a step of the catalog, or none.
LEMMA CatalogStep ==
    ASSUME SingleProcess, TypeOK, FilesBacked, Serial, [Next]_vars
    PROVE  [Catalog!Next]_(Catalog!catalogVars)
<1>1. ASSUME catalog' = catalog, call' = call, UNCHANGED answer
      PROVE  UNCHANGED Catalog!catalogVars
  BY <1>1 DEF Catalog!catalogVars, catalog, call, CallOf
<1>2. ASSUME NEW t \in Threads, Call(t) PROVE Catalog!Call(t)
  <2>1. PICK o \in Operations : op' = [op EXCEPT ![t] = o]
    BY <1>2 DEF Call
  <2>2. op[t] = NoOp
    BY <1>2 DEF Call, TypeOK
  <2>3. call[t] = Catalog!NoCall
    BY <2>2 DEF call, CallOf, NoOp, Catalog!NoCall
  <2>4. ASSUME NEW u \in Threads, u # t PROVE CallOf(u)' = CallOf(u)
    BY <1>2, <2>1, <2>4 DEF Call, CallOf, Applied, TypeOK
  <2>5. pc'[t] = "called" /\ op'[t] = o
    BY <1>2, <2>1 DEF Call, TypeOK
  <2>6. call' = [call EXCEPT ![t] = CallOf(t)']
    BY <2>4 DEF call
  <2>7. \E a \in ArtifactIds :
            \/ CallOf(t)' = Catalog!LoadCall(a)
            \/ \E r \in Results : CallOf(t)' = Catalog!SaveCall(a, r, "pending")
    <3>1. CASE o.kind = "load"
      BY <2>5, <3>1, OperationTypes DEF CallOf, Catalog!LoadCall
    <3>2. CASE o.kind = "save"
      <4>1. ~Applied(t)'
        BY <2>5 DEF Applied
      <4> QED
        BY <2>5, <3>2, <4>1, OperationTypes DEF CallOf, Catalog!SaveCall
    <3> QED
      BY <3>1, <3>2 DEF Operations
  <2>8. UNCHANGED <<catalog, answer>>
    BY <1>2, SameCatalog DEF Call
  <2>9. \E a \in ArtifactIds :
            \/ call' = [call EXCEPT ![t] = Catalog!LoadCall(a)]
            \/ \E r \in Results :
                call' = [call EXCEPT ![t] = Catalog!SaveCall(a, r, "pending")]
    BY <2>6, <2>7, Zenon
  <2> QED
    BY <2>3, <2>8, <2>9, Zenon DEF Catalog!Call, catalog, call, CallOf
<1>3. ASSUME NEW t \in Threads, Acquire(t) PROVE UNCHANGED Catalog!catalogVars
  <2>1. ASSUME NEW u \in Threads PROVE CallOf(u)' = CallOf(u)
    BY <1>3 DEF Acquire, CallOf, Applied, TypeOK
  <2> QED
    BY <1>1, <1>3, <2>1, SameCatalog DEF Acquire, call
<1>4. ASSUME NEW t \in Threads, WriteArtifact(t)
      PROVE  Catalog!Apply(t) \/ UNCHANGED Catalog!catalogVars
  <2>1. /\ op[t].kind = "save" /\ op[t].id \in ArtifactIds
        /\ file' = [file EXCEPT ![op[t].id] = op[t].result]
        /\ pc[t] = "locked" /\ pc'[t] = "written"
        /\ UNCHANGED <<index, op, answer>>
    BY <1>4, OperationTypes DEF WriteArtifact, TypeOK
  <2>2. ASSUME NEW u \in Threads, u # t PROVE CallOf(u)' = CallOf(u)
    BY <1>4, <2>2 DEF WriteArtifact, CallOf, Applied, TypeOK
  <2>3. ~Applied(t) /\ (Applied(t)' <=> op[t].id \in index)
    BY <2>1 DEF Applied
  <2>4. CASE op[t].id \in index
    <3>1. catalog' = [catalog EXCEPT ![op[t].id] = op[t].result]
      BY <2>1, <2>4 DEF catalog, TypeOK
    <3>2. /\ CallOf(t).kind = "save" /\ CallOf(t).stage = "pending"
          /\ CallOf(t).id = op[t].id /\ CallOf(t).result = op[t].result
          /\ CallOf(t)' = [CallOf(t) EXCEPT !.stage = "applied"]
      BY <2>1, <2>3, <2>4, Applies
    <3>3. call' = [call EXCEPT ![t].stage = "applied"]
      BY <2>2, <3>2 DEF call
    <3> QED
      BY <2>1, <3>1, <3>2, <3>3 DEF Catalog!Apply, catalog, call, CallOf
  <2>5. CASE op[t].id \notin index
    <3>1. catalog' = catalog
      BY <2>1, <2>5 DEF catalog, TypeOK
    <3>2. CallOf(t)' = CallOf(t)
      BY <2>1, <2>3, <2>5, Stays
    <3> QED
      BY <1>1, <2>1, <2>2, <3>1, <3>2 DEF call
  <2> QED
    BY <2>4, <2>5
<1>5. ASSUME NEW t \in Threads, ReadIndex(t) PROVE UNCHANGED Catalog!catalogVars
  <2>1. ASSUME NEW u \in Threads PROVE CallOf(u)' = CallOf(u)
    <3>1. CASE u # t
      BY <1>5, <3>1 DEF ReadIndex, CallOf, Applied, TypeOK
    <3>2. CASE u = t
      BY <1>5, <3>2 DEF ReadIndex, CallOf, Applied, TypeOK
    <3> QED
      BY <3>1, <3>2
  <2> QED
    BY <1>1, <1>5, <2>1, SameCatalog DEF ReadIndex, call
<1>6. ASSUME NEW t \in Threads, WriteIndex(t)
      PROVE  Catalog!Apply(t) \/ UNCHANGED Catalog!catalogVars
  <2>1. /\ op[t].kind = "save" /\ op[t].id \in ArtifactIds
        /\ file[op[t].id] = op[t].result
        /\ pc[t] = "read" /\ pc'[t] = "indexed"
        /\ index' = index \cup {op[t].id}
        /\ UNCHANGED <<file, op, answer>>
    BY <1>6, OperationTypes DEF WriteIndex, TypeOK, Serial
  <2>2. ASSUME NEW u \in Threads, u # t PROVE CallOf(u)' = CallOf(u)
    <3>1. ~Inside(u)
      BY <1>6, <2>2, Alone DEF WriteIndex, Inside, Serial
    <3> QED
      BY <1>6, <2>2, <3>1 DEF WriteIndex, CallOf, Applied, Inside, TypeOK
  <2>3. (Applied(t) <=> op[t].id \in index) /\ Applied(t)'
    BY <2>1 DEF Applied
  <2>4. catalog' = [catalog EXCEPT ![op[t].id] = op[t].result]
    BY <2>1 DEF catalog, TypeOK
  <2>5. CASE op[t].id \notin index
    <3>1. /\ CallOf(t).kind = "save" /\ CallOf(t).stage = "pending"
          /\ CallOf(t).id = op[t].id /\ CallOf(t).result = op[t].result
          /\ CallOf(t)' = [CallOf(t) EXCEPT !.stage = "applied"]
      BY <2>1, <2>3, <2>5, Applies
    <3>2. call' = [call EXCEPT ![t].stage = "applied"]
      BY <2>2, <3>1 DEF call
    <3> QED
      BY <2>1, <2>4, <3>1, <3>2 DEF Catalog!Apply, catalog, call, CallOf
  <2>6. CASE op[t].id \in index
    <3>1. catalog' = catalog
      BY <2>1, <2>4, <2>6 DEF catalog, TypeOK
    <3>2. CallOf(t)' = CallOf(t)
      BY <2>1, <2>3, <2>6, Stays
    <3> QED
      BY <1>1, <2>1, <2>2, <3>1, <3>2 DEF call
  <2> QED
    BY <2>5, <2>6
<1>7. ASSUME NEW t \in Threads, SaveReturns(t) PROVE Catalog!SaveReturns(t)
  <2>1. call' = [call EXCEPT ![t] = Catalog!NoCall]
    BY <1>7, LeaveCalls DEF SaveReturns
  <2>2. call[t].kind = "save" /\ call[t].stage = "applied"
    BY <1>7 DEF SaveReturns, call, CallOf, Applied
  <2>3. UNCHANGED <<catalog, answer>>
    BY <1>7, SameCatalog DEF SaveReturns
  <2> QED
    BY <2>1, <2>2, <2>3 DEF Catalog!SaveReturns, catalog, call, CallOf
<1>8. ASSUME NEW t \in Threads, LoadReturns(t) PROVE Catalog!LoadReturns(t)
  <2>1. call' = [call EXCEPT ![t] = Catalog!NoCall]
    BY <1>8, LeaveCalls DEF LoadReturns
  <2>2. op[t].id \in ArtifactIds /\ call[t] = op[t] /\ call[t].kind = "load"
    BY <1>8, OperationTypes DEF LoadReturns, call, CallOf, TypeOK
  <2>3. Loaded(t) = catalog[op[t].id]
    BY <1>8, <2>2 DEF LoadReturns, Loaded, catalog, Serial, FilesBacked
  <2>4. answer' = [answer EXCEPT ![t] = catalog[call[t].id]]
    BY <1>8, <2>2, <2>3 DEF LoadReturns
  <2>5. UNCHANGED catalog
    BY <1>8, SameCatalog DEF LoadReturns
  <2> QED
    BY <2>1, <2>2, <2>4, <2>5 DEF Catalog!LoadReturns, catalog, call, CallOf
<1>9. ASSUME NEW t \in Threads, Raise(t) PROVE Catalog!Abort({t})
  <2>1. call' = [call EXCEPT ![t] = Catalog!NoCall]
    BY <1>9, LeaveCalls DEF Raise
  <2>2. UNCHANGED <<catalog, answer>>
    BY <1>9, SameCatalog DEF Raise
  <2>3. call' = [u \in Threads |-> IF u \in {t} THEN Catalog!NoCall ELSE call[u]]
    BY <2>1 DEF call
  <2> QED
    BY <2>2, <2>3 DEF Catalog!Abort, catalog, call, CallOf
<1>10. ASSUME NEW p \in Processes, Crash(p)
       PROVE  Catalog!Abort({t \in Threads : ProcessOf[t] = p})
  <2> DEFINE ended == {t \in Threads : ProcessOf[t] = p}
  <2>1. ASSUME NEW t \in Threads
        PROVE  CallOf(t)' = IF t \in ended THEN Catalog!NoCall ELSE CallOf(t)
    BY <1>10 DEF Crash, CallOf, Applied, NoOp, Catalog!NoCall
  <2>2. UNCHANGED <<catalog, answer>>
    BY <1>10, SameCatalog DEF Crash
  <2>3. call' = [t \in Threads |-> IF t \in ended THEN Catalog!NoCall ELSE call[t]]
    BY <2>1 DEF call
  <2> QED
    BY <2>2, <2>3 DEF Catalog!Abort, catalog, call, CallOf
<1>11. CASE UNCHANGED vars
  <2>1. ASSUME NEW t \in Threads PROVE CallOf(t)' = CallOf(t)
    BY <1>11 DEF vars, CallOf, Applied
  <2> QED
    BY <1>1, <1>11, <2>1, SameCatalog DEF vars, call
<1>12. \A ended \in SUBSET Threads : Catalog!Abort(ended) => Catalog!Next
  BY DEF Catalog!Next
<1>13. \A t \in Threads :
        Catalog!Call(t) \/ Catalog!Apply(t) \/ Catalog!SaveReturns(t)
          \/ Catalog!LoadReturns(t) => Catalog!Next
  BY DEF Catalog!Next
<1> QED
  BY <1>2, <1>3, <1>4, <1>5, <1>6, <1>7, <1>8, <1>9, <1>10, <1>11, <1>12, <1>13
  DEF Next, Step

\* In one process, the store implements the catalog, for any number of threads,
\* artifacts and crashes.
THEOREM StoreImplementsCatalog ==
    ASSUME SingleProcess
    PROVE  Spec => ImplementsCatalog
<1>1. Init => FilesBacked
  BY StoreAssumption DEF Init, FilesBacked, NoOp
<1>2. Spec => []FilesBacked
  BY <1>1, TypeCorrect, BackedStep, PTL DEF Spec
<1>3. TypeOK /\ FilesBacked /\ Serial /\ [Next]_vars =>
        [Catalog!Next]_(Catalog!catalogVars)
  BY CatalogStep
<1> QED
  BY <1>2, <1>3, CatalogInit, SerialAlways, PTL DEF Spec, ImplementsCatalog, Catalog!Spec
=============================================================================
