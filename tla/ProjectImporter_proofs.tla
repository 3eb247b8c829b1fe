----------------------- MODULE ProjectImporter_proofs -----------------------
(***************************************************************************)
(* For any number of imports and of files: the types of ProjectImporter,   *)
(* that no two imports fill one directory, that what a caller got is       *)
(* complete, and that no temporary directory is forgotten.                 *)
(***************************************************************************)
EXTENDS ProjectImporter, TLAPS

\* A call and its thread agree, and a thread that has not begun to copy will
\* begin with the first file.
ThreadsFollow ==
    \A i \in Imports :
        /\ caller[i] = "new" => thread[i] = "none"
        /\ caller[i] = "returned" /\ kind # "path" => thread[i] = "ended"
        /\ thread[i] \in {"none", "queued", "create"} => next[i] = 1

\* cleanup() never reaches the destination a caller supplied.
SharedIsKept ==
    \A i \in Imports : request[i].shared => i \notin managed /\ cleaned[i] = "no"

\* The target of a thread that copies is there, with every file so far.
CopiesHeld ==
    \A i \in Imports :
        thread[i] = "copy" /\ cleaned[i] = "no" =>
            /\ tree[Target(i)] = "target"
            /\ 1..(next[i] - 1) \subseteq files[Target(i)]

\* Nobody copies into a directory that was returned.
ReturnedAlone ==
    \A i, j \in Imports :
        /\ caller[i] = "returned" /\ kind # "path" /\ cleaned[i] = "no"
        /\ thread[j] = "copy"
        => Target(i) # Target(j)

\* A call whose directory cleanup() knows of, or has dealt with.
Accounted(i) == i \in managed \/ cleaned[i] \in {"left", "during", "after"}

\* A thread at work in a managed directory is accounted for.
WorkersAccounted ==
    \A i \in Imports :
        thread[i] \in {"queued", "create", "copy"} /\ ~request[i].shared => Accounted(i)

IInv ==
    /\ TypeOK
    /\ ThreadsFollow
    /\ SharedIsKept
    /\ CopiesHeld
    /\ TargetsExclusive
    /\ ReturnedAlone
    /\ ReturnedComplete
    /\ WorkersAccounted
    /\ LeftoversAreManaged

-----------------------------------------------------------------------------

\* Only the supplied destination is the target of several calls.
LEMMA Targets ==
    ASSUME TypeOK, NEW i \in Imports
    PROVE  /\ Target(i) \in Destinations
           /\ \A j \in Imports : Target(i) = Target(j) /\ i # j =>
                Target(i) = Shared /\ request[i].shared /\ request[j].shared
           /\ request' = request => Target(i)' = Target(i)
           /\ \A j \in Imports : Target(i) = j => j = i /\ ~request[i].shared
BY ImporterAssumption DEF TypeOK, Requests, Destinations, Target

LEMMA InitKeeps == Init => IInv
<1> SUFFICES ASSUME Init PROVE IInv
  OBVIOUS
<1>1. TypeOK
  BY ImporterAssumption DEF Init, TypeOK, Trees, Cleanings
<1>2. ThreadsFollow /\ SharedIsKept /\ CopiesHeld /\ ReturnedAlone
  BY DEF Init, ThreadsFollow, SharedIsKept, CopiesHeld, ReturnedAlone
<1>3. TargetsExclusive /\ ReturnedComplete
  BY DEF Init, TargetsExclusive, ReturnedComplete
<1>4. WorkersAccounted /\ LeftoversAreManaged
  BY DEF Init, WorkersAccounted, LeftoversAreManaged, Destinations
<1> QED
  BY <1>1, <1>2, <1>3, <1>4 DEF IInv

\* A thread that ends with an exception and leaves its files as they are.
LEMMA FailureKeeps ==
    ASSUME IInv, NEW i \in Imports, thread[i] \in {"queued", "create", "copy"},
           End(i, "failed"), UNCHANGED <<callVars, tree, files, next>>
    PROVE  IInv'
<1>1. TypeOK'
  BY DEF IInv, TypeOK, End, callVars
<1>2. \A j \in Imports :
        /\ thread'[j] = IF j = i THEN "ended" ELSE thread[j]
        /\ caller'[j] = "returned" => caller[j] = "returned"
        /\ caller'[j] = "new" => caller[j] = "new" /\ (j = i => thread[i] = "none")
        /\ Target(j)' = Target(j)
  BY Targets DEF IInv, TypeOK, End, callVars, ThreadsFollow
<1>3. ThreadsFollow' /\ SharedIsKept' /\ CopiesHeld'
  BY <1>2 DEF IInv, ThreadsFollow, SharedIsKept, CopiesHeld, callVars
<1>4. TargetsExclusive' /\ ReturnedAlone' /\ ReturnedComplete'
  BY <1>2 DEF IInv, TargetsExclusive, ReturnedAlone, ReturnedComplete, callVars
<1>5. WorkersAccounted' /\ LeftoversAreManaged'
  BY <1>2 DEF IInv, WorkersAccounted, LeftoversAreManaged, Accounted, callVars
<1> QED
  BY <1>1, <1>3, <1>4, <1>5 DEF IInv

\* A thread at work changes the directory it is accounted for, or the supplied
\* one.
LEMMA WorkKeepsAccounts ==
    ASSUME IInv, NEW i \in Imports, thread[i] \in {"queued", "create", "copy"},
           UNCHANGED <<managed, cleaned, request>>,
           \A j \in Imports : thread'[j] \in {"queued", "create", "copy"} =>
                thread[j] \in {"queued", "create", "copy"},
           \A d \in Destinations : d # Target(i) => tree'[d] = tree[d]
    PROVE  WorkersAccounted' /\ LeftoversAreManaged'
<1>1. WorkersAccounted'
  BY DEF IInv, WorkersAccounted, Accounted
<1>2. ASSUME NEW j \in Imports, tree'[j] # "absent"
      PROVE  Accounted(j)
  <2>1. CASE Target(i) = j
    <3>1. j = i /\ ~request[i].shared
      BY <2>1, Targets DEF IInv
    <3> QED
      BY <3>1 DEF IInv, WorkersAccounted
  <2>2. CASE Target(i) # j
    <3>1. tree[j] # "absent"
      BY <1>2, <2>2 DEF Destinations
    <3> QED
      BY <3>1 DEF IInv, LeftoversAreManaged, Accounted
  <2> QED
    BY <2>1, <2>2
<1> QED
  BY <1>1, <1>2 DEF LeftoversAreManaged, Accounted

LEMMA ImportKeeps ==
    ASSUME IInv, NEW i \in Imports, ImportInPlace(i) \/ ImportInThread(i) \/ Cancel(i)
    PROVE  IInv'
<1>1. TypeOK'
  BY DEF IInv, TypeOK, ImportInPlace, ImportInThread, Cancel, callVars, Destinations,
         Target, Trees
<1>2. /\ UNCHANGED <<kind, request, files, next, cleaned>>
      /\ \A j \in Imports :
           /\ Target(j)' = Target(j)
           /\ thread'[j] = "copy" <=> thread[j] = "copy"
           /\ caller'[j] = "returned" /\ kind # "path" => caller[j] = "returned"
      /\ \A d \in Destinations : tree'[d] = "target" <=> tree[d] = "target"
  <2>1. CASE ImportInPlace(i)
    BY <2>1, Targets DEF IInv, TypeOK, ImportInPlace, Refused, callVars
  <2>2. CASE ImportInThread(i)
    BY <2>2, Targets DEF IInv, TypeOK, ImportInThread, ThreadsFollow
  <2>3. CASE Cancel(i)
    BY <2>3, Targets DEF IInv, TypeOK, Cancel, callVars
  <2> QED
    BY <2>1, <2>2, <2>3
<1>3. ThreadsFollow' /\ SharedIsKept'
  BY DEF IInv, TypeOK, ThreadsFollow, SharedIsKept, ImportInPlace, ImportInThread,
         Cancel, Refused, callVars
<1>4. CopiesHeld' /\ ReturnedComplete'
  BY <1>2, Targets DEF IInv, CopiesHeld, ReturnedComplete
<1>5. TargetsExclusive' /\ ReturnedAlone'
  BY <1>2 DEF IInv, TargetsExclusive, ReturnedAlone
<1>6. WorkersAccounted' /\ LeftoversAreManaged'
  <2>1. CASE ImportInPlace(i)
    BY <2>1 DEF IInv, WorkersAccounted, LeftoversAreManaged, Accounted, ImportInPlace,
                callVars
  <2>2. CASE ImportInThread(i)
    <3>1. /\ UNCHANGED <<request, cleaned>>
          /\ managed \subseteq managed'
          /\ ~request[i].shared => i \in managed'
          /\ \A j \in Imports : j # i => thread'[j] = thread[j]
      BY <2>2 DEF IInv, TypeOK, ImportInThread
    <3>2. ASSUME NEW j \in Imports, j # i \/ request[i].shared
          PROVE  tree'[j] = tree[j]
      <4>1. Target(i) # j
        BY <3>2, Targets DEF IInv
      <4> QED
        BY <2>2, <4>1 DEF IInv, TypeOK, ImportInThread, Destinations
    <3> QED
      BY <3>1, <3>2 DEF IInv, WorkersAccounted, LeftoversAreManaged, Accounted
  <2>3. CASE Cancel(i)
    BY <2>3 DEF IInv, TypeOK, WorkersAccounted, LeftoversAreManaged, Accounted, Cancel,
                callVars
  <2> QED
    BY <2>1, <2>2, <2>3
<1> QED
  BY <1>1, <1>3, <1>4, <1>5, <1>6 DEF IInv

LEMMA CleanupKeeps == ASSUME IInv, cleanup PROVE IInv'
<1>0. PICK rest \in [managed -> Trees \X SUBSET (1..Members)] :
        /\ tree' = [d \in Destinations |-> IF d \in managed THEN rest[d][1] ELSE tree[d]]
        /\ files' = [d \in Destinations |-> IF d \in managed THEN rest[d][2] ELSE files[d]]
        /\ cleaned' = [i \in Imports |->
               IF i \notin managed THEN cleaned[i]
               ELSE IF rest[i][1] # "absent" THEN "left"
               ELSE IF caller[i] = "waiting" THEN "during"
               ELSE IF thread[i] # "ended" THEN "after" ELSE "over"]
  BY DEF cleanup
<1>1. TypeOK'
  BY <1>0 DEF IInv, TypeOK, cleanup, Destinations, Cleanings
<1>2. /\ UNCHANGED <<kind, request, thread, next, caller>>
      /\ \A j \in Imports :
           /\ Target(j)' = Target(j)
           /\ cleaned'[j] = "no" => cleaned[j] = "no" /\ j \notin managed
           /\ j \notin managed => cleaned'[j] = cleaned[j]
           /\ j \in managed /\ (tree'[j] # "absent" \/ thread[j] # "ended") =>
                cleaned'[j] \in {"left", "during", "after"}
      /\ \A d \in Destinations \ managed : tree'[d] = tree[d] /\ files'[d] = files[d]
      /\ Shared \in Destinations \ managed
      /\ managed' = {}
  BY <1>0, Targets, ImporterAssumption DEF IInv, TypeOK, cleanup, Destinations
<1>3. \A j \in Imports : j \notin managed => Target(j) \in Destinations \ managed
  BY <1>2 DEF Target, Destinations
<1>4. ThreadsFollow' /\ SharedIsKept'
  BY <1>2 DEF IInv, ThreadsFollow, SharedIsKept
<1>5. CopiesHeld' /\ ReturnedComplete'
  BY <1>2, <1>3 DEF IInv, CopiesHeld, ReturnedComplete
<1>6. TargetsExclusive' /\ ReturnedAlone'
  BY <1>2 DEF IInv, TargetsExclusive, ReturnedAlone
<1>7. WorkersAccounted' /\ LeftoversAreManaged'
  BY <1>2 DEF IInv, WorkersAccounted, LeftoversAreManaged, Accounted, Destinations
<1> QED
  BY <1>1, <1>4, <1>5, <1>6, <1>7 DEF IInv

LEMMA PrepareKeeps == ASSUME IInv, NEW i \in Imports, Prepare(i) PROVE IInv'
<1>1. TypeOK'
  BY DEF IInv, TypeOK, Prepare, callVars
<1>2. \A j \in Imports :
        /\ Target(j)' = Target(j)
        /\ thread'[j] = IF j = i THEN "create" ELSE thread[j]
  BY Targets DEF IInv, TypeOK, Prepare, callVars
<1>3. ThreadsFollow' /\ SharedIsKept' /\ CopiesHeld'
  BY <1>2 DEF IInv, ThreadsFollow, SharedIsKept, CopiesHeld, Prepare, callVars
<1>4. TargetsExclusive' /\ ReturnedAlone' /\ ReturnedComplete'
  BY <1>2 DEF IInv, TargetsExclusive, ReturnedAlone, ReturnedComplete, Prepare, callVars
<1>5. WorkersAccounted' /\ LeftoversAreManaged'
  BY <1>2 DEF IInv, WorkersAccounted, LeftoversAreManaged, Accounted, Prepare, callVars
<1> QED
  BY <1>1, <1>3, <1>4, <1>5 DEF IInv

\* mkdir succeeds only in a directory nobody copies into and nobody was given.
LEMMA CreateKeeps == ASSUME IInv, NEW i \in Imports, Create(i) PROVE IInv'
<1>1. TypeOK'
  BY Targets DEF IInv, TypeOK, Create, callVars, Trees
<1>2. /\ UNCHANGED <<callVars, files, next, caller>>
      /\ \A j \in Imports :
           /\ Target(j)' = Target(j)
           /\ thread'[j] = IF j = i THEN "copy" ELSE thread[j]
           /\ tree'[Target(j)] = IF Target(j) = Target(i) THEN "target" ELSE tree[Target(j)]
      /\ next[i] = 1
  BY Targets DEF IInv, TypeOK, Create, callVars, ThreadsFollow
<1>3. \A j \in Imports :
        /\ thread[j] = "copy" => Target(j) # Target(i)
        /\ caller[j] = "returned" /\ kind # "path" /\ cleaned[j] = "no" =>
             Target(j) # Target(i)
  <2>1. \A j \in Imports : thread[j] = "copy" /\ cleaned[j] = "no" => Target(j) # Target(i)
    BY DEF IInv, CopiesHeld, Create
  <2>2. \A j \in Imports : thread[j] = "copy" /\ Target(j) = Target(i) => cleaned[j] = "no"
    BY Targets DEF IInv, SharedIsKept, Create
  <2> QED
    BY <2>1, <2>2 DEF IInv, ReturnedComplete, Create
<1>4. ThreadsFollow' /\ SharedIsKept'
  BY <1>2 DEF IInv, TypeOK, ThreadsFollow, SharedIsKept, callVars, Create
<1>5. CopiesHeld' /\ ReturnedComplete'
  BY <1>2 DEF IInv, CopiesHeld, ReturnedComplete, callVars
<1>6. TargetsExclusive' /\ ReturnedAlone'
  BY <1>2, <1>3 DEF IInv, TargetsExclusive, ReturnedAlone, callVars
<1>7. WorkersAccounted' /\ LeftoversAreManaged'
  BY <1>2, WorkKeepsAccounts DEF Create, IInv, TypeOK, Destinations, callVars
<1> QED
  BY <1>1, <1>4, <1>5, <1>6, <1>7 DEF IInv

LEMMA CopyKeeps == ASSUME IInv, NEW i \in Imports, CopyMember(i) PROVE IInv'
<1>1. TypeOK'
  BY Targets, ImporterAssumption DEF IInv, TypeOK, CopyMember, callVars, Trees
<1>2. /\ UNCHANGED <<callVars, thread, caller>>
      /\ thread[i] = "copy" /\ next[i] \in 1..Members
      /\ \A j \in Imports :
           /\ Target(j)' = Target(j)
           /\ next'[j] = IF j = i THEN next[i] + 1 ELSE next[j]
      /\ \A d \in Destinations :
           /\ tree'[d] = IF d = Target(i) THEN "target" ELSE tree[d]
           /\ files'[d] = IF d = Target(i) THEN files[d] \cup {next[i]} ELSE files[d]
  <2>1. next[i] \in 1..(Members + 1) /\ next[i] <= Members
    BY DEF IInv, TypeOK, CopyMember
  <2>2. next[i] \in 1..Members
    BY <2>1, ImporterAssumption
  <2>3. UNCHANGED <<callVars, thread, caller>> /\ thread[i] = "copy"
    BY DEF CopyMember
  <2>4. \A j \in Imports :
          /\ Target(j)' = Target(j)
          /\ next'[j] = IF j = i THEN next[i] + 1 ELSE next[j]
    BY Targets DEF IInv, TypeOK, CopyMember, callVars
  <2>5. \A d \in Destinations :
          /\ tree'[d] = IF d = Target(i) THEN "target" ELSE tree[d]
          /\ files'[d] = IF d = Target(i) THEN files[d] \cup {next[i]} ELSE files[d]
    BY Targets DEF IInv, TypeOK, CopyMember
  <2> QED
    BY <2>2, <2>3, <2>4, <2>5
<1>3. ThreadsFollow' /\ SharedIsKept'
  BY <1>2 DEF IInv, ThreadsFollow, SharedIsKept, callVars
<1>4. CopiesHeld'
  <2> SUFFICES ASSUME NEW j \in Imports, thread[j] = "copy", cleaned[j] = "no"
               PROVE  /\ tree'[Target(j)] = "target"
                      /\ 1..(next'[j] - 1) \subseteq files'[Target(j)]
    BY <1>2 DEF CopiesHeld, callVars
  <2>1. Target(j) \in Destinations /\ next[j] \in Nat
    BY Targets DEF IInv, TypeOK
  <2>2. tree[Target(j)] = "target" /\ 1..(next[j] - 1) \subseteq files[Target(j)]
    BY DEF IInv, CopiesHeld
  <2>3. CASE j = i
    <3>1. 1..(next'[j] - 1) = 1..(next[j] - 1) \cup {next[j]}
      BY <1>2, <2>1, <2>3
    <3> QED
      BY <1>2, <2>1, <2>2, <2>3, <3>1
  <2>4. CASE j # i
    BY <1>2, <2>1, <2>2, <2>4
  <2> QED
    BY <2>3, <2>4
<1>5. TargetsExclusive' /\ ReturnedAlone'
  BY <1>2 DEF IInv, TargetsExclusive, ReturnedAlone, callVars
<1>6. ReturnedComplete'
  <2> SUFFICES ASSUME NEW j \in Imports, caller[j] = "returned", kind # "path",
                      cleaned[j] = "no"
               PROVE  /\ tree'[Target(j)] = "target"
                      /\ files'[Target(j)] = 1..Members
    BY <1>2 DEF ReturnedComplete, callVars
  <2>1. Target(j) # Target(i) /\ Target(j) \in Destinations
    BY <1>2, Targets DEF IInv, ReturnedAlone
  <2>2. tree[Target(j)] = "target" /\ files[Target(j)] = 1..Members
    BY DEF IInv, ReturnedComplete
  <2> QED
    BY <1>2, <2>1, <2>2
<1>7. WorkersAccounted' /\ LeftoversAreManaged'
  BY <1>2, WorkKeepsAccounts DEF callVars
<1> QED
  BY <1>1, <1>3, <1>4, <1>5, <1>6, <1>7 DEF IInv

\* The clone removes a target that is its own.
LEMMA CloneRaisesKeeps == ASSUME IInv, NEW i \in Imports, CloneRaises(i) PROVE IInv'
<1>0. PICK rest \in Remains(Target(i), {IF tree[Target(i)] = "target" THEN "root"
                                       ELSE tree[Target(i)]}) :
        /\ tree' = [tree EXCEPT ![Target(i)] = rest[1]]
        /\ files' = [files EXCEPT ![Target(i)] = rest[2]]
  BY DEF CloneRaises
<1>1. TypeOK'
  <2>1. rest[1] \in Trees /\ rest[2] \subseteq 1..Members
    BY <1>0, Targets DEF IInv, TypeOK, Remains, Trees
  <2> QED
    BY <1>0, <2>1, Targets DEF IInv, TypeOK, CloneRaises, End, callVars
<1>2. /\ UNCHANGED <<callVars, next>>
      /\ thread[i] = "copy"
      /\ \A j \in Imports :
           /\ Target(j)' = Target(j)
           /\ thread'[j] = IF j = i THEN "ended" ELSE thread[j]
           /\ caller'[j] = "returned" => caller[j] = "returned"
           /\ caller'[j] = "new" => caller[j] = "new" /\ j # i
      /\ \A d \in Destinations : d # Target(i) => tree'[d] = tree[d] /\ files'[d] = files[d]
  BY <1>0, Targets DEF IInv, TypeOK, CloneRaises, End, callVars, ThreadsFollow
<1>3. ThreadsFollow' /\ SharedIsKept'
  BY <1>2 DEF IInv, ThreadsFollow, SharedIsKept, callVars
<1>4. CopiesHeld' /\ ReturnedComplete'
  BY <1>2, Targets DEF IInv, CopiesHeld, ReturnedComplete, ReturnedAlone,
                       TargetsExclusive, callVars
<1>5. TargetsExclusive' /\ ReturnedAlone'
  BY <1>2 DEF IInv, TargetsExclusive, ReturnedAlone, callVars
<1>6. WorkersAccounted' /\ LeftoversAreManaged'
  BY <1>2, WorkKeepsAccounts DEF callVars
<1> QED
  BY <1>1, <1>3, <1>4, <1>5, <1>6 DEF IInv

LEMMA ReturnKeeps == ASSUME IInv, NEW i \in Imports, Return(i) PROVE IInv'
<1>1. TypeOK'
  BY DEF IInv, TypeOK, Return, End, callVars
<1>2. /\ UNCHANGED <<callVars, tree, files, next>>
      /\ thread[i] = "copy" /\ next[i] = Members + 1
      /\ \A j \in Imports :
           /\ Target(j)' = Target(j)
           /\ thread'[j] = IF j = i THEN "ended" ELSE thread[j]
           /\ caller'[j] = "returned" => caller[j] = "returned" \/ j = i
           /\ caller'[j] = "new" => caller[j] = "new" /\ j # i
  BY Targets, ImporterAssumption DEF IInv, TypeOK, Return, End, callVars, ThreadsFollow
<1>3. ThreadsFollow' /\ SharedIsKept' /\ CopiesHeld'
  BY <1>2 DEF IInv, ThreadsFollow, SharedIsKept, CopiesHeld, callVars
<1>4. TargetsExclusive' /\ ReturnedAlone'
  BY <1>2 DEF IInv, TargetsExclusive, ReturnedAlone, callVars
<1>5. cleaned[i] = "no" => tree[Target(i)] = "target" /\ files[Target(i)] = 1..Members
  <2>1. Target(i) \in Destinations /\ files[Target(i)] \subseteq 1..Members
    BY Targets DEF IInv, TypeOK
  <2>2. next[i] - 1 = Members
    BY <1>2, ImporterAssumption
  <2>3. cleaned[i] = "no" => tree[Target(i)] = "target" /\ 1..Members \subseteq files[Target(i)]
    BY <1>2, <2>2 DEF IInv, CopiesHeld
  <2> QED
    BY <2>1, <2>3
<1>6. ReturnedComplete'
  BY <1>2, <1>5 DEF IInv, ReturnedComplete, callVars
<1>7. WorkersAccounted' /\ LeftoversAreManaged'
  BY <1>2, WorkKeepsAccounts DEF callVars
<1> QED
  BY <1>1, <1>3, <1>4, <1>6, <1>7 DEF IInv

LEMMA WorkKeeps == ASSUME IInv, NEW i \in Imports, Work(i) PROVE IInv'
<1>1. CASE PrepareRaises(i)
  BY <1>1, FailureKeeps DEF PrepareRaises
<1>2. CASE Prepare(i)
  BY <1>2, PrepareKeeps
<1>3. CASE Create(i)
  BY <1>3, CreateKeeps
<1>4. CASE CreateRaises(i)
  BY <1>4, FailureKeeps DEF CreateRaises
<1>5. CASE TimeoutInvalid(i)
  BY <1>5, FailureKeeps DEF TimeoutInvalid
<1>6. CASE CopyMember(i)
  BY <1>6, CopyKeeps
<1>7. CASE ExtractRaises(i)
  BY <1>7, FailureKeeps DEF ExtractRaises
<1>8. CASE CloneRaises(i)
  BY <1>8, CloneRaisesKeeps
<1>9. CASE CloneEscapes(i)
  BY <1>9, FailureKeeps DEF CloneEscapes
<1>10. CASE Return(i)
  BY <1>10, ReturnKeeps
<1> QED
  BY <1>1, <1>2, <1>3, <1>4, <1>5, <1>6, <1>7, <1>8, <1>9, <1>10 DEF Work

LEMMA StutterKeeps == IInv /\ UNCHANGED vars => IInv'
BY DEF vars, IInv, TypeOK, ThreadsFollow, SharedIsKept, CopiesHeld, TargetsExclusive,
       ReturnedAlone, ReturnedComplete, WorkersAccounted, LeftoversAreManaged, Accounted,
       Target

LEMMA NextKeeps == IInv /\ [Next]_vars => IInv'
BY ImportKeeps, WorkKeeps, CleanupKeeps, StutterKeeps DEF Next

\* Of any number of imports in flight, the invariant of the importer holds in
\* every state.
THEOREM InductiveInvariant == Spec => []IInv
BY InitKeeps, NextKeeps, PTL DEF Spec

\* The importer's state keeps its types.
THEOREM TypeCorrect == Spec => []TypeOK
<1>1. IInv => TypeOK
  BY DEF IInv
<1> QED
  BY <1>1, InductiveInvariant, PTL

\* No two of any number of imports fill one directory together.
THEOREM TargetsAreExclusive == Spec => []TargetsExclusive
<1>1. IInv => TargetsExclusive
  BY DEF IInv
<1> QED
  BY <1>1, InductiveInvariant, PTL

\* What a caller got is the whole project, until cleanup().
THEOREM ReturnedIsComplete == Spec => []ReturnedComplete
<1>1. IInv => ReturnedComplete
  BY DEF IInv
<1> QED
  BY <1>1, InductiveInvariant, PTL

\* No temporary directory of any number of imports is forgotten, whatever fails.
THEOREM LeftoversStayManaged == Spec => []LeftoversAreManaged
<1>1. IInv => LeftoversAreManaged
  BY DEF IInv
<1> QED
  BY <1>1, InductiveInvariant, PTL
=============================================================================
