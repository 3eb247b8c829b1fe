---------------------------- MODULE ArtifactStore ----------------------------
(***************************************************************************)
(* The binary artifact store (analyzers/binary/reverse/artifacts.py): one  *)
(* directory with a file for each artifact and an index of the artifacts   *)
(* that exist, shared by the threads of several processes.  Each file is   *)
(* replaced atomically; a save replaces two of them, one after the other.  *)
(* The lock is shared by the threads of a process only.  Threads fail when *)
(* the file system refuses a read or a write, and processes crash and      *)
(* start again; the loss of writes in a power failure is left out.         *)
(***************************************************************************)
EXTENDS Naturals, FiniteSets

CONSTANTS
    Processes,
    Threads,
    ProcessOf,     \* the process a thread belongs to
    ArtifactIds,
    Results,       \* what an artifact file may hold
    NoResult,      \* no file
    NoThread,
    MaxCalls,      \* bound: calls of all threads together
    MaxCrashes     \* bound

ASSUME StoreAssumption ==
    /\ ProcessOf \in [Threads -> Processes]
    /\ NoResult \notin Results
    /\ "missing" \notin Results \cup {NoResult}
    /\ NoThread \notin Threads
    /\ MaxCalls \in Nat
    /\ MaxCrashes \in Nat

VARIABLES
    file,      \* the artifact files
    index,     \* index.json: the artifacts it lists
    lock,      \* of each process: the thread that holds it, or NoThread
    pc,        \* of each thread
    op,        \* of each thread: the call it is in
    snapshot,  \* of each thread: the index as it read it
    answer,    \* of each thread: what its last load returned
    returned,  \* history: the artifacts some save has returned for
    calls, crashes

vars == <<file, index, lock, pc, op, snapshot, answer, returned, calls, crashes>>

Operations ==
    [kind: {"save"}, id: ArtifactIds, result: Results]
      \cup [kind: {"load"}, id: ArtifactIds]

NoOp == [kind |-> "none"]

Init ==
    /\ file = [a \in ArtifactIds |-> NoResult]
    /\ index = {}
    /\ lock = [p \in Processes |-> NoThread]
    /\ pc = [t \in Threads |-> "idle"]
    /\ op = [t \in Threads |-> NoOp]
    /\ snapshot = [t \in Threads |-> {}]
    /\ answer = [t \in Threads |-> NoResult]
    /\ returned = {}
    /\ calls = 0
    /\ crashes = 0

\* save_result before the lock, and load.  A result that is not JSON is
\* refused here, which changes nothing.
Call(t) ==
    /\ pc[t] = "idle"
    /\ calls < MaxCalls
    /\ pc' = [pc EXCEPT ![t] = "called"]
    /\ op' \in {[op EXCEPT ![t] = o] : o \in Operations}
    /\ calls' = calls + 1
    /\ UNCHANGED <<file, index, lock, snapshot, answer, returned, crashes>>

\* Mutant: each store has a lock of its own.
AcquireOwn(t) ==
    /\ pc[t] = "called"
    /\ pc' = [pc EXCEPT ![t] = "locked"]
    /\ UNCHANGED <<file, index, lock, op, snapshot, answer, returned, calls, crashes>>

Acquire(t) ==
    /\ pc[t] = "called"
    /\ lock[ProcessOf[t]] = NoThread
    /\ lock' = [lock EXCEPT ![ProcessOf[t]] = t]
    /\ pc' = [pc EXCEPT ![t] = "locked"]
    /\ UNCHANGED <<file, index, op, snapshot, answer, returned, calls, crashes>>

\* Mutant: an OSError of the first write is swallowed.
WriteArtifactOrNot(t) ==
    /\ op[t].kind = "save" /\ pc[t] = "locked"
    /\ file' \in {file, [file EXCEPT ![op[t].id] = op[t].result]}
    /\ pc' = [pc EXCEPT ![t] = "written"]
    /\ UNCHANGED <<index, lock, op, snapshot, answer, returned, calls, crashes>>

\* _atomic_json: the new file replaces the old one, or nothing happens.
WriteArtifact(t) ==
    /\ op[t].kind = "save" /\ pc[t] = "locked"
    /\ file' = [file EXCEPT ![op[t].id] = op[t].result]
    /\ pc' = [pc EXCEPT ![t] = "written"]
    /\ UNCHANGED <<index, lock, op, snapshot, answer, returned, calls, crashes>>

\* _load_index
ReadIndex(t) ==
    /\ \/ op[t].kind = "save" /\ pc[t] = "written"
       \/ op[t].kind = "load" /\ pc[t] = "locked"
    /\ snapshot' = [snapshot EXCEPT ![t] = index]
    /\ pc' = [pc EXCEPT ![t] = "read"]
    /\ UNCHANGED <<file, index, lock, op, answer, returned, calls, crashes>>

WriteIndex(t) ==
    /\ op[t].kind = "save" /\ pc[t] = "read"
    /\ index' = snapshot[t] \cup {op[t].id}
    /\ pc' = [pc EXCEPT ![t] = "indexed"]
    /\ UNCHANGED <<file, lock, op, snapshot, answer, returned, calls, crashes>>

\* The thread leaves the store and its lock.
Leave(t) ==
    /\ pc' = [pc EXCEPT ![t] = "idle"]
    /\ op' = [op EXCEPT ![t] = NoOp]
    /\ snapshot' = [snapshot EXCEPT ![t] = {}]
    /\ lock' = [lock EXCEPT ![ProcessOf[t]] = NoThread]

SaveReturns(t) ==
    /\ op[t].kind = "save" /\ pc[t] = "indexed"
    /\ Leave(t)
    /\ returned' = returned \cup {op[t].id}
    /\ UNCHANGED <<file, index, answer, calls, crashes>>

\* Mutant: the index is not consulted.
LoadedUnlisted(t) == file[op[t].id]

\* What load returns: nothing for an artifact that is not listed.  A listed one
\* without a file raises.
Loaded(t) ==
    IF op[t].id \notin snapshot[t] THEN NoResult
    ELSE IF file[op[t].id] = NoResult THEN "missing"
    ELSE file[op[t].id]

LoadReturns(t) ==
    /\ op[t].kind = "load" /\ pc[t] = "read"
    /\ answer' = [answer EXCEPT ![t] = Loaded(t)]
    /\ Leave(t)
    /\ UNCHANGED <<file, index, returned, calls, crashes>>

\* Mutant: the lock is not released when the file system raises.
RaiseLocked(t) ==
    /\ pc[t] \in {"locked", "written", "read"}
    /\ pc' = [pc EXCEPT ![t] = "idle"]
    /\ op' = [op EXCEPT ![t] = NoOp]
    /\ snapshot' = [snapshot EXCEPT ![t] = {}]
    /\ UNCHANGED <<file, index, lock, answer, returned, calls, crashes>>

\* A read or a write raises; _atomic_json removes its temporary file.
Raise(t) ==
    /\ pc[t] \in {"locked", "written", "read"}
    /\ Leave(t)
    /\ UNCHANGED <<file, index, answer, returned, calls, crashes>>

\* The process is killed and starts again; its threads are gone, its lock too.
Crash(p) ==
    /\ crashes < MaxCrashes
    /\ crashes' = crashes + 1
    /\ pc' = [t \in Threads |-> IF ProcessOf[t] = p THEN "idle" ELSE pc[t]]
    /\ op' = [t \in Threads |-> IF ProcessOf[t] = p THEN NoOp ELSE op[t]]
    /\ snapshot' = [t \in Threads |-> IF ProcessOf[t] = p THEN {} ELSE snapshot[t]]
    /\ lock' = [lock EXCEPT ![p] = NoThread]
    /\ UNCHANGED <<file, index, answer, returned, calls>>

\* What a thread does once it has called.
Step(t) ==
    \/ Acquire(t)
    \/ WriteArtifact(t)
    \/ ReadIndex(t)
    \/ WriteIndex(t)
    \/ SaveReturns(t)
    \/ LoadReturns(t)
    \/ Raise(t)

Next ==
    \/ \E t \in Threads : Call(t) \/ Step(t)
    \/ \E p \in Processes : Crash(p)

\* The system schedules every thread that can run.  The lock is not fair, but
\* the calls that can come between are bounded.
Spec == Init /\ [][Next]_vars /\ \A t \in Threads : WF_vars(Step(t))

-----------------------------------------------------------------------------

TypeOK ==
    /\ file \in [ArtifactIds -> Results \cup {NoResult}]
    /\ index \subseteq ArtifactIds
    /\ lock \in [Processes -> Threads \cup {NoThread}]
    /\ pc \in [Threads -> {"idle", "called", "locked", "written", "read", "indexed"}]
    /\ op \in [Threads -> Operations \cup {NoOp}]
    /\ \A t \in Threads : (pc[t] = "idle") = (op[t] = NoOp)
    /\ snapshot \in [Threads -> SUBSET ArtifactIds]
    /\ answer \in [Threads -> Results \cup {NoResult, "missing"}]
    /\ returned \subseteq ArtifactIds
    /\ calls \in 0..MaxCalls
    /\ crashes \in 0..MaxCrashes

\* However many processes write, the index never lists an artifact without a
\* file, so no load ever fails with "indexed artifact is missing": a crash or
\* an error between the two writes of a save leaves an artifact nobody lists,
\* never an entry nobody can load.
IndexNeverDangles ==
    /\ \A a \in index : file[a] # NoResult
    /\ \A t \in Threads : answer[t] # "missing"

\* A save that has returned is never taken back, neither by the saves of the
\* other threads of the process nor by errors and crashes.
SavedIsListed == returned \subseteq index

\* Every call comes to an end: an error does not keep the lock.
CallsEnd == \A t \in Threads : pc[t] = "called" ~> pc[t] = "idle"

\* A save has changed the catalog when its artifact, already listed, is
\* replaced, or else when it is listed.
Applied(t) ==
    \/ pc[t] = "indexed"
    \/ pc[t] \in {"written", "read"} /\ op[t].id \in index

Catalog == INSTANCE ArtifactCatalog WITH
    catalog <- [a \in ArtifactIds |-> IF a \in index THEN file[a] ELSE NoResult],
    call <- [t \in Threads |->
        IF op[t].kind = "save"
        THEN [kind |-> "save", id |-> op[t].id, result |-> op[t].result,
              stage |-> IF Applied(t) THEN "applied" ELSE "pending"]
        ELSE op[t]]

\* In one process, the store is the catalog.
ImplementsCatalog == Catalog!Spec
=============================================================================
