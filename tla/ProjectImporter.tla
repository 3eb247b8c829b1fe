--------------------------- MODULE ProjectImporter ---------------------------
(***************************************************************************)
(* ProjectImporter (analyzers/source/parser/project_importer.py): calls of *)
(* import_project share an event loop; the extraction of an archive or the *)
(* clone of a repository runs in a worker thread, which goes on when its   *)
(* caller is cancelled or when cleanup() is called.                        *)
(*                                                                         *)
(* The directory an origin is imported to is named after the origin, so    *)
(* only calls for the same origin meet: the model has one origin.          *)
(***************************************************************************)
EXTENDS Naturals, FiniteSets

CONSTANTS
    Imports,    \* bound: calls of import_project
    Shared,     \* the destination a caller may supply
    Members     \* how many files the origin holds

ASSUME ImporterAssumption ==
    /\ Shared \notin Imports
    /\ Members \in Nat

VARIABLES
    kind,       \* of the origin
    request,    \* per call: where to, and metadata
    tree,       \* per destination: "absent", "root" or "target"
    files,      \* per destination: the files of the target
    managed,    \* _managed_dirs: a managed directory is named after its call
    thread,     \* per call: its worker thread
    next,       \* per call: the file it copies next
    caller,     \* per call: what the caller sees
    cleaned     \* history: what cleanup() did to the call's directory

vars == <<kind, request, tree, files, managed, thread, next, caller, cleaned>>
callVars == <<managed, cleaned, kind, request>>

Kinds == {"path", "missing", "zip", "git"}
Requests == [shared: BOOLEAN, allow_git_clone: BOOLEAN, timeout_valid: BOOLEAN]
Trees == {"absent", "root", "target"}

\* "left": it could not be removed; else it was removed while the caller waited
\* ("during"), while only the thread was at work ("after"), or when the thread
\* was over, too ("over").
Cleanings == {"no", "left", "during", "after", "over"}

Destinations == Imports \cup {Shared}
Target(i) == IF request[i].shared THEN Shared ELSE i

Init ==
    /\ kind \in Kinds
    /\ request \in [Imports -> Requests]
    /\ tree = [d \in Destinations |-> "absent"]
    /\ files = [d \in Destinations |-> {}]
    /\ managed = {}
    /\ thread = [i \in Imports |-> "none"]
    /\ next = [i \in Imports |-> 1]
    /\ caller = [i \in Imports |-> "new"]
    /\ cleaned = [i \in Imports |-> "no"]

-----------------------------------------------------------------------------
(* In the event loop.                                                      *)

Refused(i) == kind = "missing" \/ (kind = "git" /\ ~request[i].allow_git_clone)

\* A refused call raises and a local path is returned, both at once.
ImportInPlace(i) ==
    /\ caller[i] = "new"
    /\ Refused(i) \/ kind = "path"
    /\ caller' = [caller EXCEPT ![i] = IF Refused(i) THEN "failed" ELSE "returned"]
    /\ UNCHANGED <<callVars, tree, files, thread, next>>

\* _resolve_destination, then the worker thread is awaited.
ImportInThread(i) ==
    /\ caller[i] = "new"
    /\ ~Refused(i) /\ kind # "path"
    /\ tree' = [tree EXCEPT ![Target(i)] = IF @ = "absent" THEN "root" ELSE @]
    /\ managed' = IF request[i].shared THEN managed ELSE managed \cup {i}
    /\ thread' = [thread EXCEPT ![i] = "queued"]
    /\ caller' = [caller EXCEPT ![i] = "waiting"]
    /\ UNCHANGED <<kind, request, files, next, cleaned>>

\* The caller is cancelled; only a thread that has not begun is stopped.
Cancel(i) ==
    /\ caller[i] = "waiting"
    /\ caller' = [caller EXCEPT ![i] = "cancelled"]
    /\ \/ thread' = thread
       \/ thread[i] = "queued" /\ thread' = [thread EXCEPT ![i] = "ended"]
    /\ UNCHANGED <<callVars, tree, files, next>>

\* What rmtree(ignore_errors=True) may leave: one of `gone`, or the directory
\* with some of its files when something cannot be removed.
Remains(d, gone) == (gone \X {{}}) \cup ({tree[d]} \X SUBSET files[d])

\* The list is cleared whatever could be removed.
cleanup ==
    /\ managed # {}
    /\ \E rest \in [managed -> Trees \X SUBSET (1..Members)] :
        /\ \A d \in managed : rest[d] \in Remains(d, {"absent", "root"})
        /\ tree' = [d \in Destinations |-> IF d \in managed THEN rest[d][1] ELSE tree[d]]
        /\ files' = [d \in Destinations |-> IF d \in managed THEN rest[d][2] ELSE files[d]]
        /\ cleaned' = [i \in Imports |->
               IF i \notin managed THEN cleaned[i]
               ELSE IF rest[i][1] # "absent" THEN "left"
               ELSE IF caller[i] = "waiting" THEN "during"
               ELSE IF thread[i] # "ended" THEN "after" ELSE "over"]
    /\ managed' = {}
    /\ UNCHANGED <<kind, request, thread, next, caller>>

-----------------------------------------------------------------------------
(* In a worker thread.                                                     *)

\* The thread is over; a caller that still waits gets what it ended with.
End(i, outcome) ==
    /\ thread' = [thread EXCEPT ![i] = "ended"]
    /\ caller' = [caller EXCEPT ![i] = IF @ = "waiting" THEN outcome ELSE @]

\* Mutants: the refusal waits for the target to go away; a refused clone
\* removes the target.
PrepareWaits(i) ==
    /\ thread[i] = "queued"
    /\ kind = "git"
    /\ End(i, "failed")
    /\ UNCHANGED <<callVars, tree, files, next>>
PrepareRemoves(i) ==
    /\ thread[i] = "queued"
    /\ tree[Target(i)] = "target" \/ kind = "git"
    /\ End(i, "failed")
    /\ tree' = [tree EXCEPT ![Target(i)] = IF @ = "target" THEN "root" ELSE @]
    /\ files' = [files EXCEPT ![Target(i)] = {}]
    /\ UNCHANGED <<callVars, next>>

\* The target exists, or there is no git executable.
PrepareRaises(i) ==
    /\ thread[i] = "queued"
    /\ tree[Target(i)] = "target" \/ kind = "git"
    /\ End(i, "failed")
    /\ UNCHANGED <<callVars, tree, files, next>>

\* exists() was false
Prepare(i) ==
    /\ thread[i] = "queued"
    /\ tree[Target(i)] # "target"
    /\ thread' = [thread EXCEPT ![i] = "create"]
    /\ UNCHANGED <<callVars, tree, files, next, caller>>

\* Mutant: mkdir accepts a directory that exists.
CreateExistOk(i) ==
    /\ thread[i] = "create"
    /\ tree' = [tree EXCEPT ![Target(i)] = "target"]
    /\ thread' = [thread EXCEPT ![i] = "copy"]
    /\ UNCHANGED <<callVars, files, next, caller>>

\* mkdir(parents=True), which makes a removed destination again
Create(i) ==
    /\ thread[i] = "create"
    /\ tree[Target(i)] # "target"
    /\ tree' = [tree EXCEPT ![Target(i)] = "target"]
    /\ thread' = [thread EXCEPT ![i] = "copy"]
    /\ UNCHANGED <<callVars, files, next, caller>>

\* Created by another thread since the test, or any other OSError.
CreateRaises(i) ==
    /\ thread[i] = "create"
    /\ End(i, "failed")
    /\ UNCHANGED <<callVars, tree, files, next>>

\* The timeout of a clone is parsed after its target was made.
Parsed(i) == kind = "git" => request[i].timeout_valid

TimeoutInvalid(i) ==
    /\ thread[i] = "copy" /\ ~Parsed(i)
    /\ End(i, "failed")
    /\ UNCHANGED <<callVars, tree, files, next>>

\* The parent directories of a member are made again if they are gone; git
\* may do the same.
CopyMember(i) ==
    /\ thread[i] = "copy" /\ Parsed(i)
    /\ next[i] <= Members
    /\ tree' = [tree EXCEPT ![Target(i)] = "target"]
    /\ files' = [files EXCEPT ![Target(i)] = @ \cup {next[i]}]
    /\ next' = [next EXCEPT ![i] = @ + 1]
    /\ UNCHANGED <<callVars, thread, caller>>

\* A bad archive, an unsafe member, too many bytes, an OSError: what was
\* extracted stays.
ExtractRaises(i) ==
    /\ thread[i] = "copy" /\ kind = "zip"
    /\ End(i, "failed")
    /\ UNCHANGED <<callVars, tree, files, next>>

\* Mutant: a failed clone is also taken off the list of managed directories.
CloneForgets(i) ==
    /\ thread[i] = "copy" /\ kind = "git" /\ Parsed(i)
    /\ \E rest \in Remains(Target(i), {IF tree[Target(i)] = "target" THEN "root"
                                      ELSE tree[Target(i)]}) :
        /\ tree' = [tree EXCEPT ![Target(i)] = rest[1]]
        /\ files' = [files EXCEPT ![Target(i)] = rest[2]]
    /\ End(i, "failed")
    /\ managed' = managed \ {i}
    /\ UNCHANGED <<cleaned, kind, request, next>>

\* The timeout, an OSError or a return code: the target is removed if it can be.
CloneRaises(i) ==
    /\ thread[i] = "copy" /\ kind = "git" /\ Parsed(i)
    /\ \E rest \in Remains(Target(i), {IF tree[Target(i)] = "target" THEN "root"
                                      ELSE tree[Target(i)]}) :
        /\ tree' = [tree EXCEPT ![Target(i)] = rest[1]]
        /\ files' = [files EXCEPT ![Target(i)] = rest[2]]
    /\ End(i, "failed")
    /\ UNCHANGED <<callVars, next>>

\* An exception the clause does not name passes the removal: output of git that
\* is no text (UnicodeDecodeError), a timeout too large (OverflowError), a NUL
\* in the URL (ValueError).
CloneEscapes(i) ==
    /\ thread[i] = "copy" /\ kind = "git" /\ Parsed(i)
    /\ End(i, "failed")
    /\ UNCHANGED <<callVars, tree, files, next>>

Return(i) ==
    /\ thread[i] = "copy" /\ Parsed(i)
    /\ next[i] > Members
    /\ End(i, "returned")
    /\ UNCHANGED <<callVars, tree, files, next>>

Work(i) ==
    \/ PrepareRaises(i)
    \/ Prepare(i)
    \/ Create(i)
    \/ CreateRaises(i)
    \/ TimeoutInvalid(i)
    \/ CopyMember(i)
    \/ ExtractRaises(i)
    \/ CloneRaises(i)
    \/ CloneEscapes(i)
    \/ Return(i)

Next ==
    \/ \E i \in Imports :
        \/ ImportInPlace(i)
        \/ ImportInThread(i)
        \/ Cancel(i)
        \/ Work(i)
    \/ cleanup

\* A worker thread is scheduled and each of its file operations and its git,
\* which has a timeout, ends; nobody has to import, to cancel or to clean up.
Spec == Init /\ [][Next]_vars /\ \A i \in Imports : WF_vars(Work(i))

-----------------------------------------------------------------------------

TypeOK ==
    /\ kind \in Kinds
    /\ request \in [Imports -> Requests]
    /\ tree \in [Destinations -> Trees]
    /\ files \in [Destinations -> SUBSET (1..Members)]
    /\ managed \subseteq Imports
    /\ thread \in [Imports -> {"none", "queued", "create", "copy", "ended"}]
    /\ next \in [Imports -> 1..(Members + 1)]
    /\ caller \in [Imports -> {"new", "waiting", "returned", "failed", "cancelled"}]
    /\ cleaned \in [Imports -> Cleanings]

\* _prepare_target tests and then creates: however two imports of one origin
\* interleave, they never fill one directory together.
TargetsExclusive ==
    \A i, j \in Imports :
        thread[i] = "copy" /\ thread[j] = "copy" /\ i # j => Target(i) # Target(j)

\* A caller that got a directory has the whole project in it until it calls
\* cleanup(), whatever other imports of the same origin do or fail to do.
ReturnedComplete ==
    \A i \in Imports :
        caller[i] = "returned" /\ kind # "path" /\ cleaned[i] = "no" =>
            /\ tree[Target(i)] = "target"
            /\ files[Target(i)] = 1..Members

\* No temporary directory is forgotten, however the import into it ended: one
\* that is there is on the list cleanup() works through, or cleanup() could not
\* remove it, or removed it under a thread that was still at work.
LeftoversAreManaged ==
    \A i \in Imports : tree[i] # "absent" =>
        i \in managed \/ cleaned[i] \in {"left", "during", "after"}

\* Every call of import_project that was made ends.
ImportsEnd == \A i \in Imports : caller[i] = "waiting" ~> caller[i] # "waiting"

\* cleanup(), "Remove managed temporary directories created by this importer":
\* a directory that was removed when its call was over stays removed.
CleanupRemoves ==
    \A i \in Imports : cleaned[i] \in {"after", "over"} => tree[i] = "absent"
=============================================================================
