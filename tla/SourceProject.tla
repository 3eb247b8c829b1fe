---------------------------- MODULE SourceProject ----------------------------
(***************************************************************************)
(* One analyze() call of a source parser over a project on disk: the       *)
(* project is walked folder by folder, every entry is classified, the      *)
(* files of a supported language are parsed one after the other, and the   *)
(* calls found are resolved (PythonResolver).  Anything else may change    *)
(* the files between two of these steps.                                   *)
(*                                                                         *)
(* SourceProjectParser (parser "project") and PythonSourceParser           *)
(* ("python") differ in what they ignore and count; both parse a file with *)
(* parse_python_file and resolve with resolve_call_graph_for_files.        *)
(***************************************************************************)
EXTENDS PythonResolver

CONSTANTS
    Order,        \* every file there may be, in the order of displayed paths
    Projects,     \* the programs of each project's files, by project and file
    RawLimits,    \* values of the request's max_file_bytes; 0 is one that is no limit
    Unreadable,   \* sets of folders that cannot be listed
    MaxFileSize,  \* size of the largest file, and the default limit
    MaxEdits      \* bound on the changes to the disk during one call

Files == {Order[i] : i \in DOMAIN Order}

\* There is a folder wherever there is something below it.
Folders == {<<>>} \cup UNION {Prefixes(f.folder) : f \in Files}
Parsers == {"project", "python"}

Names == Seq(STRING) \ {Nowhere}
Definitions == [path : Names, kind : {"class", "callable"}, calls : SUBSET Names]
Imports == [is_from : BOOLEAN, level : Nat, module : Seq(STRING), name : STRING,
            asname : STRING]

\* What a file can hold, its import statements at two depths of its tree: inner
\* are those nested deeper than imports, as in the body of a function.
Programs == [defs : SUBSET Definitions, imports : Seq(Imports), inner : Seq(Imports)]

ASSUME SourceProjectAssumption ==
    /\ Order \in Seq([folder : Seq(STRING), stem : STRING, suffix : STRING])
    /\ MaxFileSize \in Nat \ {0}
    /\ Unreadable \subseteq SUBSET Folders
    /\ 0 \in RawLimits /\ MaxEdits \in Nat
    /\ \A p \in DOMAIN Projects :
        /\ DOMAIN Projects[p] \subseteq Files
        /\ \A f \in DOMAIN Projects[p] : Projects[p][f] \in Programs

VARIABLES
    request,    \* the parser called, its root and its limit
    project,    \* which of the projects is on the disk
    unreadable, \* folders that cannot be listed
    disk,       \* size and shape of each file, or that it is gone
    edits,
    pc,         \* "start", "walk", "parse"; "returned" or "raised" in the end
    folders,    \* folders the walk has still to list
    entries,    \* entries of the folder listed last, not yet classified
    met,        \* every entry the walk was given
    found,      \* discovered source files
    other_file_count,
    skipped_oversized,
    errors,     \* scan and parse errors: what failed, and where
    parsed,     \* what the files parsed so far contain, in order
    handled     \* discovered files the parse loop is past

inputs == <<request, project, unreadable>>
counts == <<other_file_count, skipped_oversized>>
vars == <<inputs, disk, edits, pc, folders, entries, met, found, counts,
          errors, parsed, handled>>

-----------------------------------------------------------------------------

Gone == [size |-> 0, shape |-> "gone"]

\* A file that raises OSError, SyntaxError or UnicodeError is "broken".  One that
\* raises something else is "uncaught": RecursionError or MemoryError when it
\* nests too deeply, LookupError when its coding cookie names a codec that is not
\* of text, ValueError when it holds a NUL (Python 3.11).
Contents == [size : 1..MaxFileSize, shape : {"fine", "broken", "uncaught"}] \cup {Gone}

\* An infinite float is no value of RawLimits: the code's int() raises on it.
MaxFileBytes == IF request.limit \in Nat \ {0} THEN request.limit ELSE MaxFileSize

Language(f) ==
    CASE f.suffix \in {".py", ".pyi"} -> "python"
      [] f.suffix = ".c" -> "c"
      [] OTHER -> "none"

StructurallyParsed(f) == Language(f) = "python"

\* The names both parsers ignore, and some of those only the newer one does.
IgnoredNames ==
    IF request.parser = "project" THEN {"build", ".git", "vendor"} ELSE {"build", ".git"}

\* A project that is a single file shows that file by its bare name.
Displayed(f) == IF request.root = "file" THEN <<f.stem>> ELSE Append(f.folder, f.stem)

\* Mutant: an __init__ file without a package around it is left unnamed.
AlwaysThePackage(path) ==
    IF path[Len(path)] = "__init__" THEN SubSeq(path, 1, Len(path) - 1) ELSE path

\* The __init__ file of a package bears the name of the package.
ModuleName(path) ==
    IF path[Len(path)] = "__init__" /\ Len(path) > 1
    THEN SubSeq(path, 1, Len(path) - 1)
    ELSE path

Program == Projects[project]

\* ast.walk meets the import statements by their depth in the tree, whatever
\* their order in the text.
ImportEntries(program) == program.imports \o program.inner

FileParse(f) ==
    [file |-> f, module |-> ModuleName(Displayed(f)),
     defs |-> Program[f].defs, imports |-> ImportEntries(Program[f])]

\* The files of one parser are visited in the order of their displayed paths.
\* PythonSourceParser keeps the order of its walk, a folder's files before the
\* folders in it; both agree on the files that share a module name, m.py and
\* m/__init__.py, which is all the order decides.
FirstOf(fs) == Order[CHOOSE i \in DOMAIN Order :
                        Order[i] \in fs /\ \A j \in 1..(i - 1) : Order[j] \notin fs]

\* A module as an import statement names it, with the dots before it.
Dependency(e) ==
    [level |-> e.level, name |-> IF e.is_from /\ e.module = <<>> THEN <<e.name>> ELSE e.module]

Dependencies(file) == {Dependency(file.imports[i]) : i \in DOMAIN file.imports}

\* What analyze() returns, of the state it returns in.
Result ==
    LET files == {parsed[i] : i \in DOMAIN parsed}
    IN  [scanned |-> [error |-> "missing"] \notin errors, files |-> found,
         languages |-> {Language(f) : f \in found},
         symbols |-> Symbols(files),
         dependencies |-> UNION {Dependencies(f) : f \in files},
         call_graph |-> ResolveCallGraph(parsed),
         parsed_file_count |-> Len(parsed),
         error_count |-> Cardinality(errors),
         other_file_count |-> other_file_count,
         skipped_oversized |-> skipped_oversized]

-----------------------------------------------------------------------------

\* Only a request whose root is a file has one that matters, and only the
\* newer parser reads the limit.
Requests ==
    {r \in [parser : Parsers, root : {"missing", "folder", "file"}, file : Files,
            limit : RawLimits] :
        /\ r.root # "file" => r.file = Order[1]
        /\ r.parser = "python" => r.limit = 0}

Init ==
    /\ request \in Requests
    /\ project \in DOMAIN Projects
    /\ request.root = "file" => request.file \in DOMAIN Program
    /\ unreadable \in Unreadable /\ (request.root # "folder" => unreadable = {})
    /\ disk = [f \in Files |->
                IF f \in DOMAIN Program THEN [size |-> 1, shape |-> "fine"] ELSE Gone]
    /\ edits = 0
    /\ pc = "start"
    /\ folders = {} /\ entries = {} /\ met = {} /\ found = {}
    /\ other_file_count = 0 /\ skipped_oversized = 0
    /\ errors = {}
    /\ parsed = <<>> /\ handled = {}

\* Somebody else writes, breaks or deletes a file of the project.
Edit ==
    /\ edits < MaxEdits
    /\ pc \in {"start", "walk", "parse"}
    /\ \E f \in DOMAIN Program : \E c \in Contents \ {disk[f]} :
        disk' = [disk EXCEPT ![f] = c]
    /\ edits' = edits + 1
    /\ UNCHANGED <<inputs, pc, folders, entries, met, found, counts, errors,
                   parsed, handled>>

RootExists ==
    \/ request.root = "folder"
    \/ request.root = "file" /\ disk[request.file] # Gone

\* analyze() up to the walk: a single file is classified without one.
Start ==
    /\ pc = "start" /\ RootExists
    /\ pc' = "walk"
    /\ IF request.root = "file"
       THEN folders' = {} /\ entries' = {request.file}
       ELSE folders' = {<<>>} /\ entries' = {}
    /\ met' = entries'
    /\ UNCHANGED <<inputs, disk, edits, found, counts, errors, parsed, handled>>

\* A root that does not exist is answered by an empty result with one error.
StartMissing ==
    /\ pc = "start" /\ ~RootExists
    /\ pc' = "returned"
    /\ errors' = {[error |-> "missing"]}
    /\ UNCHANGED <<inputs, disk, edits, folders, entries, met, found, counts,
                   parsed, handled>>

\* os.walk lists one folder: its files are accepted one by one before the
\* folders below it are listed.  A folder that cannot be listed is an error.
ListFolder(d) ==
    LET listed == {f \in Files : f.folder = d /\ disk[f] # Gone}
        below == {c \in Folders : Len(c) = Len(d) + 1 /\ SubSeq(c, 1, Len(d)) = d}
    IN  /\ pc = "walk" /\ entries = {} /\ d \in folders
        /\ IF d \in unreadable
           THEN /\ errors' = errors \cup {[error |-> "walk", folder |-> d]}
                /\ folders' = folders \ {d}
                /\ UNCHANGED <<entries, met>>
           ELSE /\ entries' = listed
                /\ met' = met \cup listed
                /\ folders' = (folders \ {d})
                                \cup {c \in below : c[Len(c)] \notin IgnoredNames}
                /\ UNCHANGED errors
        /\ UNCHANGED <<inputs, disk, edits, pc, found, counts, parsed, handled>>

\* Mutant: a file that is too large is counted and accepted all the same.
CountedAndAccepted(f) ==
    \/ /\ disk[f] = Gone
       /\ errors' = errors \cup {[error |-> "stat", file |-> f]}
       /\ UNCHANGED <<found, counts>>
    \/ /\ disk[f] # Gone
       /\ skipped_oversized' = IF disk[f].size > MaxFileBytes
                               THEN skipped_oversized + 1 ELSE skipped_oversized
       /\ IF Language(f) = "none"
          THEN other_file_count' = other_file_count + 1 /\ UNCHANGED found
          ELSE found' = found \cup {f} /\ UNCHANGED other_file_count
       /\ UNCHANGED errors

\* accept() of SourceProjectParser: the size decides before the language.
Classify(f) ==
    \/ /\ disk[f] = Gone
       /\ errors' = errors \cup {[error |-> "stat", file |-> f]}
       /\ UNCHANGED <<found, counts>>
    \/ /\ disk[f] # Gone /\ disk[f].size > MaxFileBytes
       /\ skipped_oversized' = skipped_oversized + 1
       /\ UNCHANGED <<found, other_file_count, errors>>
    \/ /\ disk[f] # Gone /\ disk[f].size <= MaxFileBytes
       /\ IF Language(f) = "none"
          THEN other_file_count' = other_file_count + 1 /\ UNCHANGED found
          ELSE found' = found \cup {f} /\ UNCHANGED other_file_count
       /\ UNCHANGED <<skipped_oversized, errors>>

\* _scan_python_files looks at the suffix of the name only.
TakePython(f) ==
    /\ found' = IF f.suffix = ".py" THEN found \cup {f} ELSE found
    /\ UNCHANGED <<counts, errors>>

Accept ==
    /\ pc = "walk" /\ entries # {}
    /\ LET f == FirstOf(entries)
       IN  /\ IF request.parser = "project" THEN Classify(f) ELSE TakePython(f)
           /\ entries' = entries \ {f}
    /\ UNCHANGED <<inputs, disk, edits, pc, folders, met, parsed, handled>>

Walked ==
    /\ pc = "walk" /\ entries = {} /\ folders = {}
    /\ pc' = "parse"
    /\ UNCHANGED <<inputs, disk, edits, folders, entries, met, found, counts,
                   errors, parsed, handled>>

\* Mutant: a file that cannot be read or parsed ends the scan.
FailureEscapes(f) ==
    /\ disk[f].shape \in {"gone", "broken"}
    /\ pc' = "raised"
    /\ UNCHANGED <<errors, parsed>>

\* What parse_python_file makes of a file: it reads the file now, whatever
\* it was when it was classified.
ParseFails(f) ==
    /\ disk[f].shape \in {"gone", "broken"}
    /\ errors' = errors \cup {[error |-> "parse", file |-> f]}
    /\ UNCHANGED <<pc, parsed>>

\* The except clause does not name the exception, or it comes from the visitor
\* after it.
ParseRaises(f) ==
    /\ disk[f].shape = "uncaught"
    /\ pc' = "raised"
    /\ UNCHANGED <<errors, parsed>>

ParseSucceeds(f) ==
    /\ disk[f].shape = "fine"
    /\ parsed' = Append(parsed, FileParse(f))
    /\ UNCHANGED <<pc, errors>>

Parse ==
    /\ pc = "parse" /\ found # handled
    /\ LET f == FirstOf(found \ handled)
       IN  /\ IF StructurallyParsed(f)
              THEN ParseFails(f) \/ ParseRaises(f) \/ ParseSucceeds(f)
              ELSE UNCHANGED <<pc, errors, parsed>>
           /\ handled' = handled \cup {f}
    /\ UNCHANGED <<inputs, disk, edits, folders, entries, met, found, counts>>

Return ==
    /\ pc = "parse" /\ found = handled
    /\ pc' = "returned"
    /\ UNCHANGED <<inputs, disk, edits, folders, entries, met, found, counts,
                   errors, parsed, handled>>

Step ==
    \/ Start
    \/ StartMissing
    \/ \E d \in folders : ListFolder(d)
    \/ Accept
    \/ Walked
    \/ Parse
    \/ Return

Next == Edit \/ Step

\* The call runs to its end without waiting for anybody.
Spec == Init /\ [][Next]_vars /\ WF_vars(Step)

-----------------------------------------------------------------------------

FailedAt(stage) == {f \in Files : [error |-> stage, file |-> f] \in errors}

ParsedFiles == {parsed[i] : i \in DOMAIN parsed}

\* The state is well formed: no parsed file is without a module name, for the
\* index could not tell its definitions from those of the others.
TypeOK ==
    /\ request \in Requests /\ project \in DOMAIN Projects
    /\ unreadable \in Unreadable
    /\ disk \in [Files -> Contents]
    /\ edits \in 0..MaxEdits
    /\ pc \in {"start", "walk", "parse", "returned", "raised"}
    /\ folders \subseteq Folders
    /\ entries \subseteq met /\ met \subseteq Files
    /\ handled \subseteq found /\ found \subseteq met
    /\ other_file_count \in Nat /\ skipped_oversized \in Nat
    /\ errors \subseteq [error : {"missing"}] \cup [error : {"walk"}, folder : Folders]
                        \cup [error : {"stat", "parse"}, file : Files]
    /\ \A f \in ParsedFiles : f.file \in handled /\ f.module # Nowhere

\* No walk enters a folder that is ignored or below one that is, or lists one
\* it cannot read.
Hidden(folder) ==
    \/ \E i \in DOMAIN folder : folder[i] \in IgnoredNames
    \/ unreadable \cap (Prefixes(folder) \cup {<<>>}) # {}

Expected(f) == IF request.parser = "project" THEN Language(f) # "none" ELSE f.suffix = ".py"

\* However the disk changes while it is read, every entry the walk was given
\* is classified exactly once, and every discovered file the loop is past is
\* parsed, reported as an error or of a language that is not parsed.  A disk
\* that did not change has all its source files outside hidden folders found.
EntriesAccounted ==
    /\ request.parser = "project" =>
        Cardinality(met) = Cardinality(entries) + Cardinality(found) + other_file_count
                            + skipped_oversized + Cardinality(FailedAt("stat"))
    /\ pc # "raised" =>
        Cardinality(handled) = Len(parsed) + Cardinality(FailedAt("parse"))
                                + Cardinality({f \in handled : ~StructurallyParsed(f)})
    /\ pc = "returned" /\ request.root = "folder" /\ edits = 0 =>
        Result.files = {f \in DOMAIN Program : Expected(f) /\ ~Hidden(f.folder)}

\* What a call in a body may be resolved to, among the symbols of the files: a
\* method of a class around the caller, a definition of the caller's module, or
\* what an import statement of that module binds.
Denoted(caller, target, files, symbols) ==
    LET around == {s.qualified : s \in {t \in symbols : t.kind = "class"}} \cap Prefixes(caller)
        mine == {f \in files : f.module \in Prefixes(caller)}
        imported == UNION {{BoundTo(f.module, f.imports[i]) : i \in
                            {j \in DOMAIN f.imports : Binds(f.module, f.imports[j])
                                /\ BoundName(f.imports[j]) = Head(target)}} : f \in mine}
    IN  {s.qualified : s \in symbols} \cap
            ((IF Head(target) \in {"self", "cls"}
             THEN {class \o Tail(target) : class \in around \ {caller}} ELSE {})
                \cup (IF Len(target) = 1 THEN {f.module \o target : f \in mine} ELSE {})
                \cup {base \o Tail(target) : base \in imported})

\* Resolution never invents an edge and never loses one: the callers of the
\* result are the callables of the files that were parsed, every edge is a
\* call in the caller's body or leads to a definition of a parsed file that
\* the call can denote, and every call in the body is still there as one.
EdgesGrounded ==
    pc = "returned" =>
        LET files == ParsedFiles
            symbols == Symbols(files)
            raw == CallGraph(files)
            call_graph == Result.call_graph
        IN  /\ DOMAIN call_graph = Callers(files)
            /\ \A c \in DOMAIN raw :
                LET edges == call_graph[c]
                    readings == {{k} \cup Denoted(c, k, files, symbols) : k \in raw[c]}
                IN  /\ edges \subseteq UNION readings
                    /\ \A reading \in readings : reading \cap edges # {}

\* A call that has found its root ends, with a result whatever became of its
\* files, unless it met one whose exception parse_python_file does not name.
\* (The docstring of parse_python_file, that a single broken file never aborts
\* a whole scan, makes no such exception.)
ScanReturns ==
    pc \in {"walk", "parse"} ~>
        \/ pc = "returned"
        \/ pc = "raised" /\ \E f \in found : disk[f].shape = "uncaught"
=============================================================================
