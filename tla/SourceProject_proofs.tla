------------------------ MODULE SourceProject_proofs ------------------------
(***************************************************************************)
(* For any files, any programs in them and any changes to the disk during  *)
(* the call: the types of SourceProject, that no entry of the walk and no  *)
(* discovered file is lost or counted twice, that a disk which does not    *)
(* change has every source file found, and that the call graph has no edge *)
(* the parsed files do not justify.                                        *)
(*                                                                         *)
(* The lemmas come in the order of the argument: numbers and positions,    *)
(* the resolver (PythonResolver), files and the folders around them, and   *)
(* one lemma per action for the invariant IInv.                            *)
(***************************************************************************)
EXTENDS SourceProject, FiniteSetTheorems, SequenceTheorems,
        WellFoundedInduction, TLAPS

\* A set of numbers that has an element has a least one.
LEMMA Least ==
    ASSUME NEW S \in SUBSET Nat, S # {}
    PROVE  \E m \in S : \A k \in S : m <= k
<1> DEFINE T == {0..k : k \in S}
<1>1. \A x \in T : x \in FiniteSubsetsOf(Nat)
  <2> TAKE x \in T
  <2>1. PICK k \in S : x = 0..k
    OBVIOUS
  <2>2. IsFiniteSet(0..k)
    BY FS_Interval
  <2>3. 0..k \subseteq Nat
    OBVIOUS
  <2> QED BY <2>1, <2>2, <2>3 DEF FiniteSubsetsOf
<1>0. T # {}
  <2>1. PICK k \in S : TRUE
    OBVIOUS
  <2> QED BY <2>1
<1>2. PICK x \in T : \A y \in T : ~ (<<y, x>> \in StrictSubsetOrdering(Nat))
  <2> HIDE DEF T
  <2> QED BY <1>0, <1>1, FS_StrictSubsetOrderingWellFounded, WFMin
<1>3. PICK m \in S : x = 0..m
  OBVIOUS
<1>4. ASSUME NEW k \in S, k < m PROVE FALSE
  <2>1. 0..k \subseteq Nat /\ 0..m \subseteq Nat /\ 0..k \subseteq 0..m /\ m \notin 0..k
    BY <1>4
  <2>2. 0..k # 0..m
    BY <2>1
  <2>3. <<0..k, x>> \in StrictSubsetOrdering(Nat)
    BY <2>1, <2>2, <1>3 DEF StrictSubsetOrdering
  <2> QED BY <2>3, <1>2
<1>5. QED BY <1>4

\* A set of numbers with a bound has a greatest one.
LEMMA Greatest ==
    ASSUME NEW n \in Nat, NEW S \in SUBSET (0..n), S # {}
    PROVE  \E m \in S : \A k \in S : k <= m
<1> DEFINE T == {n - k : k \in S}
<1>1. \A t \in T : t \in Nat
  OBVIOUS
<1>0. T # {}
  <2>1. PICK k \in S : TRUE
    OBVIOUS
  <2> QED BY <2>1
<1>2. PICK m \in T : \A k \in T : m <= k
  <2> HIDE DEF T
  <2> QED BY <1>0, <1>1, Least
<1>3. PICK g \in S : m = n - g
  OBVIOUS
<1>4. ASSUME NEW k \in S PROVE k <= g
  <2>1. n - g <= n - k
    BY <1>2, <1>3
  <2>2. g \in Nat /\ k \in Nat
    OBVIOUS
  <2> HIDE DEF T
  <2> QED BY <2>1, <2>2
<1>5. QED BY <1>4

-----------------------------------------------------------------------------

\* A prefix of a name is a name no longer than it.
LEMMA PrefixesAreNames ==
    ASSUME NEW name \in Seq(STRING), NEW p \in Prefixes(name)
    PROVE  p \in Names /\ Len(p) \in 1..Len(name) /\ p = SubSeq(name, 1, Len(p))
BY DEF Prefixes, Names, Nowhere

\* Among some prefixes of a name there is a longest one.
LEMMA LongestIsOne ==
    ASSUME NEW name \in Seq(STRING), NEW those \in SUBSET Prefixes(name), those # {}
    PROVE  Longest(those) \in those
<1> DEFINE lengths == {Len(p) : p \in those}
<1>1. lengths \in SUBSET (0..Len(name)) /\ Len(name) \in Nat
  BY PrefixesAreNames
<1>2. lengths # {}
  <2>1. PICK p \in those : TRUE
    OBVIOUS
  <2> QED BY <2>1
<1>3. PICK m \in lengths : \A k \in lengths : k <= m
  <2> HIDE DEF lengths
  <2> QED BY <1>1, <1>2, Greatest
<1>4. PICK p \in those : m = Len(p)
  OBVIOUS
<1>5. \A o \in those : Len(o) <= Len(p)
  BY <1>3, <1>4
<1>6. QED BY <1>5 DEF Longest

\* The module and the class around a caller are among those of the index.
LEMMA EnclosingIsFound ==
    ASSUME NEW name \in Seq(STRING), NEW names
    PROVE  /\ ModulePrefix(name, names) = Nowhere
                \/ ModulePrefix(name, names) \in Prefixes(name) \cap names
           /\ EnclosingClass(name, names) = Nowhere
                \/ EnclosingClass(name, names) \in (Prefixes(name) \ {name}) \cap names
<1>1. Prefixes(name) \cap names # {} =>
        Longest(Prefixes(name) \cap names) \in Prefixes(name) \cap names
  BY LongestIsOne
<1>2. (Prefixes(name) \ {name}) \cap names # {} =>
        Longest((Prefixes(name) \ {name}) \cap names) \in (Prefixes(name) \ {name}) \cap names
  BY LongestIsOne
<1>3. QED BY <1>1, <1>2 DEF ModulePrefix, EnclosingClass

\* Of some positions in a sequence Max is one.
LEMMA LastPosition ==
    ASSUME NEW E, NEW seq \in Seq(E), NEW S \in SUBSET DOMAIN seq, S # {}
    PROVE  Max(S) \in S
<1>1. S \in SUBSET (0..Len(seq)) /\ Len(seq) \in Nat
  OBVIOUS
<1>2. PICK m \in S : \A k \in S : k <= m
  BY <1>1, Greatest
<1>3. \A k \in S : m >= k
  BY <1>1, <1>2
<1>4. QED BY <1>3 DEF Max

\* What an entry binds is a name.
LEMMA BoundIsName ==
    ASSUME NEW module \in Seq(STRING), NEW e \in Imports
    PROVE  BoundTo(module, e) \in Seq(STRING)
<1>1. /\ e.level \in Nat /\ e.module \in Seq(STRING)
      /\ e.name \in STRING
  BY DEF Imports
<1>2. RelativeBase(module, e.level) \in Seq(STRING)
  <2>1. Len(module) > e.level => Len(module) - e.level \in 0..Len(module)
    BY <1>1
  <2>2. Nowhere \in Seq(STRING)
    <3> <<>> \in Seq(STRING)
      OBVIOUS
    <3> QED BY DEF Nowhere
  <2>3. Len(module) > e.level =>
            SubSeq(module, 1, Len(module) - e.level) \in Seq(STRING)
    BY <2>1
  <2>4. CASE Len(module) <= e.level
    BY <2>2, <2>4 DEF RelativeBase
  <2>5. CASE ~(Len(module) <= e.level)
    <3>1. Len(module) > e.level
      BY <1>1, <2>5
    <3> QED BY <2>3, <2>5, <3>1 DEF RelativeBase
  <2> QED BY <2>4, <2>5
<1>3. ImportBase(module, e) \in Seq(STRING)
  <2> DEFINE base == RelativeBase(module, e.level)
  <2>1. base \o e.module \in Seq(STRING) /\ Nowhere \in Seq(STRING)
    BY <1>1, <1>2 DEF Nowhere
  <2> QED BY <1>1, <2>1 DEF ImportBase
<1>4. Append(ImportBase(module, e), e.name) \in Seq(STRING)
  BY <1>1, <1>3
<1>5. QED BY <1>1, <1>4 DEF BoundTo

\* A binding is made by an import statement of the module.
LEMMA BindingsAreImported ==
    ASSUME NEW module, NEW imports \in Seq(Imports),
           NEW name \in DOMAIN Bindings(module, imports)
    PROVE  \E j \in DOMAIN imports :
                /\ Binds(module, imports[j]) /\ BoundName(imports[j]) = name
                /\ Bindings(module, imports)[name] = BoundTo(module, imports[j])
<1> DEFINE S == {j \in DOMAIN imports : Binds(module, imports[j])
                                            /\ BoundName(imports[j]) = name}
<1>1. S # {}
  BY DEF Bindings
<1>2. S \in SUBSET DOMAIN imports
  OBVIOUS
<1>3. Max(S) \in S
  <2> HIDE DEF S
  <2> QED BY <1>1, <1>2, LastPosition
<1>4. Bindings(module, imports)[name] = BoundTo(module, imports[Max(S)])
  BY DEF Bindings
<1>5. QED BY <1>3, <1>4

-----------------------------------------------------------------------------

\* What the parse of a file hands to the resolver.
Parses == [file : Files, module : Names, defs : SUBSET Definitions, imports : Seq(Imports)]

FilesOf(ps) == {ps[i] : i \in DOMAIN ps}

\* The bindings a caller's calls are resolved with are import statements of a
\* parsed file whose module the caller is in.
LEMMA BoundAreOfItsModule ==
    ASSUME NEW ps \in Seq(Parses), NEW c \in Names,
           NEW files, files = FilesOf(ps),
           NEW name \in DOMAIN BoundFor(c, ModuleIndex(files), BindingsByModule(ps))
    PROVE  \E f \in files : \E j \in DOMAIN f.imports :
                /\ f.module \in Prefixes(c)
                /\ Binds(f.module, f.imports[j]) /\ BoundName(f.imports[j]) = name
                /\ BoundFor(c, ModuleIndex(files), BindingsByModule(ps))[name]
                    = BoundTo(f.module, f.imports[j])
                /\ BoundTo(f.module, f.imports[j]) \in Seq(STRING)
<1> DEFINE byModule == BindingsByModule(ps)
           m == ModulePrefix(c, ModuleIndex(files).modules)
           S == {i \in DOMAIN ps : ps[i].module = m}
           last == ps[Max(S)]
<1>1. m \in DOMAIN byModule /\ BoundFor(c, ModuleIndex(files), byModule) = byModule[m]
  BY DEF BoundFor, NoBindings
<1>2. m \in {ps[i].module : i \in DOMAIN ps}
  BY <1>1 DEF BindingsByModule
<1>3. S # {} /\ S \in SUBSET DOMAIN ps
  BY <1>2
<1>4. Max(S) \in S
  <2> HIDE DEF S
  <2> QED BY <1>3, LastPosition
<1>5. last \in files /\ last \in Parses /\ last.module = m
  <2>1. Max(S) \in DOMAIN ps /\ ps[Max(S)].module = m
    BY <1>4
  <2> HIDE DEF S, m
  <2> QED BY <2>1 DEF FilesOf
<1>6. byModule[m] = Bindings(m, last.imports)
  BY <1>2 DEF BindingsByModule
<1>7. m \in Names /\ last.imports \in Seq(Imports)
  BY <1>5 DEF Parses
<1>8. m \in Prefixes(c)
  <2>1. c \in Seq(STRING) /\ m # Nowhere
    BY <1>7 DEF Names
  <2> QED BY <2>1, EnclosingIsFound
<1>9. name \in DOMAIN Bindings(m, last.imports)
  BY <1>1, <1>6
<1>10. PICK j \in DOMAIN last.imports :
            /\ Binds(m, last.imports[j]) /\ BoundName(last.imports[j]) = name
            /\ Bindings(m, last.imports)[name] = BoundTo(m, last.imports[j])
  <2> HIDE DEF m, last
  <2> QED BY <1>7, <1>9, BindingsAreImported
<1>11. BoundTo(m, last.imports[j]) \in Seq(STRING)
  <2> HIDE DEF m, last
  <2>1. last.imports[j] \in Imports
    BY <1>7
  <2> QED BY <1>7, <2>1, BoundIsName DEF Names
<1>12. QED
  <2> HIDE DEF m, last, byModule
  <2> QED BY <1>1, <1>5, <1>6, <1>8, <1>10, <1>11 DEF byModule

\* A target is left as it is or resolved to what it denotes.
LEMMA ReadingIsDenoted ==
    ASSUME NEW ps \in Seq(Parses), NEW c \in Names, NEW t \in Names,
           NEW files, files = FilesOf(ps),
           NEW bound, bound = BoundFor(c, ModuleIndex(files), BindingsByModule(ps))
    PROVE  ResolveToken(t, c, ModuleIndex(files), bound)
                \in {t} \cup Denoted(c, t, files, Symbols(files))
<1> DEFINE index == ModuleIndex(files)
           around == {s.qualified : s \in {x \in Symbols(files) : x.kind = "class"}}
                        \cap Prefixes(c)
           mine == {f \in files : f.module \in Prefixes(c)}
           imported == UNION {{BoundTo(f.module, f.imports[i]) : i \in
                            {j \in DOMAIN f.imports : Binds(f.module, f.imports[j])
                                /\ BoundName(f.imports[j]) = Head(t)}} : f \in mine}
           byItself == IF Head(t) \in {"self", "cls"}
                       THEN {class \o Tail(t) : class \in around \ {c}} ELSE {}
           byName == IF Len(t) = 1 THEN {f.module \o t : f \in mine} ELSE {}
           byImport == {base \o Tail(t) : base \in imported}
<1>1. /\ Denoted(c, t, files, Symbols(files))
            = index.defined \cap (byItself \cup byName \cup byImport)
      /\ index.classes \cap Prefixes(c) = around
      /\ index.modules = {f.module : f \in files}
  BY DEF Denoted, ModuleIndex
<1>2. c \in Seq(STRING) /\ t \in Seq(STRING) /\ t # <<>>
  BY DEF Names, Nowhere
<1>3. ASSUME Head(t) \in DOMAIN bound
      PROVE  /\ bound[Head(t)] \in Seq(STRING)
             /\ bound[Head(t)] \o Tail(t) \in byImport
  <2>1. PICK f \in files : \E j \in DOMAIN f.imports :
                /\ f.module \in Prefixes(c)
                /\ Binds(f.module, f.imports[j]) /\ BoundName(f.imports[j]) = Head(t)
                /\ bound[Head(t)] = BoundTo(f.module, f.imports[j])
                /\ BoundTo(f.module, f.imports[j]) \in Seq(STRING)
    <3>1. Head(t) \in DOMAIN BoundFor(c, ModuleIndex(files), BindingsByModule(ps))
      BY <1>3
    <3> HIDE DEF index, around, mine, imported, byItself, byName, byImport
    <3>2. PICK f \in files : \E j \in DOMAIN f.imports :
                /\ f.module \in Prefixes(c)
                /\ Binds(f.module, f.imports[j]) /\ BoundName(f.imports[j]) = Head(t)
                /\ BoundFor(c, ModuleIndex(files), BindingsByModule(ps))[Head(t)]
                    = BoundTo(f.module, f.imports[j])
                /\ BoundTo(f.module, f.imports[j]) \in Seq(STRING)
      BY <3>1, BoundAreOfItsModule
    <3> QED BY <3>2
  <2>2. bound[Head(t)] \in imported
    <3>1. f \in mine
      BY <2>1
    <3>2. PICK j \in DOMAIN f.imports :
                /\ Binds(f.module, f.imports[j]) /\ BoundName(f.imports[j]) = Head(t)
                /\ bound[Head(t)] = BoundTo(f.module, f.imports[j])
      BY <2>1
    <3> DEFINE of(g) == {BoundTo(g.module, g.imports[i]) : i \in
                            {k \in DOMAIN g.imports : Binds(g.module, g.imports[k])
                                /\ BoundName(g.imports[k]) = Head(t)}}
    <3>3. bound[Head(t)] \in of(f)
      BY <3>2
    <3>4. imported = UNION {of(g) : g \in mine}
      OBVIOUS
    <3> HIDE DEF of, mine
    <3> QED BY <3>1, <3>3, <3>4
  <2> HIDE DEF imported
  <2> QED BY <2>1, <2>2
<1>4. CASE t \in index.defined
  BY <1>4 DEF ResolveToken
<1>5. CASE t \notin index.defined /\ Len(t) > 1 /\ Head(t) \in {"self", "cls"}
  <2> DEFINE class == EnclosingClass(c, index.classes)
  <2>1. class = Nowhere \/ class \in around \ {c}
    <3>1. \/ class = Nowhere
          \/ class \in (Prefixes(c) \ {c}) \cap index.classes
      <4> HIDE DEF index
      <4> QED BY <1>2, EnclosingIsFound
    <3> HIDE DEF class, around, index
    <3> QED BY <1>1, <3>1
  <2>2. class # Nowhere => class \o Tail(t) \in byItself
    <3> HIDE DEF class, around
    <3> QED BY <1>5, <2>1
  <2> HIDE DEF class, byItself, byName, byImport, index
  <2> QED BY <1>1, <1>5, <2>2 DEF ResolveToken, ResolveSelf, IfDefined, class, index
<1>6. CASE t \notin index.defined /\ Len(t) = 1
  <2> DEFINE module == ModulePrefix(c, index.modules)
  <2>1. module # Nowhere => \E f \in mine : f.module = module
    <3>1. module = Nowhere \/ module \in Prefixes(c) \cap index.modules
      <4> HIDE DEF index
      <4> QED BY <1>2, EnclosingIsFound
    <3> HIDE DEF module, index
    <3> QED BY <1>1, <3>1
  <2>2. module # Nowhere => module \o t \in byName
    <3> HIDE DEF module, mine
    <3> QED BY <1>6, <2>1
  <2>3. Head(t) \in DOMAIN bound => bound[Head(t)] \in byImport
    <3> SUFFICES ASSUME Head(t) \in DOMAIN bound PROVE bound[Head(t)] \in byImport
      OBVIOUS
    <3> DEFINE base == bound[Head(t)]
    <3>1. Tail(t) = <<>>
      <4>1. Len(Tail(t)) = 0 /\ Tail(t) \in Seq(STRING)
        BY <1>2, <1>6
      <4> QED BY <4>1, EmptySeq
    <3>2. base \in Seq(STRING) /\ base \o Tail(t) \in byImport
      BY <1>3
    <3> HIDE DEF byImport, base
    <3>3. base \o <<>> = base
      BY <3>2
    <3>4. base \in byImport
      BY <3>1, <3>2, <3>3
    <3> QED BY <3>4 DEF base
  <2> HIDE DEF module, byItself, byName, byImport, index
  <2> QED BY <1>1, <1>6, <2>2, <2>3
            DEF ResolveToken, ResolveBare, IsModuleLocal, IfDefined, module, index
<1>7. CASE t \notin index.defined /\ Len(t) # 1
                /\ ~(Len(t) > 1 /\ Head(t) \in {"self", "cls"})
  <2> HIDE DEF byItself, byName, byImport, index
  <2> QED BY <1>1, <1>3, <1>7 DEF ResolveToken, ResolveDotted, IfDefined, index
<1>8. QED
  <2>1. Len(t) \in Nat
    BY <1>2
  <2> HIDE DEF byItself, byName, byImport, index
  <2> QED BY <1>4, <1>5, <1>6, <1>7, <2>1

\* A caller has a name, and so has what it calls.
LEMMA CallsAreNames ==
    ASSUME NEW ps \in Seq(Parses), NEW files, files = FilesOf(ps), NEW c \in Callers(files)
    PROVE  c \in Names /\ CallGraph(files)[c] \in SUBSET Names
<1>1. files \in SUBSET Parses
  BY DEF FilesOf
<1>2. PICK f \in files : \E d \in f.defs : c = f.module \o d.path
  BY DEF Callers, Qualified
<1>3. PICK d \in f.defs : c = f.module \o d.path
  BY <1>2
<1>3a. f.module \in Names /\ d.path \in Names
  BY <1>1 DEF Parses, Definitions
<1>4. c \in Names
  <2> DEFINE m == f.module
             p == d.path
  <2>1. m \in Seq(STRING) /\ p \in Seq(STRING) /\ m # <<>>
    BY <1>3a DEF Names, Nowhere
  <2> HIDE DEF m, p
  <2>2. m \o p \in Seq(STRING) /\ Len(m \o p) = Len(m) + Len(p) /\ Len(m) # 0
    BY <2>1, EmptySeq
  <2>3. m \o p # <<>>
    BY <2>1, <2>2
  <2> QED BY <1>3, <2>2, <2>3 DEF Names, Nowhere, m, p
<1>5. ASSUME NEW t \in CallGraph(files)[c] PROVE t \in Names
  <2>1. PICK g \in files : \E e \in g.defs : t \in e.calls
    BY DEF CallGraph
  <2> QED BY <1>1, <2>1 DEF Parses, Definitions
<1>6. QED BY <1>4, <1>5

\* What the files parsed so far contain makes a call graph that is grounded.
LEMMA Grounded ==
    ASSUME parsed \in Seq(Parses)
    PROVE  EdgesGrounded
<1> DEFINE files == ParsedFiles
           symbols == Symbols(files)
           raw == CallGraph(files)
           index == ModuleIndex(files)
           bound(c) == BoundFor(c, index, BindingsByModule(parsed))
           call_graph == ResolveCallGraph(parsed)
           resolved(t, c) == ResolveToken(t, c, index, bound(c))
<1>1. files = FilesOf(parsed)
  BY DEF ParsedFiles, FilesOf
<1>2. /\ DOMAIN raw = Callers(files) /\ DOMAIN call_graph = Callers(files)
      /\ \A c \in DOMAIN raw : call_graph[c] = {resolved(t, c) : t \in raw[c]}
  BY DEF ResolveCallGraph, CallGraph, ParsedFiles
<1>3. Result.call_graph = call_graph
  BY DEF Result
<1>4. ASSUME NEW c \in DOMAIN raw
      PROVE  LET edges == call_graph[c]
                 readings == {{k} \cup Denoted(c, k, files, symbols) : k \in raw[c]}
             IN  /\ edges \subseteq UNION readings
                 /\ \A reading \in readings : reading \cap edges # {}
  <2> DEFINE reading(t) == {t} \cup Denoted(c, t, files, symbols)
             r(t) == resolved(t, c)
  <2>1. ASSUME NEW t \in raw[c] PROVE r(t) \in reading(t)
    <3>1. c \in Names /\ t \in Names
      BY <1>1, <1>2, CallsAreNames
    <3> QED BY <1>1, <3>1, ReadingIsDenoted
  <2>2. call_graph[c] = {r(t) : t \in raw[c]}
    BY <1>2
  <2> HIDE DEF reading, r, call_graph, raw
  <2>3. /\ call_graph[c] \subseteq UNION {reading(t) : t \in raw[c]}
        /\ \A x \in {reading(t) : t \in raw[c]} : x \cap call_graph[c] # {}
    BY <2>1, <2>2
  <2> QED BY <2>3 DEF reading
<1>5. QED
  <2> HIDE DEF call_graph
  <2> QED BY <1>2, <1>3, <1>4 DEF EdgesGrounded

-----------------------------------------------------------------------------
(* The invariant.                                                          *)

\* A folder is the other one or below it.
Within(folder, above) ==
    Len(above) <= Len(folder) /\ \A i \in 1..Len(above) : above[i] = folder[i]

\* The walk can get to a folder.
Reached(folder) ==
    /\ \A i \in DOMAIN folder : folder[i] \notin IgnoredNames
    /\ \A d \in unreadable : Within(folder, d) => d = folder

\* Nothing that was met lies in a folder still to be listed, and none of
\* these folders lies in another.
WalkIsDisjoint ==
    /\ \A c, d \in folders : Within(c, d) => c = d
    /\ \A f \in met : \A d \in folders : ~Within(f.folder, d)
    /\ request.root # "folder" => folders = {}
    /\ pc = "start" => folders = {} /\ met = {}
    /\ pc \in {"parse", "returned"} => folders = {} /\ entries = {}

\* An entry not yet classified is in none of the classes.
ClassesAreDisjoint ==
    /\ entries \cap found = {}
    /\ FailedAt("stat") \subseteq met \ entries
    /\ FailedAt("parse") \subseteq handled

EntriesCounted ==
    request.parser = "project" =>
        Cardinality(met) = Cardinality(entries) + Cardinality(found) + other_file_count
                            + skipped_oversized + Cardinality(FailedAt("stat"))

Unparsed == {f \in handled : ~StructurallyParsed(f)}

FilesCounted ==
    pc # "raised" =>
        Cardinality(handled) = Len(parsed) + Cardinality(FailedAt("parse"))
                                + Cardinality(Unparsed)

\* Only the files of the project are ever on the disk.
NothingElse ==
    /\ \A f \in Files : f \notin DOMAIN Program => disk[f] = Gone
    /\ met \subseteq DOMAIN Program
    /\ request.root = "file" => request.file \in DOMAIN Program

Untouched ==
    edits = 0 =>
        \A f \in Files :
            disk[f] = IF f \in DOMAIN Program THEN [size |-> 1, shape |-> "fine"] ELSE Gone

\* While nobody changes the disk, the walk has met, or has still before it,
\* every file outside hidden folders, and has kept those expected of it.
WalkIsComplete ==
    edits = 0 /\ request.root = "folder" /\ pc # "start" =>
        /\ found = {f \in met \ entries : Expected(f)}
        /\ \A f \in met : ~Hidden(f.folder)
        /\ \A d \in folders : Reached(d)
        /\ \A f \in DOMAIN Program :
            ~Hidden(f.folder) => f \in met \/ \E d \in folders : Within(f.folder, d)

IInv ==
    /\ TypeOK
    /\ parsed \in Seq(Parses)
    /\ NothingElse
    /\ WalkIsDisjoint
    /\ ClassesAreDisjoint
    /\ EntriesCounted
    /\ FilesCounted
    /\ Untouched
    /\ WalkIsComplete

-----------------------------------------------------------------------------
(* Files, folders and the order of files.                                  *)

LEMMA FilesAreTyped ==
    /\ IsFiniteSet(Files)
    /\ \A f \in Files : f.folder \in Seq(STRING) /\ f.stem \in STRING
    /\ Folders \subseteq Seq(STRING)
    /\ \A f \in Files : {<<>>} \cup Prefixes(f.folder) \subseteq Folders
<1> DEFINE F == [folder : Seq(STRING), stem : STRING, suffix : STRING]
<1>1. Order \in Seq(F)
  BY SourceProjectAssumption
<1>2. IsFiniteSet(Files)
  <2>1. Order \in Surjection(1..Len(Order), Files)
    BY <1>1 DEF Files, Surjection
  <2>2. IsFiniteSet(1..Len(Order))
    BY <1>1, FS_Interval
  <2> QED BY <2>1, <2>2, FS_Surjection
<1>3. \A f \in Files : f \in F
  <2> HIDE DEF F
  <2> QED BY <1>1 DEF Files
<1>4. \A f \in Files : f.folder \in Seq(STRING) /\ f.stem \in STRING
  BY <1>3
<1>5. Folders \subseteq Seq(STRING)
  <2>1. ASSUME NEW f \in Files, NEW p \in Prefixes(f.folder) PROVE p \in Seq(STRING)
    BY <1>4, PrefixesAreNames DEF Names
  <2> QED BY <2>1, EmptySeq DEF Folders
<1>6. \A f \in Files : {<<>>} \cup Prefixes(f.folder) \subseteq Folders
  BY DEF Folders
<1>7. QED BY <1>2, <1>4, <1>5, <1>6

\* The next file is one of those that are left.
LEMMA FirstIsOne ==
    ASSUME NEW fs \in SUBSET Files, fs # {}
    PROVE  FirstOf(fs) \in fs
<1> DEFINE S == {i \in DOMAIN Order : Order[i] \in fs}
<1>1. DOMAIN Order \subseteq Nat /\ Len(Order) \in Nat /\ DOMAIN Order = 1..Len(Order)
  BY SourceProjectAssumption
<1>2. S \in SUBSET Nat /\ S # {}
  <2>1. PICK f \in fs : TRUE
    OBVIOUS
  <2>2. PICK i \in DOMAIN Order : Order[i] = f
    BY DEF Files
  <2> QED BY <1>1, <2>2
<1>3. PICK m \in S : \A k \in S : m <= k
  <2> HIDE DEF S
  <2> QED BY <1>2, Least
<1>4. \A j \in 1..(m - 1) : Order[j] \notin fs
  BY <1>1, <1>3
<1>5. \E i \in DOMAIN Order : Order[i] \in fs /\ \A j \in 1..(i - 1) : Order[j] \notin fs
  BY <1>3, <1>4
<1>6. QED
  <2> HIDE DEF S
  <2> QED BY <1>5 DEF FirstOf

\* What a file is displayed as is not empty, and neither is its module name.
LEMMA ModuleIsNamed ==
    ASSUME NEW f \in Files
    PROVE  ModuleName(Displayed(f)) \in Names
<1> DEFINE path == Displayed(f)
<1>1. f.folder \in Seq(STRING) /\ f.stem \in STRING
  BY FilesAreTyped
<1>2. path \in Seq(STRING) /\ path # <<>> /\ Len(path) \in Nat \ {0}
  <2>1. <<f.stem>> \in Seq(STRING) /\ Len(<<f.stem>>) = 1
    BY <1>1
  <2>2. /\ Append(f.folder, f.stem) \in Seq(STRING)
        /\ Len(Append(f.folder, f.stem)) = Len(f.folder) + 1
    BY <1>1
  <2>3. path \in Seq(STRING) /\ Len(path) \in Nat \ {0}
    <3>1. path = <<f.stem>> \/ path = Append(f.folder, f.stem)
      BY DEF Displayed
    <3>2. Len(f.folder) \in Nat
      BY <1>1
    <3>3. CASE path = <<f.stem>>
      <4> HIDE DEF path
      <4> QED BY <2>1, <3>3
    <3>4. CASE path = Append(f.folder, f.stem)
      <4> DEFINE n == Len(f.folder)
                 deeper == Append(f.folder, f.stem)
      <4>1. Len(deeper) = n + 1 /\ n \in Nat /\ deeper \in Seq(STRING)
        BY <2>2, <3>2
      <4> HIDE DEF n, deeper
      <4>2. Len(deeper) \in Nat \ {0}
        BY <4>1
      <4> QED BY <3>4, <4>1, <4>2 DEF deeper
    <3> QED BY <3>1, <3>3, <3>4
  <2> QED BY <2>3, EmptySeq
<1> HIDE DEF path
<1> DEFINE package == SubSeq(path, 1, Len(path) - 1)
<1>3. Len(path) > 1 => package \in Seq(STRING) /\ Len(package) = Len(path) - 1
  BY <1>2
<1> HIDE DEF package
<1>4. Len(path) > 1 => package # <<>>
  <2>1. Len(path) > 1 => Len(package) # 0
    BY <1>2, <1>3
  <2> QED BY <2>1, EmptySeq
<1>5. QED BY <1>2, <1>3, <1>4 DEF ModuleName, Names, Nowhere, path, package

LEMMA ParseIsTyped ==
    ASSUME project \in DOMAIN Projects, NEW f \in DOMAIN Program
    PROVE  f \in Files /\ FileParse(f) \in Parses
<1>1. f \in Files /\ Program[f] \in Programs
  BY SourceProjectAssumption DEF Program
<1>2. Program[f].defs \in SUBSET Definitions /\ ImportEntries(Program[f]) \in Seq(Imports)
  <2>1. /\ Program[f].defs \in SUBSET Definitions
        /\ Program[f].imports \in Seq(Imports) /\ Program[f].inner \in Seq(Imports)
    BY <1>1 DEF Programs
  <2> DEFINE outer == Program[f].imports
             inner == Program[f].inner
  <2> HIDE DEF outer, inner
  <2>2. outer \in Seq(Imports) /\ inner \in Seq(Imports)
    BY <2>1 DEF outer, inner
  <2>3. outer \o inner \in Seq(Imports)
    BY <2>2, ConcatProperties
  <2> QED BY <2>1, <2>3 DEF ImportEntries, outer, inner
<1>3. QED BY <1>1, <1>2, ModuleIsNamed DEF FileParse, Parses

LEMMA LimitIsPositive == MaxFileBytes \in Nat \ {0}
<1>1. MaxFileSize \in Nat \ {0}
  BY SourceProjectAssumption
<1>2. QED BY <1>1 DEF MaxFileBytes

-----------------------------------------------------------------------------
(* Folders inside folders.                                                 *)

LEMMA WithinIsOrder ==
    ASSUME NEW a \in Seq(STRING), NEW b \in Seq(STRING), NEW c \in Seq(STRING)
    PROVE  /\ Within(a, a) /\ Within(a, <<>>)
           /\ Within(a, b) /\ Within(b, c) => Within(a, c)
           /\ Within(a, b) /\ Len(a) = Len(b) => a = b
           /\ Within(c, a) /\ Within(c, b) /\ Len(b) <= Len(a) => Within(a, b)
<1>1. Len(a) \in Nat /\ Len(b) \in Nat /\ Len(c) \in Nat
  OBVIOUS
<1>2. Within(a, a)
  BY <1>1 DEF Within
<1>3. Within(a, <<>>)
  BY <1>1 DEF Within
<1>4. Within(a, b) /\ Within(b, c) => Within(a, c)
  BY <1>1 DEF Within
<1>5. Within(a, b) /\ Len(a) = Len(b) => a = b
  BY <1>1, SeqEqual DEF Within
<1>6. Within(c, a) /\ Within(c, b) /\ Len(b) <= Len(a) => Within(a, b)
  BY <1>1 DEF Within
<1>7. QED BY <1>2, <1>3, <1>4, <1>5, <1>6

\* The folders around a folder are its prefixes.
LEMMA WithinIsPrefix ==
    ASSUME NEW a \in Seq(STRING), NEW b \in Seq(STRING)
    PROVE  Within(a, b) <=> b \in {<<>>} \cup Prefixes(a)
<1>1. Len(a) \in Nat /\ Len(b) \in Nat
  OBVIOUS
<1>2. ASSUME Within(a, b), b # <<>> PROVE b \in Prefixes(a)
  <2> DEFINE p == SubSeq(a, 1, Len(b))
  <2>1. Len(b) \in 1..Len(a)
    BY <1>1, <1>2, EmptySeq DEF Within
  <2>2. p \in Seq(STRING) /\ Len(p) = Len(b) /\ \A i \in 1..Len(b) : p[i] = a[i]
    BY <2>1
  <2> HIDE DEF p
  <2>3. p = b
    BY <1>2, <2>2, SeqEqual DEF Within
  <2> QED BY <2>1, <2>3 DEF Prefixes, p
<1>3. ASSUME NEW n \in 1..Len(a), b = SubSeq(a, 1, n) PROVE Within(a, b)
  <2>1. Len(b) = n /\ \A i \in 1..n : b[i] = a[i]
    BY <1>1, <1>3
  <2> QED BY <1>1, <2>1 DEF Within
<1>4. Within(a, <<>>)
  BY WithinIsOrder
<1>5. QED BY <1>2, <1>3, <1>4 DEF Prefixes

\* A file is hidden by a folder around it, or the one it is in.
LEMMA HiddenIsWithin ==
    ASSUME NEW folder \in Seq(STRING), unreadable \subseteq Seq(STRING)
    PROVE  Hidden(folder) <=>
            \/ \E i \in DOMAIN folder : folder[i] \in IgnoredNames
            \/ \E d \in unreadable : Within(folder, d)
<1>1. unreadable \cap (Prefixes(folder) \cup {<<>>}) # {}
        <=> \E d \in unreadable : Within(folder, d)
  BY WithinIsPrefix
<1>2. QED BY <1>1 DEF Hidden

\* The folders listed below a folder, of those that are not ignored.
Below(d) == {c \in Folders : Len(c) = Len(d) + 1 /\ SubSeq(c, 1, Len(d)) = d}

Entered(d) == {c \in Below(d) : c[Len(c)] \notin IgnoredNames}

LEMMA BelowIsWithin ==
    ASSUME NEW d \in Seq(STRING), NEW c \in Folders
    PROVE  c \in Below(d) <=> Len(c) = Len(d) + 1 /\ Within(c, d)
<1>1. c \in Seq(STRING) /\ Len(c) \in Nat /\ Len(d) \in Nat
  BY FilesAreTyped
<1>2. ASSUME Len(c) = Len(d) + 1
      PROVE  SubSeq(c, 1, Len(d)) = d <=> Within(c, d)
  <2> DEFINE p == SubSeq(c, 1, Len(d))
  <2>1. p \in Seq(STRING) /\ Len(p) = Len(d) /\ \A i \in 1..Len(d) : p[i] = c[i]
    BY <1>1, <1>2
  <2> HIDE DEF p
  <2>2. p = d <=> \A i \in 1..Len(d) : p[i] = d[i]
    BY <1>1, <2>1, SeqEqual
  <2>3. p = d <=> Within(c, d)
    BY <1>1, <1>2, <2>1, <2>2 DEF Within
  <2> QED BY <2>3 DEF p
<1>3. QED BY <1>2 DEF Below

\* The folders below one are in no other folder that this one is not in.
LEMMA BelowIsDisjoint ==
    ASSUME NEW d \in Seq(STRING), NEW c \in Below(d), NEW e \in Seq(STRING)
    PROVE  /\ Within(c, e) => e = c \/ Within(d, e)
           /\ Within(e, c) => Within(e, d)
           /\ ~Within(d, c)
           /\ e \in Below(d) /\ Within(c, e) => c = e
<1>1. /\ c \in Folders /\ c \in Seq(STRING) /\ Len(c) \in Nat /\ Len(d) \in Nat
      /\ Len(e) \in Nat
  BY FilesAreTyped DEF Below
<1>2. Len(c) = Len(d) + 1 /\ Within(c, d)
  BY <1>1, BelowIsWithin
<1>3. ASSUME Within(c, e) PROVE e = c \/ Within(d, e)
  <2>1. Len(e) <= Len(c)
    BY <1>3 DEF Within
  <2>2. CASE Len(e) = Len(c)
    BY <1>1, <1>3, <2>2, WithinIsOrder
  <2>3. CASE Len(e) # Len(c)
    <3>1. Len(e) <= Len(d)
      BY <1>1, <1>2, <2>1, <2>3
    <3> QED BY <1>1, <1>2, <1>3, <3>1, WithinIsOrder
  <2> QED BY <2>2, <2>3
<1>4. Within(e, c) => Within(e, d)
  BY <1>1, <1>2, WithinIsOrder
<1>5. ~Within(d, c)
  BY <1>1, <1>2 DEF Within
<1>6. ASSUME e \in Below(d), Within(c, e) PROVE c = e
  <2>1. Len(e) = Len(d) + 1
    BY <1>6 DEF Below
  <2> QED BY <1>1, <1>2, <1>6, <2>1, WithinIsOrder
<1>7. QED BY <1>3, <1>4, <1>5, <1>6

-----------------------------------------------------------------------------
(* The steps that do not classify or parse.                                *)

\* An error of one stage changes what failed in that stage and in no other.
LEMMA FailureIsAdded ==
    ASSUME NEW f \in Files, NEW stage,
           errors' = errors \cup {[error |-> stage, file |-> f]}
    PROVE  /\ FailedAt(stage)' = FailedAt(stage) \cup {f}
           /\ \A other : other # stage => FailedAt(other)' = FailedAt(other)
<1>1. \A g, s : [error |-> s, file |-> g] = [error |-> stage, file |-> f]
                    <=> s = stage /\ g = f
  <2> SUFFICES ASSUME NEW g, NEW s,
                      [error |-> s, file |-> g] = [error |-> stage, file |-> f]
               PROVE  s = stage /\ g = f
    OBVIOUS
  <2>1. [error |-> s, file |-> g].error = [error |-> stage, file |-> f].error
    OBVIOUS
  <2>2. [error |-> s, file |-> g].file = [error |-> stage, file |-> f].file
    OBVIOUS
  <2> QED BY <2>1, <2>2
<1>2. QED BY <1>1 DEF FailedAt

\* One that is about no file changes neither.
LEMMA OtherFailureIsAdded ==
    ASSUME NEW e, errors' = errors \cup {e}, e.error \notin {"stat", "parse"}
    PROVE  FailedAt("stat")' = FailedAt("stat") /\ FailedAt("parse")' = FailedAt("parse")
<1>1. \A g : [error |-> "stat", file |-> g] # e /\ [error |-> "parse", file |-> g] # e
  <2> SUFFICES ASSUME NEW g, NEW s \in {"stat", "parse"}, [error |-> s, file |-> g] = e
               PROVE  FALSE
    OBVIOUS
  <2>1. [error |-> s, file |-> g].error = s
    OBVIOUS
  <2> QED BY <2>1
<1>2. QED BY <1>1 DEF FailedAt

LEMMA InitKeeps == Init => IInv
<1> SUFFICES ASSUME Init PROVE IInv
  OBVIOUS
<1> USE DEF Init
<1>1. TypeOK
  <2>1. disk \in [Files -> Contents]
    BY SourceProjectAssumption DEF Contents, Gone
  <2>2. edits \in 0..MaxEdits
    BY SourceProjectAssumption
  <2>3. ParsedFiles = {}
    BY DEF ParsedFiles
  <2> QED BY <2>1, <2>2, <2>3 DEF TypeOK
<1>2. parsed \in Seq(Parses)
  BY EmptySeq
<1>3. NothingElse /\ Untouched
  BY DEF NothingElse, Untouched
<1>4. WalkIsDisjoint /\ WalkIsComplete
  BY DEF WalkIsDisjoint, WalkIsComplete
<1>5. FailedAt("stat") = {} /\ FailedAt("parse") = {} /\ Unparsed = {}
  BY DEF FailedAt, Unparsed
<1>6. ClassesAreDisjoint
  BY <1>5 DEF ClassesAreDisjoint
<1>7. EntriesCounted /\ FilesCounted
  <2>1. Len(parsed) = 0 /\ other_file_count = 0 /\ skipped_oversized = 0
    BY EmptySeq
  <2>2. /\ Cardinality(met) = 0 /\ Cardinality(entries) = 0 /\ Cardinality(found) = 0
        /\ Cardinality(handled) = 0 /\ Cardinality(Unparsed) = 0
        /\ Cardinality(FailedAt("stat")) = 0 /\ Cardinality(FailedAt("parse")) = 0
    BY <1>5, FS_EmptySet
  <2> HIDE DEF Init
  <2> QED BY <2>1, <2>2 DEF EntriesCounted, FilesCounted
<1>8. QED BY <1>1, <1>2, <1>3, <1>4, <1>6, <1>7 DEF IInv

\* Steps that leave what was found, failed and parsed as it is.
LEMMA CountsStay ==
    ASSUME ClassesAreDisjoint, EntriesCounted, FilesCounted,
           UNCHANGED <<request, met, entries, found, counts, handled, parsed>>,
           pc # "raised" \/ pc' = pc,
           FailedAt("stat")' = FailedAt("stat"), FailedAt("parse")' = FailedAt("parse")
    PROVE  ClassesAreDisjoint' /\ EntriesCounted' /\ FilesCounted'
<1>1. Unparsed' = Unparsed
  BY DEF Unparsed
<1>2. QED
  BY <1>1 DEF ClassesAreDisjoint, EntriesCounted, FilesCounted, counts

LEMMA EditKeeps == ASSUME IInv, Edit PROVE IInv'
<1> USE DEF Edit, IInv, inputs, counts
<1>1. PICK f \in DOMAIN Program, c \in Contents : disk' = [disk EXCEPT ![f] = c]
  OBVIOUS
<1>2. TypeOK'
  <2>1. disk' \in [Files -> Contents]
    BY <1>1 DEF TypeOK
  <2>2. edits' \in 0..MaxEdits
    BY SourceProjectAssumption DEF TypeOK
  <2>3. request' \in Requests' /\ ParsedFiles' = ParsedFiles
    BY DEF TypeOK, Requests, ParsedFiles
  <2> QED BY <2>1, <2>2, <2>3 DEF TypeOK
<1>3. NothingElse'
  <2>1. \A g \in Files : g \notin DOMAIN Program => disk'[g] = disk[g]
    BY <1>1 DEF TypeOK
  <2> QED BY <2>1 DEF NothingElse, Program
<1>4. WalkIsDisjoint'
  BY DEF WalkIsDisjoint
<1>5. FailedAt("stat")' = FailedAt("stat") /\ FailedAt("parse")' = FailedAt("parse")
  BY DEF FailedAt
<1>6. ClassesAreDisjoint' /\ EntriesCounted' /\ FilesCounted'
  BY <1>5, CountsStay
<1>7. edits' # 0
  BY DEF TypeOK
<1>8. Untouched' /\ WalkIsComplete'
  BY <1>7 DEF Untouched, WalkIsComplete
<1>9. QED BY <1>2, <1>3, <1>4, <1>6, <1>8

LEMMA StartKeeps == ASSUME IInv, Start PROVE IInv'
<1> USE DEF Start, IInv, inputs, counts
<1>1. entries = {} /\ met = {} /\ found = {} /\ folders = {}
  BY DEF WalkIsDisjoint, TypeOK
<1>2. request.root \in {"folder", "file"} /\ request.file \in Files
  BY DEF RootExists, TypeOK, Requests
<1>3. met' = entries' /\ entries' \subseteq {request.file} /\ folders' \subseteq {<<>>}
  OBVIOUS
<1>4. ParsedFiles' = ParsedFiles /\ Program' = Program
  BY DEF ParsedFiles, Program
<1>5. TypeOK'
  <2>1. request' \in Requests' /\ <<>> \in Folders
    BY DEF TypeOK, Requests, Folders
  <2> QED BY <1>1, <1>2, <1>3, <1>4, <2>1 DEF TypeOK
<1>6. NothingElse'
  BY <1>3, <1>4 DEF NothingElse
<1>7. WalkIsDisjoint'
  <2>1. \/ request'.root = "file" /\ folders' = {}
        \/ request'.root = "folder" /\ folders' = {<<>>} /\ met' = {}
    BY <1>2
  <2>2. pc' = "walk"
    OBVIOUS
  <2> HIDE DEF Start, IInv
  <2> QED BY <2>1, <2>2 DEF WalkIsDisjoint
<1>8. /\ FailedAt("stat") = {} /\ FailedAt("stat")' = FailedAt("stat")
      /\ FailedAt("parse")' = FailedAt("parse") /\ Unparsed' = Unparsed
  <2>1. FailedAt("stat") = {}
    BY <1>1 DEF ClassesAreDisjoint
  <2>2. FailedAt("stat")' = FailedAt("stat") /\ FailedAt("parse")' = FailedAt("parse")
    BY DEF FailedAt
  <2> QED BY <2>1, <2>2 DEF Unparsed
<1>9. ClassesAreDisjoint' /\ FilesCounted'
  BY <1>1, <1>8 DEF ClassesAreDisjoint, FilesCounted
<1>10. EntriesCounted'
  <2>1. Cardinality({}) = 0
    BY FS_EmptySet
  <2>2. IsFiniteSet(met') /\ Cardinality(met') \in Nat
    <3>1. IsFiniteSet({request.file})
      BY FS_Singleton
    <3> QED BY <1>3, <3>1, FS_Subset, FS_CardinalityType
  <2>3. /\ Cardinality(met) = 0 /\ Cardinality(entries) = 0 /\ Cardinality(found) = 0
        /\ Cardinality(FailedAt("stat")) = 0
        /\ Cardinality(found') = 0 /\ Cardinality(FailedAt("stat")') = 0
    BY <1>1, <1>8, <2>1
  <2>4. request.parser = "project" => other_file_count + skipped_oversized = 0
    BY <2>3 DEF EntriesCounted, TypeOK
  <2>5. other_file_count \in Nat /\ skipped_oversized \in Nat
    BY DEF TypeOK
  <2>6. Cardinality(entries') = Cardinality(met')
    BY <1>3
  <2> QED BY <2>2, <2>3, <2>4, <2>5, <2>6 DEF EntriesCounted
<1>11. Untouched'
  BY <1>4 DEF Untouched
<1>12. WalkIsComplete'
  <2> SUFFICES ASSUME request.root = "folder" PROVE WalkIsComplete'
    BY DEF WalkIsComplete
  <2>1. folders' = {<<>>} /\ met' = {} /\ entries' = {} /\ found' = {}
    BY <1>1
  <2>2. Reached(<<>>)'
    <3>1. \A d \in unreadable : Within(<<>>, d) => d = <<>>
      <4>1. \A d \in unreadable : d \in Seq(STRING)
        BY SourceProjectAssumption, FilesAreTyped DEF TypeOK
      <4> QED BY <4>1, EmptySeq DEF Within
    <3> QED BY <3>1 DEF Reached
  <2>3. \A f \in DOMAIN Program : Within(f.folder, <<>>)
    <3>1. \A f \in DOMAIN Program : f \in Files
      BY SourceProjectAssumption DEF Program, TypeOK
    <3> QED BY <3>1, FilesAreTyped, WithinIsOrder
  <2> QED BY <1>4, <2>1, <2>2, <2>3 DEF WalkIsComplete
<1>13. QED BY <1>5, <1>6, <1>7, <1>9, <1>10, <1>11, <1>12

LEMMA StartMissingKeeps == ASSUME IInv, StartMissing PROVE IInv'
<1> USE DEF StartMissing, IInv, inputs, counts
<1>1. FailedAt("stat")' = {} /\ FailedAt("parse")' = {}
  <2>1. \A g, s : s # "missing" => [error |-> s, file |-> g] # [error |-> "missing"]
    <3> SUFFICES ASSUME NEW g, NEW s, [error |-> s, file |-> g] = [error |-> "missing"]
                 PROVE  s = "missing"
      OBVIOUS
    <3>1. [error |-> s, file |-> g].error = [error |-> "missing"].error
      OBVIOUS
    <3> QED BY <3>1
  <2> QED BY <2>1 DEF FailedAt
<1>2. met = {} /\ entries = {} /\ found = {} /\ folders = {} /\ handled = {}
  BY DEF WalkIsDisjoint, TypeOK
<1>3. FailedAt("stat") = {} /\ FailedAt("parse") = {} /\ Unparsed' = Unparsed
  BY <1>2 DEF ClassesAreDisjoint, Unparsed
<1>4. ParsedFiles' = ParsedFiles /\ Program' = Program
  BY DEF ParsedFiles, Program
<1>5. TypeOK'
  <2>1. request' \in Requests'
    BY DEF TypeOK, Requests
  <2> QED BY <1>4, <2>1 DEF TypeOK
<1>6. NothingElse' /\ Untouched'
  BY <1>4 DEF NothingElse, Untouched
<1>7. WalkIsDisjoint'
  BY <1>2 DEF WalkIsDisjoint
<1>8. ClassesAreDisjoint' /\ EntriesCounted' /\ FilesCounted'
  BY <1>1, <1>3 DEF ClassesAreDisjoint, EntriesCounted, FilesCounted
<1>9. WalkIsComplete'
  BY DEF WalkIsComplete, RootExists
<1>10. QED BY <1>5, <1>6, <1>7, <1>8, <1>9

\* The walk and the call end without a change of anything else.
LEMMA EndKeeps == ASSUME IInv, Walked \/ Return PROVE IInv'
<1> USE DEF Walked, Return, IInv, inputs, counts
<1>1. FailedAt("stat")' = FailedAt("stat") /\ FailedAt("parse")' = FailedAt("parse")
  BY DEF FailedAt
<1>2. ParsedFiles' = ParsedFiles /\ Program' = Program
  BY DEF ParsedFiles, Program
<1>3. TypeOK'
  <2>1. request' \in Requests'
    BY DEF TypeOK, Requests
  <2> QED BY <1>2, <2>1 DEF TypeOK
<1>4. NothingElse' /\ Untouched' /\ WalkIsDisjoint'
  BY <1>2 DEF NothingElse, Untouched, WalkIsDisjoint
<1>5. ClassesAreDisjoint' /\ EntriesCounted' /\ FilesCounted'
  BY <1>1, CountsStay
<1>6. WalkIsComplete'
  BY <1>2 DEF WalkIsComplete, Expected, Hidden, IgnoredNames, Reached
<1>7. QED BY <1>3, <1>4, <1>5, <1>6

-----------------------------------------------------------------------------
(* The walk lists a folder.                                                *)

LEMMA ListFolderKeeps ==
    ASSUME IInv, NEW d \in folders, ListFolder(d)
    PROVE  IInv'
<1> DEFINE listed == {f \in Files : f.folder = d /\ disk[f] # Gone}
           others == folders \ {d}
<1>1. /\ pc = "walk" /\ entries = {}
      /\ UNCHANGED <<request, project, unreadable, disk, edits, pc, found,
                     other_file_count, skipped_oversized, parsed, handled>>
  BY DEF ListFolder, inputs, counts
<1>2. \/ /\ d \in unreadable
         /\ errors' = errors \cup {[error |-> "walk", folder |-> d]}
         /\ folders' = others /\ entries' = {} /\ met' = met
      \/ /\ d \notin unreadable /\ errors' = errors
         /\ entries' = listed /\ met' = met \cup listed
         /\ folders' = others \cup Entered(d)
  BY <1>1 DEF ListFolder, Entered, Below
<1>3. TypeOK /\ NothingElse /\ WalkIsDisjoint
  BY DEF IInv
<1>4. d \in Folders /\ d \in Seq(STRING) /\ folders \subseteq Seq(STRING)
  BY <1>3, FilesAreTyped DEF TypeOK
<1>5. Entered(d) \subseteq Folders /\ Entered(d) \subseteq Seq(STRING)
        /\ Entered(d) \subseteq Below(d)
  BY FilesAreTyped DEF Entered, Below
<1>6. listed \cap met = {}
  <2>1. ASSUME NEW f \in listed, f \in met PROVE FALSE
    <3>1. ~Within(d, d)
      BY <1>3, <2>1 DEF WalkIsDisjoint
    <3> QED BY <1>4, <3>1, WithinIsOrder
  <2> QED BY <2>1
<1>7. Program' = Program /\ ParsedFiles' = ParsedFiles
  BY <1>1 DEF Program, ParsedFiles
<1>8. TypeOK'
  <2>1. request' \in Requests'
    BY <1>1, <1>3 DEF TypeOK, Requests
  <2>2. folders' \subseteq Folders
    BY <1>2, <1>3, <1>5 DEF TypeOK
  <2>3. entries' \subseteq met' /\ met' \subseteq Files /\ met \subseteq met'
    BY <1>1, <1>2, <1>3 DEF TypeOK
  <2>4. errors' \subseteq [error : {"missing"}] \cup [error : {"walk"}, folder : Folders]
                        \cup [error : {"stat", "parse"}, file : Files]
    BY <1>2, <1>3, <1>4 DEF TypeOK
  <2> HIDE DEF listed, others
  <2> QED BY <1>1, <1>3, <1>7, <2>1, <2>2, <2>3, <2>4 DEF TypeOK
<1>9. parsed' \in Seq(Parses)
  BY <1>1 DEF IInv
<1>10. NothingElse'
  <2>1. listed \subseteq DOMAIN Program
    BY <1>3 DEF NothingElse
  <2> HIDE DEF listed, others
  <2> QED BY <1>1, <1>2, <1>3, <1>7, <2>1 DEF NothingElse
<1>11. WalkIsDisjoint'
  <2>1. ASSUME NEW a \in folders', NEW b \in folders', Within(a, b) PROVE a = b
    <3>1. CASE a \in others /\ b \in others
      BY <1>3, <2>1, <3>1 DEF WalkIsDisjoint
    <3>2. CASE a \in Entered(d) /\ b \in others
      <4>1. a = b \/ Within(d, b)
        BY <1>4, <1>5, <2>1, <3>2, BelowIsDisjoint
      <4> QED BY <1>3, <3>2, <4>1 DEF WalkIsDisjoint
    <3>3. CASE a \in others /\ b \in Entered(d)
      <4>1. Within(a, d)
        BY <1>4, <1>5, <2>1, <3>3, BelowIsDisjoint
      <4> QED BY <1>3, <3>3, <4>1 DEF WalkIsDisjoint
    <3>4. CASE a \in Entered(d) /\ b \in Entered(d)
      BY <1>4, <1>5, <2>1, <3>4, BelowIsDisjoint
    <3> HIDE DEF others
    <3> QED BY <1>2, <3>1, <3>2, <3>3, <3>4
  <2>2. ASSUME NEW f \in met', NEW b \in folders' PROVE ~Within(f.folder, b)
    <3>0. f.folder \in Seq(STRING)
      BY <1>8, FilesAreTyped DEF TypeOK
    <3>1. CASE f \in met /\ b \in others
      BY <1>3, <3>1 DEF WalkIsDisjoint
    <3>2. CASE f \in met /\ b \in Entered(d)
      <4>1. ~Within(f.folder, d)
        BY <1>3, <3>2 DEF WalkIsDisjoint
      <4> QED BY <1>4, <1>5, <3>0, <3>2, <4>1, BelowIsDisjoint
    <3>3. CASE f \in listed /\ b \in others
      BY <1>3, <3>3 DEF WalkIsDisjoint
    <3>4. CASE f \in listed /\ b \in Entered(d)
      <4>1. ~Within(d, b)
        BY <1>4, <1>5, <3>4, BelowIsDisjoint
      <4> QED BY <3>4, <4>1
    <3> HIDE DEF others, listed
    <3> QED BY <1>2, <3>1, <3>2, <3>3, <3>4
  <2>3. request.root = "folder"
    BY <1>3 DEF WalkIsDisjoint
  <2> QED BY <1>1, <2>1, <2>2, <2>3 DEF WalkIsDisjoint
<1>12. FailedAt("stat")' = FailedAt("stat") /\ FailedAt("parse")' = FailedAt("parse")
  <2>1. CASE errors' = errors
    BY <2>1 DEF FailedAt
  <2>2. CASE errors' = errors \cup {[error |-> "walk", folder |-> d]}
    BY <2>2, OtherFailureIsAdded
  <2> QED BY <1>2, <2>1, <2>2
<1>13. ClassesAreDisjoint'
  <2>1. found \subseteq met /\ FailedAt("stat") \subseteq met
    BY <1>3 DEF IInv, TypeOK, ClassesAreDisjoint
  <2> HIDE DEF listed
  <2> QED BY <1>1, <1>2, <1>6, <1>12, <2>1 DEF IInv, ClassesAreDisjoint
<1>14. EntriesCounted'
  <2>1. IsFiniteSet(met) /\ IsFiniteSet(entries')
    <3>1. met \subseteq Files /\ entries' \subseteq Files
      BY <1>3, <1>8 DEF TypeOK
    <3> QED BY <3>1, FilesAreTyped, FS_Subset
  <2>2. met' = met \cup entries' /\ met \cap entries' = {}
    BY <1>2, <1>6
  <2>3. /\ Cardinality(met') = Cardinality(met) + Cardinality(entries')
        /\ Cardinality(met) \in Nat /\ Cardinality(entries') \in Nat
        /\ Cardinality(entries) = 0
    <3>1. /\ Cardinality(met \cap entries') = 0 /\ Cardinality(entries) = 0
          /\ Cardinality(met) \in Nat /\ Cardinality(entries') \in Nat
      BY <1>1, <2>1, <2>2, FS_EmptySet, FS_CardinalityType
    <3>2. Cardinality(met \cup entries')
            = Cardinality(met) + Cardinality(entries') - Cardinality(met \cap entries')
      BY <2>1, FS_Union
    <3> QED BY <2>2, <3>1, <3>2
  <2>4. /\ other_file_count' = other_file_count /\ skipped_oversized' = skipped_oversized
        /\ found' = found /\ request' = request
        /\ other_file_count \in Nat /\ skipped_oversized \in Nat
    BY <1>1, <1>3 DEF TypeOK
  <2>5. /\ Cardinality(found) \in Nat /\ Cardinality(FailedAt("stat")) \in Nat
    <3>1. found \subseteq Files /\ FailedAt("stat") \subseteq Files
      BY <1>3 DEF TypeOK, FailedAt
    <3> QED BY <3>1, FilesAreTyped, FS_Subset, FS_CardinalityType
  <2>6. EntriesCounted
    BY DEF IInv
  <2> QED BY <1>12, <2>3, <2>4, <2>5, <2>6 DEF EntriesCounted
<1>15. FilesCounted' /\ Untouched'
  <2>1. Unparsed' = Unparsed
    BY <1>1 DEF Unparsed
  <2> QED BY <1>1, <1>7, <1>12, <2>1 DEF IInv, FilesCounted, Untouched

<1>16. WalkIsComplete'
  <2> SUFFICES ASSUME edits = 0 PROVE WalkIsComplete'
    BY <1>1 DEF WalkIsComplete
  <2>1. request.root = "folder"
    BY <1>3 DEF WalkIsDisjoint
  <2>2. /\ found = {f \in met \ entries : Expected(f)}
        /\ \A f \in met : ~Hidden(f.folder)
        /\ \A c \in folders : Reached(c)
        /\ \A f \in DOMAIN Program :
            ~Hidden(f.folder) => f \in met \/ \E c \in folders : Within(f.folder, c)
    BY <1>1, <2>1 DEF IInv, WalkIsComplete
  <2>3. /\ \A f \in DOMAIN Program : f \in Files /\ f.folder \in Seq(STRING)
        /\ unreadable \subseteq Seq(STRING)
    BY SourceProjectAssumption, FilesAreTyped, <1>3 DEF TypeOK, Program
  <2>4. \A folder : /\ Expected(folder)' = Expected(folder)
                    /\ Hidden(folder)' = Hidden(folder) /\ Reached(folder)' = Reached(folder)
    BY <1>1 DEF Expected, Hidden, Reached, IgnoredNames
  <2>5. found' = {f \in met' \ entries' : Expected(f)}
    <3>1. met' \ entries' = met \ entries
      BY <1>1, <1>2, <1>6
    <3> QED BY <1>1, <2>2, <3>1
  <2>6. CASE d \in unreadable
    <3>1. folders' = others /\ met' = met
      BY <1>2, <2>6
    <3>2. ASSUME NEW f \in DOMAIN Program, ~Hidden(f.folder)
          PROVE  f \in met \/ \E c \in others : Within(f.folder, c)
      <4>1. ~Within(f.folder, d)
        BY <2>3, <2>6, <3>2, HiddenIsWithin
      <4> QED BY <2>2, <3>2, <4>1
    <3> HIDE DEF others
    <3> QED BY <1>1, <1>7, <2>2, <2>4, <2>5, <3>1, <3>2 DEF others, WalkIsComplete
  <2>7. CASE d \notin unreadable
    <3>1. folders' = others \cup Entered(d) /\ met' = met \cup listed
      BY <1>2, <2>7
    <3>2. /\ \A i \in DOMAIN d : d[i] \notin IgnoredNames
          /\ \A e \in unreadable : ~Within(d, e)
      BY <2>2, <2>7 DEF Reached
    <3>3. ~Hidden(d)
      BY <1>4, <2>3, <3>2, HiddenIsWithin
    <3>4. ASSUME NEW c \in Entered(d) PROVE Reached(c)
      <4>1. /\ c \in Seq(STRING) /\ c \in Folders /\ Len(c) = Len(d) + 1 /\ Within(c, d)
            /\ c[Len(c)] \notin IgnoredNames
        BY <1>4, <1>5, BelowIsWithin DEF Entered, Below
      <4>2. ASSUME NEW i \in DOMAIN c PROVE c[i] \notin IgnoredNames
        <5>1. i = Len(c) \/ (i \in DOMAIN d /\ c[i] = d[i])
          BY <1>4, <4>1 DEF Within
        <5> QED BY <3>2, <4>1, <5>1
      <4>3. ASSUME NEW e \in unreadable, Within(c, e) PROVE e = c
        BY <1>4, <1>5, <2>3, <3>2, <4>3, BelowIsDisjoint
      <4> QED BY <4>2, <4>3 DEF Reached
    <3>5. ASSUME NEW f \in DOMAIN Program, ~Hidden(f.folder)
          PROVE  f \in met' \/ \E c \in folders' : Within(f.folder, c)
      <4> DEFINE g == f.folder
      <4>1. CASE f \in met \/ \E c \in others : Within(g, c)
        BY <3>1, <4>1
      <4>2. CASE Within(g, d)
        <5>1. g \in Seq(STRING) /\ f \in Files /\ Len(g) \in Nat /\ Len(d) \in Nat
          BY <1>4, <2>3
        <5>2. CASE Len(g) = Len(d)
          <6>1. g = d
            BY <1>4, <4>2, <5>1, <5>2, WithinIsOrder
          <6>2. disk[f] # Gone
            BY <5>1 DEF IInv, Untouched, Gone
          <6> QED BY <3>1, <5>1, <6>1, <6>2
        <5>3. CASE Len(g) # Len(d)
          <6> DEFINE c == SubSeq(g, 1, Len(d) + 1)
          <6>1. Len(d) + 1 \in 1..Len(g)
            BY <4>2, <5>1, <5>3 DEF Within
          <6>2. c \in Folders
            <7>1. c \in Prefixes(g)
              BY <6>1 DEF Prefixes
            <7> QED BY <5>1, <7>1, FilesAreTyped
          <6>3. /\ c \in Seq(STRING) /\ Len(c) = Len(d) + 1
                /\ \A i \in 1..Len(c) : c[i] = g[i]
            <7> HIDE DEF g
            <7> QED BY <5>1, <6>1
          <6> HIDE DEF c
          <6>4. Within(g, c)
            BY <5>1, <6>1, <6>3 DEF Within
          <6>5. Within(c, d)
            BY <1>4, <4>2, <5>1, <6>3, <6>4, WithinIsOrder
          <6>6. c[Len(c)] \notin IgnoredNames
            <7>1. Len(c) \in DOMAIN g /\ c[Len(c)] = g[Len(c)]
              <8> HIDE DEF g
              <8> QED BY <5>1, <6>1, <6>3
            <7>2. \A i \in DOMAIN g : g[i] \notin IgnoredNames
              BY <3>5 DEF Hidden
            <7> QED BY <7>1, <7>2
          <6>7. c \in Entered(d)
            BY <1>4, <6>2, <6>3, <6>5, <6>6, BelowIsWithin DEF Entered
          <6> QED BY <3>1, <6>4, <6>7
        <5> QED BY <5>2, <5>3
      <4> QED BY <2>2, <3>5, <4>1, <4>2
    <3>6. \A f \in met' : ~Hidden(f.folder)
      BY <2>2, <3>1, <3>3
    <3>7. \A c \in folders' : Reached(c)
      BY <2>2, <3>1, <3>4
    <3> HIDE DEF others, listed
    <3> QED BY <1>1, <1>7, <2>4, <2>5, <3>5, <3>6, <3>7 DEF WalkIsComplete
  <2> QED BY <2>6, <2>7
<1>17. QED
  BY <1>8, <1>9, <1>10, <1>11, <1>13, <1>14, <1>15, <1>16 DEF IInv

-----------------------------------------------------------------------------
(* An entry is classified.                                                 *)

LEMMA AcceptKeeps == ASSUME IInv, Accept PROVE IInv'
<1> DEFINE f == FirstOf(entries)
           taken == found' = found \cup {f}
           failed == errors' = errors \cup {[error |-> "stat", file |-> f]}
<1>1. TypeOK /\ NothingElse /\ WalkIsDisjoint /\ ClassesAreDisjoint
  BY DEF IInv
<1>2. f \in entries /\ f \in met /\ f \in Files
  <2>1. entries \in SUBSET Files /\ entries # {} /\ entries \subseteq met
    BY <1>1 DEF Accept, TypeOK
  <2> QED BY <2>1, FirstIsOne
<1> HIDE DEF f
<1>3. /\ pc = "walk" /\ entries' = entries \ {f}
      /\ UNCHANGED <<request, project, unreadable, disk, edits, pc, folders, met,
                     parsed, handled>>
  BY DEF Accept, inputs, f
\* One class gets the entry.
<1>4. \/ failed /\ disk[f] = Gone /\ UNCHANGED <<found, other_file_count, skipped_oversized>>
      \/ /\ skipped_oversized' = skipped_oversized + 1 /\ disk[f].size > MaxFileBytes
         /\ UNCHANGED <<found, other_file_count, errors>>
      \/ /\ other_file_count' = other_file_count + 1 /\ ~Expected(f)
         /\ UNCHANGED <<found, skipped_oversized, errors>>
      \/ /\ taken /\ Expected(f)
         /\ UNCHANGED <<other_file_count, skipped_oversized, errors>>
      \/ /\ request.parser # "project" /\ ~Expected(f)
         /\ UNCHANGED <<found, other_file_count, skipped_oversized, errors>>
  BY DEF Accept, Classify, TakePython, Expected, counts, f
<1>5. Program' = Program /\ ParsedFiles' = ParsedFiles
  BY <1>3 DEF Program, ParsedFiles
<1>6. TypeOK'
  <2>1. request' \in Requests'
    BY <1>1, <1>3 DEF TypeOK, Requests
  <2>2. entries' \subseteq met'
    BY <1>1, <1>3 DEF TypeOK
  <2>3. found' \subseteq met' /\ handled' \subseteq found'
    BY <1>1, <1>2, <1>3, <1>4 DEF TypeOK
  <2>4. other_file_count' \in Nat /\ skipped_oversized' \in Nat
    BY <1>1, <1>4 DEF TypeOK
  <2>5. errors' \subseteq [error : {"missing"}] \cup [error : {"walk"}, folder : Folders]
                        \cup [error : {"stat", "parse"}, file : Files]
    BY <1>1, <1>2, <1>4 DEF TypeOK
  <2> QED BY <1>1, <1>3, <1>5, <2>1, <2>2, <2>3, <2>4, <2>5 DEF TypeOK
<1>7. parsed' \in Seq(Parses) /\ NothingElse' /\ Untouched'
  BY <1>3, <1>5 DEF IInv, NothingElse, Untouched
<1>8. WalkIsDisjoint'
  BY <1>1, <1>3 DEF WalkIsDisjoint
<1>9. /\ FailedAt("parse")' = FailedAt("parse")
      /\ FailedAt("stat")' = FailedAt("stat") \cup (IF failed THEN {f} ELSE {})
  <2>1. CASE failed
    BY <1>2, <2>1, FailureIsAdded
  <2>2. CASE ~failed
    <3>1. errors' = errors
      BY <1>4, <2>2
    <3> QED BY <2>2, <3>1 DEF FailedAt
  <2> QED BY <2>1, <2>2
<1>10. f \notin found /\ f \notin FailedAt("stat")
  BY <1>1, <1>2 DEF ClassesAreDisjoint
<1>11. ClassesAreDisjoint'
  <2>1. FailedAt("stat")' \subseteq met' \ entries'
    BY <1>1, <1>2, <1>3, <1>9 DEF ClassesAreDisjoint
  <2>2. entries' \cap found' = {}
    BY <1>1, <1>3, <1>4 DEF ClassesAreDisjoint
  <2> QED BY <1>1, <1>3, <1>9, <2>1, <2>2 DEF ClassesAreDisjoint
<1>12. EntriesCounted'
  <2> SUFFICES ASSUME request.parser = "project" PROVE EntriesCounted'
    BY <1>3 DEF EntriesCounted
  <2>1. IsFiniteSet(entries) /\ IsFiniteSet(found) /\ IsFiniteSet(FailedAt("stat"))
    <3>1. entries \subseteq Files /\ found \subseteq Files /\ FailedAt("stat") \subseteq Files
      BY <1>1 DEF TypeOK, FailedAt
    <3> QED BY <3>1, FilesAreTyped, FS_Subset
  <2>2. /\ Cardinality(entries') = Cardinality(entries) - 1
        /\ Cardinality(found \cup {f}) = Cardinality(found) + 1
        /\ Cardinality(FailedAt("stat") \cup {f}) = Cardinality(FailedAt("stat")) + 1
    BY <1>2, <1>3, <1>10, <2>1, FS_AddElement, FS_RemoveElement
  <2>3. /\ Cardinality(entries) \in Nat /\ Cardinality(found) \in Nat
        /\ Cardinality(FailedAt("stat")) \in Nat
        /\ other_file_count \in Nat /\ skipped_oversized \in Nat
    BY <1>1, <2>1, FS_CardinalityType DEF TypeOK
  <2>4. Cardinality(met') = Cardinality(entries) + Cardinality(found) + other_file_count
                            + skipped_oversized + Cardinality(FailedAt("stat"))
    BY <1>3 DEF IInv, EntriesCounted
  <2>5. CASE failed /\ UNCHANGED <<found, other_file_count, skipped_oversized>>
    <3>1. Cardinality(FailedAt("stat")') = Cardinality(FailedAt("stat")) + 1
      BY <1>9, <2>2, <2>5
    <3> QED BY <2>2, <2>3, <2>4, <2>5, <3>1 DEF EntriesCounted
  <2>6. ASSUME errors' = errors PROVE Cardinality(FailedAt("stat")') = Cardinality(FailedAt("stat"))
    <3>1. FailedAt("stat")' = FailedAt("stat")
      BY <2>6 DEF FailedAt
    <3> QED BY <3>1
  <2>7. CASE /\ skipped_oversized' = skipped_oversized + 1
             /\ UNCHANGED <<found, other_file_count, errors>>
    BY <2>2, <2>3, <2>4, <2>6, <2>7 DEF EntriesCounted
  <2>8. CASE /\ other_file_count' = other_file_count + 1
             /\ UNCHANGED <<found, skipped_oversized, errors>>
    BY <2>2, <2>3, <2>4, <2>6, <2>8 DEF EntriesCounted
  <2>9. CASE taken /\ UNCHANGED <<other_file_count, skipped_oversized, errors>>
    BY <2>2, <2>3, <2>4, <2>6, <2>9 DEF EntriesCounted
  <2> HIDE DEF taken, failed
  <2> QED BY <1>4, <2>5, <2>7, <2>8, <2>9
<1>13. FilesCounted'
  <2>1. Unparsed' = Unparsed
    BY <1>3 DEF Unparsed
  <2> QED BY <1>3, <1>9, <2>1 DEF IInv, FilesCounted
<1>14. WalkIsComplete'
  <2> SUFFICES ASSUME edits = 0, request.root = "folder" PROVE WalkIsComplete'
    BY <1>3 DEF WalkIsComplete
  <2>1. WalkIsComplete /\ found = {g \in met \ entries : Expected(g)}
    BY <1>3 DEF IInv, WalkIsComplete
  <2>2. disk[f] = [size |-> 1, shape |-> "fine"]
    BY <1>1, <1>2 DEF IInv, Untouched, NothingElse
  <2>3. disk[f] # Gone /\ ~(disk[f].size > MaxFileBytes)
    BY <2>2, LimitIsPositive DEF Gone
  <2>4. found' = IF Expected(f) THEN found \cup {f} ELSE found
    BY <1>3, <1>4, <2>3 DEF Expected
  <2>5. found' = {g \in met' \ entries' : Expected(g)}
    <3>1. met' \ entries' = (met \ entries) \cup {f}
      BY <1>2, <1>3
    <3> QED BY <2>1, <2>4, <3>1
  <2>6. \A x : /\ Expected(x)' = Expected(x)
               /\ Hidden(x)' = Hidden(x) /\ Reached(x)' = Reached(x)
    BY <1>3 DEF Expected, Hidden, Reached, IgnoredNames
  <2> QED BY <1>3, <1>5, <2>1, <2>5, <2>6 DEF WalkIsComplete
<1>15. QED
  BY <1>6, <1>7, <1>8, <1>11, <1>12, <1>13, <1>14 DEF IInv

-----------------------------------------------------------------------------
(* A discovered file is parsed, and the theorems.                          *)

LEMMA ParseKeeps == ASSUME IInv, Parse PROVE IInv'
<1> DEFINE f == FirstOf(found \ handled)
           failed == errors' = errors \cup {[error |-> "parse", file |-> f]}
           unparsed == ~StructurallyParsed(f)
<1>1. TypeOK /\ NothingElse /\ WalkIsDisjoint /\ ClassesAreDisjoint
  BY DEF IInv
<1>2. f \in found /\ f \notin handled /\ f \in Files /\ f \in DOMAIN Program
  <2>1. found \ handled \in SUBSET Files /\ found \ handled # {}
    BY <1>1 DEF Parse, TypeOK
  <2>2. f \in found \ handled
    BY <2>1, FirstIsOne
  <2> HIDE DEF f
  <2> QED BY <1>1, <2>2 DEF TypeOK, NothingElse
<1> HIDE DEF f
<1>3. /\ pc = "parse" /\ handled' = handled \cup {f}
      /\ UNCHANGED <<request, project, unreadable, disk, edits, folders, entries, met,
                     found, other_file_count, skipped_oversized>>
  BY DEF Parse, inputs, counts, f
\* A file is parsed, fails, is no Python, or ends the call.
<1>4. \/ pc' = pc /\ errors' = errors /\ parsed' = parsed /\ unparsed
      \/ pc' = pc /\ failed /\ parsed' = parsed /\ ~unparsed
      \/ pc' = pc /\ errors' = errors /\ parsed' = Append(parsed, FileParse(f)) /\ ~unparsed
      \/ pc' = "raised" /\ errors' = errors /\ parsed' = parsed
  BY DEF Parse, ParseFails, ParseRaises, ParseSucceeds, f
<1>5. Program' = Program
  BY <1>3 DEF Program
<1>6. parsed \in Seq(Parses) /\ FileParse(f) \in Parses /\ FileParse(f).file = f
  <2>1. FileParse(f) \in Parses
    BY <1>1, <1>2, ParseIsTyped DEF TypeOK
  <2> QED BY <2>1 DEF IInv, FileParse
<1>7. parsed' \in Seq(Parses) /\ ParsedFiles' \subseteq ParsedFiles \cup {FileParse(f)}
  <2> DEFINE p == FileParse(f)
  <2>1. p \in Parses /\ parsed \in Seq(Parses)
    BY <1>6
  <2> HIDE DEF p
  <2>2. /\ Append(parsed, p) \in Seq(Parses)
        /\ \A i \in DOMAIN Append(parsed, p) :
            Append(parsed, p)[i] = p \/ (i \in DOMAIN parsed /\ Append(parsed, p)[i] = parsed[i])
    BY <2>1, AppendProperties
  <2>3. parsed' = parsed \/ parsed' = Append(parsed, p)
    BY <1>4 DEF p
  <2>4. ASSUME NEW i \in DOMAIN parsed' PROVE parsed'[i] \in ParsedFiles \cup {p}
    BY <2>2, <2>3 DEF ParsedFiles
  <2> QED BY <2>1, <2>2, <2>3, <2>4 DEF ParsedFiles, p
<1>8. TypeOK'
  <2>1. request' \in Requests'
    BY <1>1, <1>3 DEF TypeOK, Requests
  <2>2. handled' \subseteq found'
    BY <1>1, <1>2, <1>3 DEF TypeOK
  <2>3. pc' \in {"start", "walk", "parse", "returned", "raised"}
    BY <1>3, <1>4
  <2>4. errors' \subseteq [error : {"missing"}] \cup [error : {"walk"}, folder : Folders]
                        \cup [error : {"stat", "parse"}, file : Files]
    BY <1>1, <1>2, <1>4 DEF TypeOK
  <2>5. ASSUME NEW p \in ParsedFiles' PROVE p.file \in handled' /\ p.module # Nowhere
    <3>1. FileParse(f).module # Nowhere
      BY <1>6 DEF Parses, Names
    <3>2. CASE p = FileParse(f)
      BY <1>3, <1>6, <3>1, <3>2
    <3>3. CASE p \in ParsedFiles
      BY <1>1, <1>3, <3>3 DEF TypeOK
    <3> QED BY <1>7, <3>2, <3>3
  <2> QED BY <1>1, <1>3, <1>5, <2>1, <2>2, <2>3, <2>4, <2>5 DEF TypeOK
<1>9. NothingElse' /\ Untouched' /\ WalkIsDisjoint'
  <2>1. NothingElse'
    BY <1>1, <1>3, <1>5 DEF NothingElse
  <2>2. Untouched'
    BY <1>3, <1>5 DEF IInv, Untouched
  <2>3. WalkIsDisjoint'
    BY <1>1, <1>3, <1>4 DEF WalkIsDisjoint
  <2> QED BY <2>1, <2>2, <2>3
<1>10. /\ FailedAt("stat")' = FailedAt("stat")
       /\ FailedAt("parse")' = FailedAt("parse") \cup (IF failed THEN {f} ELSE {})
  <2>1. CASE failed
    BY <1>2, <2>1, FailureIsAdded
  <2>2. CASE ~failed
    <3>1. errors' = errors
      BY <1>4, <2>2
    <3> QED BY <2>2, <3>1 DEF FailedAt
  <2> QED BY <2>1, <2>2
<1>11. ClassesAreDisjoint'
  BY <1>1, <1>3, <1>10 DEF ClassesAreDisjoint
<1>12. EntriesCounted'
  BY <1>3, <1>10 DEF IInv, EntriesCounted
<1>13. FilesCounted'
  <2> SUFFICES ASSUME pc' # "raised" PROVE FilesCounted'
    BY DEF FilesCounted
  <2>1. f \notin Unparsed /\ f \notin FailedAt("parse")
    BY <1>1, <1>2 DEF ClassesAreDisjoint, Unparsed
  <2>2. IsFiniteSet(handled) /\ IsFiniteSet(Unparsed) /\ IsFiniteSet(FailedAt("parse"))
    <3>1. handled \subseteq Files /\ Unparsed \subseteq Files /\ FailedAt("parse") \subseteq Files
      BY <1>1 DEF TypeOK, Unparsed, FailedAt
    <3> QED BY <3>1, FilesAreTyped, FS_Subset
  <2>3. /\ Cardinality(handled \cup {f}) = Cardinality(handled) + 1
        /\ Cardinality(Unparsed \cup {f}) = Cardinality(Unparsed) + 1
        /\ Cardinality(FailedAt("parse") \cup {f}) = Cardinality(FailedAt("parse")) + 1
    BY <1>2, <2>1, <2>2, FS_AddElement
  <2>4. /\ Cardinality(handled) \in Nat /\ Cardinality(Unparsed) \in Nat
        /\ Cardinality(FailedAt("parse")) \in Nat /\ Len(parsed) \in Nat
    BY <1>6, <2>2, FS_CardinalityType
  <2>5. /\ Cardinality(handled') = Cardinality(handled) + 1
        /\ Cardinality(handled) = Len(parsed) + Cardinality(FailedAt("parse"))
                                    + Cardinality(Unparsed)
    BY <1>3, <2>3 DEF IInv, FilesCounted
  <2>6. Unparsed' = IF unparsed THEN Unparsed \cup {f} ELSE Unparsed
    BY <1>3 DEF Unparsed
  <2>7. errors' = errors => FailedAt("parse")' = FailedAt("parse")
    BY DEF FailedAt
  <2>8. CASE errors' = errors /\ parsed' = parsed /\ unparsed
    <3>1. Cardinality(Unparsed') = Cardinality(Unparsed) + 1
      BY <2>3, <2>6, <2>8
    <3> HIDE DEF unparsed
    <3> QED BY <2>4, <2>5, <2>7, <2>8, <3>1 DEF FilesCounted
  <2>9. CASE failed /\ parsed' = parsed /\ ~unparsed
    <3>1. /\ Cardinality(Unparsed') = Cardinality(Unparsed)
          /\ Cardinality(FailedAt("parse")') = Cardinality(FailedAt("parse")) + 1
      BY <1>10, <2>3, <2>6, <2>9
    <3> HIDE DEF unparsed
    <3> QED BY <2>4, <2>5, <2>9, <3>1 DEF FilesCounted
  <2>10. CASE errors' = errors /\ parsed' = Append(parsed, FileParse(f)) /\ ~unparsed
    <3>1. Cardinality(Unparsed') = Cardinality(Unparsed)
      BY <2>6, <2>10
    <3>2. Len(parsed') = Len(parsed) + 1
      <4> DEFINE p == FileParse(f)
      <4>1. parsed' = Append(parsed, p) /\ p \in Parses
        BY <1>6, <2>10
      <4> HIDE DEF p
      <4> QED BY <1>6, <4>1
    <3> HIDE DEF unparsed
    <3> QED BY <2>4, <2>5, <2>7, <2>10, <3>1, <3>2 DEF FilesCounted
  <2> HIDE DEF failed, unparsed
  <2> QED BY <1>4, <2>8, <2>9, <2>10
<1>14. WalkIsComplete'
  <2>1. \A x : /\ Expected(x)' = Expected(x)
               /\ Hidden(x)' = Hidden(x) /\ Reached(x)' = Reached(x)
    BY <1>3 DEF Expected, Hidden, Reached, IgnoredNames
  <2>2. pc # "start" /\ WalkIsComplete
    BY <1>3 DEF IInv
  <2> QED BY <1>3, <1>5, <2>1, <2>2 DEF WalkIsComplete
<1>15. QED
  BY <1>7, <1>8, <1>9, <1>11, <1>12, <1>13, <1>14 DEF IInv

LEMMA StutterKeeps == ASSUME IInv, UNCHANGED vars PROVE IInv'
<1> USE DEF vars, inputs, counts
<1>1. TypeOK' /\ parsed' \in Seq(Parses)
  BY DEF IInv, TypeOK, Requests, ParsedFiles, Program
<1>2. NothingElse' /\ Untouched' /\ WalkIsDisjoint'
  BY DEF IInv, NothingElse, Untouched, WalkIsDisjoint, Program
<1>3. FailedAt("stat")' = FailedAt("stat") /\ FailedAt("parse")' = FailedAt("parse")
  BY DEF FailedAt
<1>4. ClassesAreDisjoint' /\ EntriesCounted' /\ FilesCounted'
  BY <1>3, CountsStay DEF IInv
<1>5. WalkIsComplete'
  BY DEF IInv, WalkIsComplete, Expected, Hidden, IgnoredNames, Reached, Program
<1>6. QED
  BY <1>1, <1>2, <1>4, <1>5 DEF IInv

\* The invariant above holds throughout the call.
THEOREM InductiveInvariant == Spec => []IInv
<1>1. IInv /\ [Next]_vars => IInv'
  <2> SUFFICES ASSUME IInv, [Next]_vars PROVE IInv'
    OBVIOUS
  <2>1. CASE Edit
    BY <2>1, EditKeeps
  <2>2. CASE Start
    BY <2>2, StartKeeps
  <2>3. CASE StartMissing
    BY <2>3, StartMissingKeeps
  <2>4. ASSUME NEW d \in folders, ListFolder(d) PROVE IInv'
    BY <2>4, ListFolderKeeps
  <2>5. CASE Accept
    BY <2>5, AcceptKeeps
  <2>6. CASE Walked \/ Return
    BY <2>6, EndKeeps
  <2>7. CASE Parse
    BY <2>7, ParseKeeps
  <2>8. CASE UNCHANGED vars
    BY <2>8, StutterKeeps
  <2> QED BY <2>1, <2>2, <2>3, <2>4, <2>5, <2>6, <2>7, <2>8 DEF Next, Step
<1>2. QED
  BY <1>1, InitKeeps, PTL DEF Spec

\* The state of a call is well formed, and no parsed file is without a name.
THEOREM TypeCorrect == Spec => []TypeOK
<1>1. IInv => TypeOK
  BY DEF IInv
<1>2. QED
  BY <1>1, InductiveInvariant, PTL

\* However the disk changes during the call, no entry is lost or counted
\* twice, and a disk that does not change has every source file found.
THEOREM EntriesAreAccounted == Spec => []EntriesAccounted
<1>1. ASSUME IInv PROVE EntriesAccounted
  <2>1. pc # "raised" =>
            Cardinality(handled) = Len(parsed) + Cardinality(FailedAt("parse"))
                                    + Cardinality({f \in handled : ~StructurallyParsed(f)})
    BY <1>1 DEF IInv, FilesCounted, Unparsed
  <2>2. ASSUME pc = "returned", request.root = "folder", edits = 0
        PROVE  found = {f \in DOMAIN Program : Expected(f) /\ ~Hidden(f.folder)}
    <3>1. folders = {} /\ entries = {}
      BY <1>1, <2>2 DEF IInv, WalkIsDisjoint
    <3>2. /\ found = {f \in met \ entries : Expected(f)}
          /\ \A f \in met : ~Hidden(f.folder)
          /\ \A f \in DOMAIN Program : ~Hidden(f.folder) => f \in met
      BY <1>1, <2>2, <3>1 DEF IInv, WalkIsComplete
    <3>3. met \subseteq DOMAIN Program
      BY <1>1 DEF IInv, NothingElse
    <3> QED BY <3>1, <3>2, <3>3
  <2>3. Result.files = found
    BY DEF Result
  <2> QED BY <1>1, <2>1, <2>2, <2>3 DEF IInv, EntriesCounted, EntriesAccounted
<1>2. QED
  BY <1>1, InductiveInvariant, PTL

\* Every edge of the call graph is a call in the sources or what that call
\* denotes there, and no call is lost.
THEOREM EdgesAreGrounded == Spec => []EdgesGrounded
<1>1. IInv => EdgesGrounded
  BY Grounded DEF IInv
<1>2. QED
  BY <1>1, InductiveInvariant, PTL
=============================================================================
