--------------------------- MODULE PythonResolver ---------------------------
(***************************************************************************)
(* python_resolver.py: which definition of the parsed project the target   *)
(* of a call denotes.  A dotted name is the sequence of its parts, so a    *)
(* prefix of a name is the name of what encloses it.                       *)
(*                                                                         *)
(* A file, as the parser hands it over, is a record of                     *)
(*   module    its dotted module name                                      *)
(*   defs      its definitions: records [path, kind, calls], where path is *)
(*             the name inside the module, kind is "class" or "callable",  *)
(*             and calls holds the targets called in the body              *)
(*   imports   its import entries, in the order they are collected         *)
(***************************************************************************)
EXTENDS Integers, Sequences, FiniteSets, FiniteSetsExt

\* The absence of a module, of a class or of a package; no name is empty.
Nowhere == <<>>

Prefixes(name) == {SubSeq(name, 1, n) : n \in 1..Len(name)}

Longest(names) == CHOOSE n \in names : \A o \in names : Len(o) <= Len(n)

\* The longest prefix of a qualified name that is a parsed module.
ModulePrefix(name, modules) ==
    LET found == Prefixes(name) \cap modules
    IN  IF found = {} THEN Nowhere ELSE Longest(found)

\* The innermost class whose scope a caller is in.
EnclosingClass(caller, classes) ==
    LET found == (Prefixes(caller) \ {caller}) \cap classes
    IN  IF found = {} THEN Nowhere ELSE Longest(found)

\* The package a relative import starts from, approximated from the name of
\* the importing module: a package's own __init__ file counts as a module.
RelativeBase(module, level) ==
    IF Len(module) <= level THEN Nowhere ELSE SubSeq(module, 1, Len(module) - level)

-----------------------------------------------------------------------------
(* An import entry: import module [as asname], or                          *)
(* from <level dots>module import name [as asname].                        *)

Unnamed == ""
Star == "*"

\* The module an entry imports from.
ImportBase(module, e) ==
    IF e.level = 0 THEN e.module
    ELSE LET base == RelativeBase(module, e.level)
         IN  IF base = Nowhere THEN Nowhere ELSE base \o e.module

Binds(module, e) ==
    IF e.is_from THEN e.name # Star /\ ImportBase(module, e) # Nowhere
                 ELSE e.asname # Unnamed

BoundName(e) == IF e.asname # Unnamed THEN e.asname ELSE e.name

BoundTo(module, e) ==
    IF e.is_from THEN Append(ImportBase(module, e), e.name) ELSE e.module

NoBindings == [name \in {} |-> Nowhere]

\* What the names a module imports stand for; a later entry replaces an
\* earlier one.
Bindings(module, imports) ==
    [name \in {BoundName(imports[i]) : i \in {j \in DOMAIN imports : Binds(module, imports[j])}} |->
        BoundTo(module, imports[Max({j \in DOMAIN imports :
                        Binds(module, imports[j]) /\ BoundName(imports[j]) = name})])]

-----------------------------------------------------------------------------
(* The index over the symbols of all parsed files.                         *)

Qualified(file, d) == file.module \o d.path

Symbols(files) ==
    UNION {{[qualified |-> Qualified(f, d), kind |-> d.kind] : d \in f.defs} : f \in files}

ModuleIndex(files) ==
    [modules |-> {f.module : f \in files},
     defined |-> {s.qualified : s \in Symbols(files)},
     classes |-> {s.qualified : s \in {t \in Symbols(files) : t.kind = "class"}}]

\* A bare name reaches the definitions one level below its module, and not
\* those of another module inside it.
IsModuleLocal(name, module, index) ==
    /\ name \in index.defined
    /\ Len(name) = Len(module) + 1
    /\ ModulePrefix(name, index.modules) = module

\* Mutant: a candidate is taken for a definition without a look at the index.
Guessed(candidate, target, index) == candidate

\* A target, or the candidate if such a definition exists.
IfDefined(candidate, target, index) ==
    IF candidate \in index.defined THEN candidate ELSE target

ResolveSelf(target, caller, index) ==
    LET class == EnclosingClass(caller, index.classes)
    IN  IF class = Nowhere THEN target
        ELSE IfDefined(class \o Tail(target), target, index)

ResolveBare(target, caller, index, bound) ==
    LET module == ModulePrefix(caller, index.modules)
        here == module \o target  \* what module_local holds under the name
        name == Head(target)
    IN  IF module # Nowhere /\ IsModuleLocal(here, module, index) THEN here
        ELSE IF name \in DOMAIN bound THEN IfDefined(bound[name], target, index)
        ELSE target

ResolveDotted(target, index, bound) ==
    IF Head(target) \in DOMAIN bound
    THEN IfDefined(bound[Head(target)] \o Tail(target), target, index)
    ELSE target

ResolveToken(target, caller, index, bound) ==
    IF target \in index.defined THEN target
    ELSE IF Len(target) > 1 /\ Head(target) \in {"self", "cls"}
         THEN ResolveSelf(target, caller, index)
    ELSE IF Len(target) = 1 THEN ResolveBare(target, caller, index, bound)
    ELSE ResolveDotted(target, index, bound)

-----------------------------------------------------------------------------

\* The targets called in the bodies of all definitions of one name.
Callers(files) ==
    UNION {{Qualified(f, d) : d \in {c \in f.defs : c.kind = "callable"}} : f \in files}

CallGraph(files) ==
    [c \in Callers(files) |->
        UNION {UNION {d.calls : d \in {e \in f.defs :
                                    e.kind = "callable" /\ Qualified(f, e) = c}} : f \in files}]

\* Of two files of one module, the bindings of the one parsed later count.
BindingsByModule(parsed) ==
    [m \in {parsed[i].module : i \in DOMAIN parsed} |->
        Bindings(m, parsed[Max({i \in DOMAIN parsed : parsed[i].module = m})].imports)]

\* The bindings of the module a caller is in.
BoundFor(caller, index, byModule) ==
    LET m == ModulePrefix(caller, index.modules)
    IN  IF m \in DOMAIN byModule THEN byModule[m] ELSE NoBindings

\* The call graph of the parsed files with every target resolved; parsed is
\* the sequence of the files in the order they were parsed.
ResolveCallGraph(parsed) ==
    LET files == {parsed[i] : i \in DOMAIN parsed}
        index == ModuleIndex(files)
        byModule == BindingsByModule(parsed)
        raw == CallGraph(files)
    IN  [c \in DOMAIN raw |->
            {ResolveToken(t, c, index, BoundFor(c, index, byModule)) : t \in raw[c]}]
=============================================================================
