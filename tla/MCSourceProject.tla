--------------------------- MODULE MCSourceProject ---------------------------
(* Small projects for SourceProject.                                       *)
EXTENDS SourceProject, TLC

File(folder, stem, suffix) == [folder |-> folder, stem |-> stem, suffix |-> suffix]

Root == File(<<>>, "__init__", ".py")
C == File(<<>>, "lib", ".c")
Main == File(<<>>, "main", ".py")
Notes == File(<<>>, "notes", ".txt")
Pkg == File(<<>>, "pkg", ".py")
Stub == File(<<"build">>, "stub", ".pyi")
Package == File(<<"pkg">>, "__init__", ".py")
Tools == File(<<"pkg">>, "tools", ".py")
Vendored == File(<<"vendor", "lib">>, "tools", ".py")

PathOrder == <<Root, Stub, C, Main, Notes, Pkg, Package, Tools, Vendored>>

Def(path, kind, calls) == [path |-> path, kind |-> kind, calls |-> calls]
Callable(path, calls) == Def(path, "callable", calls)
Class(path) == Def(path, "class", {})

Import(module, asname) ==
    [is_from |-> FALSE, level |-> 0, module |-> module, name |-> "", asname |-> asname]
From(level, module, name, asname) ==
    [is_from |-> TRUE, level |-> level, module |-> module, name |-> name,
     asname |-> asname]

Source(defs, imports) == [defs |-> defs, imports |-> imports, inner |-> <<>>]
Empty == Source({}, <<>>)

ToolsProgram ==
    Source({Callable(<<"clean">>, {<<"clean">>, <<"missing">>}),
             Callable(<<"util">>, {<<"clean">>, <<"os", "getcwd">>})},
            <<From(1, <<>>, "Box", ""), From(2, <<"main">>, "helper", "")>>)

\* A module, and a package with one module: every form of import and call.
Plain ==
    Main :> [defs |->
        {Class(<<"Service">>),
         Callable(<<"Service", "run">>,
            {<<"self", "stop">>, <<"helper">>, <<"t", "clean">>, <<"util">>, <<"run">>}),
         Callable(<<"Service", "stop">>, {<<"self", "gone">>, <<"Box">>}),
         Class(<<"Service", "Inner">>),
         Callable(<<"Service", "Inner", "stop">>, {<<"cls", "stop">>}),
         Callable(<<"helper">>, {<<"pkg", "tools", "util">>, <<"x", "clean">>})},
        imports |->
        <<Import(<<"pkg", "tools">>, "t"), Import(<<"pkg", "tools">>, "x"),
          From(0, <<"pkg", "tools">>, "util", ""), From(0, <<"pkg">>, "Box", ""),
          From(0, <<"pkg">>, "*", "")>>,
        inner |-> <<Import(<<"os">>, "x")>>]
    @@ Package :> Source({Class(<<"Box">>), Callable(<<"start">>, {<<"c">>, <<"Box", "open">>})},
        <<From(1, <<"tools">>, "clean", "c"), From(0, <<"pkg", "tools">>, "clean", "c")>>)
    @@ Tools :> ToolsProgram

\* Two files of one module, and a class named like a module.
Collision ==
    Pkg :> Source({Callable(<<"start">>, {<<"c">>, <<"d">>})},
        <<From(0, <<"pkg", "tools">>, "clean", "d")>>)
    @@ Package :> Source(
        {Class(<<"tools">>), Callable(<<"tools", "start">>, {<<"util">>, <<"self", "util">>}),
         Callable(<<"start">>, {<<"tools">>})},
        <<From(0, <<"pkg", "tools">>, "clean", "c")>>)
    @@ Tools :> ToolsProgram

\* Files that are not parsed, folders that are not walked.
Mixed ==
    Root :> Source({Callable(<<"start">>, {<<"start">>})}, <<>>)
    @@ Main :> Source({Callable(<<"start">>, {<<"start">>, <<"lib", "call">>})},
        <<From(1, <<>>, "start", "")>>)
    @@ C :> Empty @@ Notes :> Empty @@ Stub :> Empty @@ Vendored :> ToolsProgram

NoneOrPackage == {{}, {<<"pkg">>}}
SmallProjects == [plain |-> Plain, collision |-> Collision, mixed |-> Mixed]
=============================================================================
