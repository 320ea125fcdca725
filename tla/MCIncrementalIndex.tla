------------------------- MODULE MCIncrementalIndex -------------------------
(***************************************************************************)
(* Small repositories for TLC.                                             *)
(***************************************************************************)
EXTENDS IncrementalIndex, TLC

File(defs, imports, calls) == [defs |-> defs, imports |-> imports, calls |-> calls]
From(dots, mod, names) == [dots |-> dots, mod |-> mod, names |-> names]

\* Modules at the repository root, imported absolutely:
\*   m.py defines square or cube or both, app.py calls one of them.
Flat == {<<"app">>, <<"m">>}
FlatNames == {"area", "square", "cube"}
Importer(n) == File({"area"}, {From(0, <<"m">>, {n})}, {<<"area", n>>})
FlatVersions ==
  (<<"m">>   :> {File({"square"}, {}, {}), File({"cube"}, {}, {})}) @@
  (<<"app">> :> {Importer("square"), Importer("cube")})

\* The same inside a package, imported relatively (from .m import square).
Package2 == {<<"pkg", "app">>, <<"pkg", "m">>}
Relative(n) == File({"area"}, {From(1, <<"m">>, {n})}, {<<"area", n>>})
RelativeVersions ==
  (<<"pkg", "m">>   :> {File({"square"}, {}, {}), File({"cube"}, {}, {})}) @@
  (<<"pkg", "app">> :> {Relative("square")})

\* A src layout: src/pkg is the package pkg, imported absolutely.
SrcLayout == {<<"src", "pkg", "__init__">>, <<"src", "pkg", "app">>, <<"src", "pkg", "m">>}
SrcImporter(n) == File({"area"}, {From(0, <<"pkg", "m">>, {n})}, {<<"area", n>>})
SrcVersions ==
  (<<"src", "pkg", "__init__">> :> {File({}, {}, {})}) @@
  (<<"src", "pkg", "m">>   :> {File({"square"}, {}, {}), File({"cube"}, {}, {})}) @@
  (<<"src", "pkg", "app">> :> {SrcImporter("square")})

\* A package that re-exports names of its module, and a client of the package or
\* of the module.
Reexporting == {<<"app">>, <<"pkg", "__init__">>, <<"pkg", "m">>}
Client == File({"area"}, {From(0, <<"pkg">>, {"square"})}, {<<"area", "square">>})
SubmoduleClient == File({"area"}, {From(0, <<"pkg", "m">>, {"cube"})}, {<<"area", "cube">>})
ReexportingVersions ==
  (<<"pkg", "__init__">> :> {File({}, {From(0, <<"pkg", "m">>, {"square"})}, {})}) @@
  (<<"pkg", "m">>        :> {File({"square"}, {}, {}), File({"cube"}, {}, {})}) @@
  (<<"app">>             :> {Client, SubmoduleClient})

AllContents == UNION {Versions[f] : f \in Files}

\* Nothing is out of reach of the scope in the repositories of the runs.
ASSUME ReachAssumption == ScopeSuffices
=============================================================================
