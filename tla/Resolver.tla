------------------------------ MODULE Resolver ------------------------------
(***************************************************************************)
(* Cross-file resolution (ingest/resolver.py, ingest/pack.py): which       *)
(* IMPORTS and CALLS edges the import resolver draws from the extracted    *)
(* files, and which files an incremental refresh re-resolves.              *)
(*                                                                         *)
(* Python ("dotted") packs are modelled.  A path is the sequence of its    *)
(* segments without the extension; the extracted part of a file is a       *)
(* record of the names it defines, the imports it writes and the calls     *)
(* between names.  Everything here is a function of the extracted files.   *)
(* A file imports a name once, and a module key is one file's: where the   *)
(* code keeps the last binding or the first file, there is only one        *)
(* (BindingsAssumption, of the module that has the trees).                 *)
(***************************************************************************)
EXTENDS Integers, Sequences, FiniteSets, SequencesExt

CONSTANTS
  Files,     \* repo-relative paths, each a non-empty sequence of segments
  NoFile     \* stands for "no such file"

(***************************************************************************)
(* An extracted file: [defs    |-> names defined at top level,             *)
(*                     imports |-> set of [dots, mod, names],              *)
(*                     calls   |-> set of <<caller, callee>>].             *)
(* Symbol ids are path plus descriptor, so they survive a re-extraction.   *)
(***************************************************************************)
FileNode(f)  == <<"file", f>>
Symbol(f, n) == <<"symbol", f, n>>
Package(imp) == <<"package", imp.dots, imp.mod>>

FilesIn(g)      == {f \in Files : g[f] # NoFile}
SymbolsOf(f, c) == IF c = NoFile THEN {} ELSE {Symbol(f, n) : n \in c.defs}
SymbolsIn(g, fs) == UNION {SymbolsOf(f, g[f]) : f \in fs}

IsInit(p) == Last(p) = "__init__"

\* A package directory whose parent is not one is a package root; the parent
\* is a source root when it is not the repository itself.
SourceRoots(g) ==
  LET pkgDirs == {Front(f) : f \in {p \in FilesIn(g) : IsInit(p)}}
  IN  {Front(d) : d \in {e \in pkgDirs : Front(e) \notin pkgDirs}} \ {<<>>}

StripRoot(p, roots) ==
  LET above == {r \in roots : IsStrictPrefix(r, p)}
  IN  IF above = {} THEN p
      ELSE LET root == CHOOSE r \in above : \A s \in above : Len(s) <= Len(r)
           IN  SubSeq(p, Len(root) + 1, Len(p))

ModulePath(p) == IF IsInit(p) THEN Front(p) ELSE p

\* file_module: the key a file is imported as, source root stripped.
ModuleOf(g, f) == ModulePath(StripRoot(f, SourceRoots(g)))

\* A relative import is taken against the importer's own module: one dot is
\* its package, each further dot one level up (all levels when too many).
ResolveImport(p, imp, importerModule) ==
  IF imp.dots = 0 THEN imp.mod
  ELSE LET own == IF IsInit(p) \/ importerModule = <<>> THEN importerModule
                  ELSE Front(importerModule)
           up  == imp.dots - 1
       IN  (IF up > Len(own) THEN <<>> ELSE SubSeq(own, 1, Len(own) - up)) \o imp.mod

FilesOf(g, key) == {f \in FilesIn(g) : ModuleOf(g, f) = key}
Exported(g, key, n) ==
  {Symbol(f, n) : f \in {h \in FilesOf(g, key) : n \in g[h].defs}}

(***************************************************************************)
(* Re-exports: a package __init__ that imports names from a module makes   *)
(* them importable from the package; a fixpoint over the __init__ files.   *)
(***************************************************************************)
InitImports(g) ==
  UNION {{[key  |-> ModuleOf(g, f), names |-> imp.names,
           from |-> ResolveImport(f, imp, ModuleOf(g, f))] : imp \in g[f].imports}
         : f \in {p \in FilesIn(g) : IsInit(p)}}

\* What name n of module key denotes, given the re-exports R found so far.
Target(g, R, key, n) ==
  IF Exported(g, key, n) # {} THEN Exported(g, key, n)
  ELSE {r.target : r \in {s \in R : s.key = key /\ s.name = n}}

\* One pass over the imports of the __init__ files.
Found(g, links, R) ==
  UNION {UNION {{[key |-> l.key, name |-> n, target |-> t] : t \in Target(g, R, l.from, n)}
                : n \in l.names} : l \in links}

Reexports(g) ==
  LET links == InitImports(g)
      round[k \in Nat] == IF k = 0 THEN {} ELSE round[k - 1] \union Found(g, links, round[k - 1])
  IN  round[Cardinality(links) + 1]

\* ... and for an importer.
Provided(g, key, n) == Target(g, Reexports(g), key, n)

(***************************************************************************)
(* Edges.  Every resolved edge is owned by the file of its source.         *)
(***************************************************************************)
Edge(f, src, kind, dst) == [src |-> src, dst |-> dst, kind |-> kind, origin |-> f]

KeyOf(g, f, imp) == ResolveImport(f, imp, ModuleOf(g, f))
InRepo(g, f, imp) == FilesOf(g, KeyOf(g, f, imp)) # {}

ImportTargets(g, f, imp) ==
  LET key == KeyOf(g, f, imp)
      submodules == {n \in imp.names : Provided(g, key, n) = {}}
  IN  IF ~InRepo(g, f, imp) THEN {Package(imp)}
      ELSE {FileNode(h) : h \in FilesOf(g, key)
                            \union UNION {FilesOf(g, Append(key, n)) : n \in submodules}}

\* local definition first, then what the file's imports bind the name to.
CallTargets(g, f, n) ==
  IF n \in g[f].defs THEN {Symbol(f, n)}
  ELSE UNION {Provided(g, KeyOf(g, f, imp), n)
              : imp \in {i \in g[f].imports : n \in i.names /\ InRepo(g, f, i)}}

ImportEdges(g, f) ==
  UNION {{Edge(f, FileNode(f), "IMPORTS", t) : t \in ImportTargets(g, f, imp)}
         : imp \in g[f].imports}
CallEdges(g, f) ==
  UNION {{Edge(f, Symbol(f, call[1]), "CALLS", t) : t \in CallTargets(g, f, call[2])}
         : call \in g[f].calls}

\* resolve(changed_files = scope): edges only for the scope, but a Package
\* stub for every external import of every file.
ResolvedEdges(g, scope) == UNION {ImportEdges(g, f) \union CallEdges(g, f) : f \in scope \intersect FilesIn(g)}
ExternalsUntyped(g) ==      \* mistake: a stub that is no Package
  UNION {{FileNode(imp.mod) : imp \in {i \in g[f].imports : ~InRepo(g, f, i)}} : f \in FilesIn(g)}
Externals(g) ==
  UNION {{Package(imp) : imp \in {i \in g[f].imports : ~InRepo(g, f, i)}} : f \in FilesIn(g)}

(***************************************************************************)
(* The re-resolve scope of a refresh: the changed files and their          *)
(* importers, hops levels out, matched by module keys.  The keys are the   *)
(* indexer's own: no source root is stripped, and a relative import is     *)
(* taken against an empty importer module.                                 *)
(***************************************************************************)
ImportKeys(g, f) == {ResolveImport(f, imp, <<>>) : imp \in g[f].imports}

\* Mistake: one hop whatever the setting.
ScopeOneHop(g, changed, hops) ==
  changed \union {f \in FilesIn(g) : ImportKeys(g, f) \intersect {ModulePath(h) : h \in changed} # {}}

\* One hop further.
Widen(g, last) ==
  LET importers == {f \in FilesIn(g) \ last.scope : ImportKeys(g, f) \intersect last.frontier # {}}
  IN  [scope |-> last.scope \union importers, frontier |-> {ModulePath(f) : f \in importers}]

ResolveScope(g, changed, hops) ==
  LET reach[k \in Nat] ==
        IF k = 0 THEN [scope |-> changed, frontier |-> {ModulePath(f) : f \in changed}]
        ELSE Widen(g, reach[k - 1])
  IN  reach[hops].scope
=============================================================================
