--------------------------- MODULE FrameworkLinks ----------------------------
(***************************************************************************)
(* Routes, services and data models, and how they are linked across files: *)
(* what a framework pack finds in a file is part of the file's subgraph    *)
(* (frameworks/base.py, ingest/pipeline.py), and at the end of a run all   *)
(* links are made anew from the persisted graph (frameworks/extractor.py   *)
(* resolve, orm.py, cross_file.py).  Composed with the part of a refresh   *)
(* they depend on: changed files are upserted or deleted, the resolved     *)
(* edges of their neighbourhood are cleared, the manifest is saved last.   *)
(***************************************************************************)
EXTENDS Integers, FiniteSets

CONSTANTS
  Files,
  Versions,    \* file -> what it may hold: records, see Nodes
  NoFile,
  Segments,    \* file -> the names a dotted reference may address it by
  MaxEdits, MaxCrashes

Class(name) == [kind |-> "class", class |-> "", name |-> name]

\* imports: files; routes: [name, var, class, method], a class of "" where the handler is a
\* function of the file; mounts: [name, var, head, prefix]; services: names of providers;
\* defs: [kind, class, name], the kind "function", "class" or "method"; models: [class, table,
\* framework, relations], a table of "" where none is given, and of a relation [by, to] the
\* "class" or the "table" it names.  A pack gives one node to a method and path, skips it when
\* seen again, and one to a class that is a model; a method stands in its class.
ASSUME VersionsAssumption ==
  \A f \in Files : \A c \in Versions[f] :
    /\ c # NoFile /\ c.imports \subseteq Files
    /\ \A r, s \in c.routes : r.name = s.name => r = s
    /\ \A m, n \in c.models : m.class = n.class => m = n
    /\ \A d \in c.defs : d.class # "" => Class(d.class) \in c.defs
ASSUME BoundsAssumption == MaxEdits \in Nat /\ MaxCrashes \in Nat

VARIABLES
  tree,      \* the working tree
  manifest,  \* meta.json
  content,   \* graph: what each file's subgraph was extracted from
  edges,     \* graph: edges out of the packs' nodes, [src, dst, kind, by]
  attrs,     \* graph: what set_attrs put on a node, <<node, key, value>>
  pc, todo,  \* the run
  found,     \* the edges the present stage is going to add
  edits, crashes
graph == <<content, edges, attrs>>
vars == <<tree, manifest, graph, pc, todo, found, edits, crashes>>

(***************************************************************************)
(* Nodes, as <<file, what, name>>.                                         *)
(***************************************************************************)
\* A method belongs to the class around it; the packs find the rest.
DefNodes(f, c) == {<<f, "def", d>> : d \in c.defs}
RouteNodes(f, c) == {<<f, "route", r.name>> : r \in c.routes}
ServiceNodes(f, c) == {<<f, "service", s>> : s \in c.services}
ModelNodes(f, c) == {<<f, "model", m.class>> : m \in c.models}
NodesOf(f, c) ==
  IF c = NoFile THEN {}
  ELSE DefNodes(f, c) \union RouteNodes(f, c) \union ServiceNodes(f, c) \union ModelNodes(f, c)
ASSUME NodesAssumption == IsFiniteSet(UNION {UNION {NodesOf(f, c) : c \in Versions[f]} : f \in Files})
Nodes(f) == NodesOf(f, content[f])
AllNodes == UNION {Nodes(f) : f \in Files}

Held(f) == content[f] # NoFile
Parsed == {f \in Files : Held(f)}
Imported(f) == {g \in content[f].imports : Held(g)}
Scope(f) == Imported(f) \union {f}

Routes == UNION {{[file |-> f, route |-> r] : r \in content[f].routes} : f \in Parsed}
Mounts == UNION {{[file |-> f, mount |-> m] : m \in content[f].mounts} : f \in Parsed}
Services == UNION {ServiceNodes(f, content[f]) : f \in Parsed}
RouteNode(r) == <<r.file, "route", r.route.name>>

Edge(src, dst, kind, by) == [src |-> src, dst |-> dst, kind |-> kind, by |-> by]

(***************************************************************************)
(* Resolution: one candidate or none.                                      *)
(***************************************************************************)
\* Mistake: of several candidates one is as good as another.
AnyOf(candidates) == IF candidates = {} THEN {} ELSE {CHOOSE x \in candidates : TRUE}
Unique(candidates) == IF Cardinality(candidates) = 1 THEN candidates ELSE {}

\* The routes a mount applies to, in the files it can see; of several files that have its
\* router, the one the reference names.
MountTargets(m) ==
  LET candidates == {r \in Routes : r.file \in Scope(m.file) /\ r.route.var = m.mount.var}
      hit == {r.file : r \in candidates}
      named == {f \in hit : m.mount.head \in Segments[f]}
      files == IF Cardinality(hit) <= 1 THEN hit ELSE Unique(named)
  IN {r \in candidates : r.file \in files}

Prefixes(r) == {m.mount.prefix : m \in {x \in Mounts : x.mount.prefix # "" /\ r \in MountTargets(x)}}

Providers(s) ==
  Unique({n \in AllNodes : n[1] \in Scope(s[1]) /\ n[2] = "def" /\ n[3].name = s[3]})

\* Neither a closure nor a handler that is computed names a controller; one named without
\* a method is invoked itself.
NamesController(r) == r.route.class # ""
Method(r) == IF r.route.method = "" THEN "__invoke" ELSE r.route.method
Pending == {r \in Routes : NamesController(r)}
Classes(name) == {n \in AllNodes : n[2] = "def" /\ n[3].kind = "class" /\ n[3].name = name}
Handler(r) == [kind |-> "method", class |-> r.route.class, name |-> Method(r)]
Handlers(r) ==
  {n \in AllNodes : /\ \E c \in Unique(Classes(r.route.class)) : n[1] = c[1]
                    /\ n[2] = "def" /\ n[3] = Handler(r)}

\* A pack looks among the models of its framework, by class or by table.
Models == UNION {{[file |-> f, model |-> m] : m \in content[f].models} : f \in Parsed}
ModelNode(m) == <<m.file, "model", m.model.class>>
ModelIds == {ModelNode(m) : m \in Models}
Relations == UNION {{[of |-> m, by |-> r.by, to |-> r.to] : r \in m.model.relations} : m \in Models}
MayMean(rel, m) ==
  rel.to # "" /\ m.model.framework = rel.of.model.framework /\ m.model[rel.by] = rel.to
RelationTarget(rel) == Unique({ModelNode(m) : m \in {x \in Models : MayMean(rel, x)}})
Related ==
  UNION {{Edge(ModelNode(rel.of), t, "RELATES_TO", "resolved") : t \in RelationTarget(rel)} : rel \in Relations}

(***************************************************************************)
(* Store transactions: see PropertyGraph.                                  *)
(***************************************************************************)
\* An edge to a definition that is not there is not drawn.
Function(name) == [kind |-> "function", class |-> "", name |-> name]
LocalHandlers(f, c) ==
  {Edge(<<f, "route", r.name>>, <<f, "def", Function(r.method)>>, "HANDLED_BY", "parsed") :
     r \in {x \in c.routes : x.class = "" /\ Function(x.method) \in c.defs}}

\* A subgraph replaces the file's; nodes that stay lose their attributes and the file's
\* edges, nodes that go take every edge with them.
Untouched(f, gone) == {e \in edges : e.src[1] # f /\ e.dst \notin gone}

Replace(f, c) ==
  /\ content' = [content EXCEPT ![f] = c]
  /\ edges' = Untouched(f, Nodes(f) \ NodesOf(f, c))
                \union (IF c = NoFile THEN {} ELSE LocalHandlers(f, c))
  /\ attrs' = {a \in attrs : a[1][1] # f}

\* clear_outgoing
Cleared(nodes, kind) == {e \in edges : e.src \notin nodes \/ e.kind # kind}
SetAttr(node, key, values) ==
  {a \in attrs : a[1] # node \/ a[2] # key} \union {<<node, key, v>> : v \in values}

(***************************************************************************)
(* The user.  No file returns to what the manifest has: see               *)
(* IncrementalIndex for what happens when it does.                         *)
(***************************************************************************)
Edit(f) ==
  /\ pc = "idle" /\ edits < MaxEdits
  /\ \E c \in Versions[f] \union {NoFile} :
       /\ c \notin {tree[f], manifest[f]}
       /\ tree' = [tree EXCEPT ![f] = c]
  /\ edits' = edits + 1
  /\ UNCHANGED <<manifest, graph, pc, todo, found, crashes>>

(***************************************************************************)
(* The run.                                                                *)
(***************************************************************************)
Changed == {f \in Files : tree[f] # manifest[f]}
Importers == {f \in Files : Held(f) /\ content[f].imports \intersect Changed # {}}

Goto(to, items) == pc' = to /\ todo' = items

Begin ==
  /\ pc = "idle" /\ Changed # {}
  /\ Goto("files", Changed)
  /\ UNCHANGED <<tree, manifest, graph, found, edits, crashes>>

ReplaceFile(f) ==
  /\ pc = "files" /\ f \in todo
  /\ Replace(f, tree[f])
  /\ todo' = todo \ {f}
  /\ UNCHANGED <<tree, manifest, pc, found, edits, crashes>>

\* clear_resolved over the neighbourhood.
ClearResolved ==
  /\ pc = "files" /\ todo = {}
  /\ edges' = {e \in edges : e.by = "parsed" \/ e.src[1] \notin Changed \union Importers}
  /\ Goto("relate", {})
  /\ UNCHANGED <<tree, manifest, content, attrs, found, edits, crashes>>

ClearRelations ==
  /\ pc = "relate"
  /\ edges' = Cleared(ModelIds, "RELATES_TO")
  /\ Goto("related", {})
  /\ UNCHANGED <<tree, manifest, content, attrs, found, edits, crashes>>

AddRelations ==
  /\ pc = "related"
  /\ edges' = edges \union Related
  /\ Goto("prefix", Routes)
  /\ UNCHANGED <<tree, manifest, content, attrs, found, edits, crashes>>

\* Every route's path_pattern is written, from its own path; two prefixes are none.
\* Mistake: routes without a prefix are passed over.
SetPrefixOnly(r) ==
  attrs' = IF Unique(Prefixes(r)) = {} THEN attrs ELSE SetAttr(RouteNode(r), "path_pattern", Prefixes(r))
SetPattern(r) == attrs' = SetAttr(RouteNode(r), "path_pattern", Unique(Prefixes(r)))

ComposePrefix(r) ==
  /\ pc = "prefix" /\ r \in todo
  /\ SetPattern(r)
  /\ todo' = todo \ {r}
  /\ UNCHANGED <<tree, manifest, content, edges, pc, found, edits, crashes>>

ClearProviders ==
  /\ pc = "prefix" /\ todo = {}
  /\ edges' = Cleared(Services, "PROVIDED_BY")
  /\ Goto("provide", Services) /\ found' = {}
  /\ UNCHANGED <<tree, manifest, content, attrs, edits, crashes>>

\* provider_symbol is written where there is one.
GroundProvider(s) ==
  /\ pc = "provide" /\ s \in todo
  /\ found' = found \union {Edge(s, p, "PROVIDED_BY", "resolved") : p \in Providers(s)}
  /\ attrs' = IF Providers(s) = {} THEN attrs ELSE SetAttr(s, "provider_symbol", Providers(s))
  /\ todo' = todo \ {s}
  /\ UNCHANGED <<tree, manifest, content, edges, pc, edits, crashes>>

AddProviders ==
  /\ pc = "provide" /\ todo = {}
  /\ edges' = edges \union found
  /\ Goto("handle", {}) /\ found' = {}
  /\ UNCHANGED <<tree, manifest, content, attrs, edits, crashes>>

\* Only routes that name a controller have their HANDLED_BY made here.
Regrounded == Pending

ClearHandlers ==
  /\ pc = "handle"
  /\ edges' = Cleared({RouteNode(r) : r \in Regrounded}, "HANDLED_BY")
  /\ Goto("ground", Pending)
  /\ UNCHANGED <<tree, manifest, content, attrs, found, edits, crashes>>

GroundHandler(r) ==
  /\ pc = "ground" /\ r \in todo
  /\ found' = found \union {Edge(RouteNode(r), h, "HANDLED_BY", "resolved") : h \in Handlers(r)}
  /\ attrs' = SetAttr(RouteNode(r), "handler", Handlers(r))
  /\ todo' = todo \ {r}
  /\ UNCHANGED <<tree, manifest, content, edges, pc, edits, crashes>>

AddHandlers ==
  /\ pc = "ground" /\ todo = {}
  /\ edges' = edges \union found
  /\ Goto("save", {}) /\ found' = {}
  /\ UNCHANGED <<tree, manifest, content, attrs, edits, crashes>>

Save ==
  /\ pc = "save"
  /\ manifest' = tree
  /\ Goto("idle", {})
  /\ UNCHANGED <<tree, graph, found, edits, crashes>>

Crash ==
  /\ pc # "idle" /\ crashes < MaxCrashes
  /\ crashes' = crashes + 1
  /\ Goto("idle", {}) /\ found' = {}
  /\ UNCHANGED <<tree, manifest, graph, edits>>

RunStep ==
  \/ \E f \in Files : ReplaceFile(f)
  \/ ClearResolved \/ ClearRelations \/ AddRelations
  \/ (\E r \in Routes : ComposePrefix(r)) \/ ClearProviders
  \/ (\E s \in Services : GroundProvider(s)) \/ AddProviders
  \/ ClearHandlers \/ (\E r \in Routes : GroundHandler(r)) \/ AddHandlers
  \/ Save

Next == (\E f \in Files : Edit(f)) \/ Begin \/ RunStep \/ Crash

\* Before the first run there is no graph.
Init ==
  /\ tree \in [Files -> UNION {Versions[f] : f \in Files}]
  /\ \A f \in Files : tree[f] \in Versions[f] /\ tree[f] = CHOOSE c \in Versions[f] : TRUE
  /\ manifest = [f \in Files |-> NoFile] /\ content = manifest
  /\ edges = {} /\ attrs = {}
  /\ pc = "idle" /\ todo = {} /\ found = {}
  /\ edits = 0 /\ crashes = 0

Spec == Init /\ [][Next]_vars

(***************************************************************************)
(* What a first run over the tree would have made.                         *)
(***************************************************************************)
Settled == pc = "idle" /\ Changed = {}
Provided == UNION {{Edge(s, p, "PROVIDED_BY", "resolved") : p \in Providers(s)} : s \in Services}
Handled == UNION {{Edge(RouteNode(r), h, "HANDLED_BY", "resolved") : h \in Handlers(r)} : r \in Pending}
FreshEdges == (UNION {LocalHandlers(f, content[f]) : f \in Parsed}) \union Related \union Provided \union Handled
Composed == {<<RouteNode(r), "path_pattern", p>> : r \in {x \in Routes : Cardinality(Prefixes(x)) = 1},
                                                   p \in UNION {Prefixes(x) : x \in Routes}}
FreshPatterns == {a \in Composed : \A r \in Routes : RouteNode(r) = a[1] => a[3] \in Prefixes(r)}
FreshHandlers == {<<e.src, "handler", e.dst>> : e \in Handled}
Attributes(key) == {a \in attrs : a[2] = key}

(***************************************************************************)
(* Properties.                                                             *)
(***************************************************************************)
\* Types: no edge lacks an end, and an attribute has one value on a node that is there.
TypeOK ==
  /\ \A e \in edges : {e.src, e.dst} \subseteq AllNodes
  /\ \A a \in attrs : a[1] \in AllNodes /\ \A b \in attrs : a[1] = b[1] /\ a[2] = b[2] => a = b

\* "an incremental resolve converges to the same graph as a full re-index": the links,
\* the composed paths and the handlers are those of a first run over the same tree,
\* whatever came and went before and wherever earlier runs were killed.
LinksEqualFresh ==
  Settled => /\ content = tree
             /\ edges = FreshEdges
             /\ Attributes("path_pattern") = FreshPatterns /\ Attributes("handler") = FreshHandlers

\* "An ambiguous target is left unresolved, never guessed": nothing else in reach could
\* have been meant; a link between models comes of a relation that fits no other.
NeverGuessed ==
  Settled => \A e \in edges : e.by = "resolved" =>
    CASE e.kind = "PROVIDED_BY" -> \A n \in AllNodes \ {e.dst} :
           ~(n[1] \in Scope(e.src[1]) /\ n[2] = "def" /\ n[3].name = e.dst[3].name)
      [] e.kind = "HANDLED_BY" -> \A n \in AllNodes \ {e.dst} : ~(n[2] = "def" /\ n[3] = e.dst[3])
      [] e.kind = "RELATES_TO" -> \E rel \in Relations :
           ModelNode(rel.of) = e.src /\ \A m \in Models : MayMean(rel, m) => ModelNode(m) = e.dst

(***************************************************************************)
(* What is said of the program and is not so: see README.md.               *)
(***************************************************************************)
\* The same of a service's provider_symbol and its edge, which does not hold.
ProviderSymbolCurrent ==
  Settled => Attributes("provider_symbol") = {<<e.src, "provider_symbol", e.dst>> : e \in Provided}
=============================================================================
