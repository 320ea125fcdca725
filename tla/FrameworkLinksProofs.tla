------------------------ MODULE FrameworkLinksProofs ------------------------
(***************************************************************************)
(* A refresh leaves the links, composed paths and handlers of a first run, *)
(* and none of them is guessed, for every set of files and versions and    *)
(* every order of edits, runs and kills.                                   *)
(***************************************************************************)
EXTENDS FrameworkLinks, FiniteSetTheorems, TLAPS

(***************************************************************************)
(* The invariant: what each stage of a run has put right.                  *)
(***************************************************************************)
Local == UNION {LocalHandlers(f, content[f]) : f \in Parsed}
PendingNodes == {RouteNode(r) : r \in Pending}

LinksOf(kind) == {e \in edges \ Local : e.kind = kind}
Has(node, key, values) == {a \in attrs : a[1] = node /\ a[2] = key} = {<<node, key, v>> : v \in values}

ProvidedTo(services) == UNION {{Edge(s, p, "PROVIDED_BY", "resolved") : p \in Providers(s)} : s \in services}
HandledFor(routes) == UNION {{Edge(RouteNode(r), h, "HANDLED_BY", "resolved") : h \in Handlers(r)} : r \in routes}
PatternsOf(routes) == \A r \in routes : Has(RouteNode(r), "path_pattern", Unique(Prefixes(r)))
HandlersOf(routes) == \A r \in routes : Has(RouteNode(r), "handler", Handlers(r))

\* A file the manifest knows as it is was extracted as it is; from the end of the first
\* stage on every file was, and until the end something is to be saved.
FilesInv ==
  /\ tree = [f \in Files |-> tree[f]] /\ manifest = [f \in Files |-> manifest[f]]
  /\ content = [f \in Files |-> content[f]]
  /\ \A f \in Files : tree[f] \in Versions[f] \union {NoFile} /\ content[f] \in Versions[f] \union {NoFile}
  /\ \A f \in Files : tree[f] = manifest[f] => content[f] = tree[f]
  /\ pc # "idle" => Changed # {}
  /\ pc = "files" => \A f \in Files \ todo : content[f] = tree[f]
  /\ pc \notin {"idle", "files"} => content = tree

\* Every edge out of a node of the packs is of its file's extraction or a link of its kind.
EdgesInv ==
  /\ Local \subseteq edges
  /\ \A e \in edges \ Local :
       \/ e.kind = "RELATES_TO" /\ e.src \in ModelIds
       \/ e.kind = "PROVIDED_BY" /\ e.src \in Services
       \/ e.kind = "HANDLED_BY" /\ e.src \in PendingNodes

AttrsInv ==
  \A a \in attrs : /\ a = <<a[1], a[2], a[3]>>
                   /\ a[2] = "path_pattern" => \E r \in Routes : a[1] = RouteNode(r)
                   /\ a[2] = "handler" => a[1] \in PendingNodes


RelationsInv ==
  /\ pc = "related" => LinksOf("RELATES_TO") = {}
  /\ pc \in {"prefix", "provide", "handle", "ground", "save"} \/ Settled => LinksOf("RELATES_TO") = Related

PatternsInv ==
  /\ pc = "prefix" => PatternsOf(Routes \ todo)
  /\ pc \in {"provide", "handle", "ground", "save"} \/ Settled => PatternsOf(Routes)

ProvidersInv ==
  /\ pc = "provide" => LinksOf("PROVIDED_BY") = {} /\ found = ProvidedTo(Services \ todo)
  /\ pc \in {"handle", "ground", "save"} \/ Settled => LinksOf("PROVIDED_BY") = Provided

HandlersInv ==
  /\ pc = "handle" => found = {}
  /\ pc = "ground" => /\ LinksOf("HANDLED_BY") = {} /\ todo \subseteq Pending
                      /\ found = HandledFor(Pending \ todo) /\ HandlersOf(Pending \ todo)
  /\ pc = "save" \/ Settled => LinksOf("HANDLED_BY") = Handled /\ HandlersOf(Pending)

LinksInv ==
  FilesInv /\ EdgesInv /\ AttrsInv /\ RelationsInv /\ PatternsInv /\ ProvidersInv /\ HandlersInv

(***************************************************************************)
(* What is derived from the subgraphs stays while the subgraphs do.        *)
(***************************************************************************)
LEMMA SameNodes ==
  ASSUME content' = content
  PROVE  /\ Parsed' = Parsed /\ AllNodes' = AllNodes /\ Routes' = Routes /\ Services' = Services
         /\ ModelIds' = ModelIds /\ Pending' = Pending /\ PendingNodes' = PendingNodes /\ Local' = Local
<1>1. Parsed' = Parsed /\ AllNodes' = AllNodes
  BY DEF Parsed, Held, AllNodes, Nodes
<1>2. Routes' = Routes /\ Services' = Services /\ ModelIds' = ModelIds /\ Local' = Local
  BY <1>1 DEF Routes, Services, ModelIds, Models, ModelNode, Local
<1> QED BY <1>1, <1>2 DEF Pending, PendingNodes, RouteNode

LEMMA SameLinks ==
  ASSUME content' = content
  PROVE  /\ Related' = Related /\ Provided' = Provided /\ Handled' = Handled
         /\ \A r : Prefixes(r)' = Prefixes(r) /\ Handlers(r)' = Handlers(r)
         /\ \A S : ProvidedTo(S)' = ProvidedTo(S) /\ HandledFor(S)' = HandledFor(S)
<1>1. Related' = Related
  BY DEF Related, Relations, RelationTarget, MayMean, Models, ModelNode, Unique, Edge, Parsed, Held
<1>2. Provided' = Provided /\ \A S : ProvidedTo(S)' = ProvidedTo(S)
  BY DEF Provided, ProvidedTo, Providers, Services, Scope, Imported, AllNodes, Nodes, Unique, Edge, Parsed, Held
<1>3. \A r : Prefixes(r)' = Prefixes(r)
  BY DEF Prefixes, MountTargets, Routes, Mounts, Scope, Imported, Unique, Parsed, Held
<1>4. \A r : Handlers(r)' = Handlers(r)
  BY DEF Handlers, Handler, Method, Classes, AllNodes, Nodes, Unique, Parsed, Held
<1>5. Handled' = Handled /\ \A S : HandledFor(S)' = HandledFor(S)
  BY DEF Handled, HandledFor, Handlers, Handler, Method, Classes, AllNodes, Nodes, Unique, Edge, Parsed, Held,
         Pending, Routes, RouteNode
<1> QED BY <1>1, <1>2, <1>3, <1>4, <1>5

(***************************************************************************)
(* What the links are made of.                                             *)
(***************************************************************************)
LEMMA RouteShape ==
  /\ \A f \in Parsed : \A x \in content[f].routes : [file |-> f, route |-> x] \in Routes
  /\ \A r \in Routes : /\ r = [file |-> r.file, route |-> r.route]
                       /\ r.file \in Parsed /\ r.route \in content[r.file].routes
<1>1. ASSUME NEW f \in Parsed, NEW x \in content[f].routes
      PROVE  [file |-> f, route |-> x] \in Routes
  <2>1. [file |-> f, route |-> x] \in {[file |-> f, route |-> r] : r \in content[f].routes}
    OBVIOUS
  <2> QED BY <2>1, Zenon DEF Routes
<1>2. ASSUME NEW r \in Routes
      PROVE  r = [file |-> r.file, route |-> r.route] /\ r.file \in Parsed /\ r.route \in content[r.file].routes
  <2>1. PICK f, x : f \in Parsed /\ x \in content[f].routes /\ r = [file |-> f, route |-> x]
    BY DEF Routes
  <2> QED BY <2>1
<1> QED BY <1>1, <1>2

LocalEdge(f, x) ==
  Edge(<<f, "route", x.name>>, <<f, "def", Function(x.method)>>, "HANDLED_BY", "parsed")

LEMMA LocalEdges ==
  \A f, c : \A e \in LocalHandlers(f, c) : \E x \in c.routes : x.class = "" /\ e = LocalEdge(f, x)
BY DEF LocalHandlers, LocalEdge, Edge

LEMMA LocalEnds ==
  \A f, c : \A e \in LocalHandlers(f, c) : e.src[1] = f /\ e.dst[1] = f
<1> SUFFICES ASSUME NEW f, NEW c, NEW e \in LocalHandlers(f, c) PROVE e.src[1] = f /\ e.dst[1] = f
  OBVIOUS
<1>1. PICK x \in c.routes : e = LocalEdge(f, x)
  BY LocalEdges
<1> QED BY <1>1 DEF LocalEdge, Edge

LEMMA LocalShape ==
  ASSUME NEW e \in Local
  PROVE  /\ e.kind = "HANDLED_BY" /\ e.by = "parsed"
         /\ \E r \in Routes : r.route.class = "" /\ e.src = RouteNode(r)
<1>1. PICK f \in Parsed : e \in LocalHandlers(f, content[f])
  BY DEF Local
<1>2. PICK x \in content[f].routes : x.class = "" /\ e = LocalEdge(f, x)
  BY <1>1, LocalEdges
<1>3. [file |-> f, route |-> x] \in Routes
  BY RouteShape
<1>4. RouteNode([file |-> f, route |-> x]) = <<f, "route", x.name>>
  BY DEF RouteNode
<1> QED BY <1>2, <1>3, <1>4 DEF LocalEdge, Edge

LEMMA OneRoute ==
  ASSUME FilesInv, NEW r \in Routes, NEW s \in Routes, RouteNode(r) = RouteNode(s)
  PROVE  r = s
<1>1. r.file = s.file /\ r.route.name = s.route.name
  BY DEF RouteNode
<1>2. /\ r = [file |-> r.file, route |-> r.route] /\ s = [file |-> s.file, route |-> s.route]
      /\ r.file \in Parsed /\ {r.route, s.route} \subseteq content[r.file].routes
  BY <1>1, RouteShape
<1>3. content[r.file] \in Versions[r.file] /\ r.file \in Files
  BY <1>2 DEF FilesInv, Parsed, Held
<1>4. r.route = s.route
  BY <1>1, <1>2, <1>3, VersionsAssumption
<1> QED BY <1>1, <1>2, <1>4

LEMMA LocalNotPending ==
  ASSUME FilesInv, NEW e \in Local
  PROVE  e.src \notin PendingNodes
BY LocalShape, OneRoute DEF PendingNodes, Pending, NamesController

LEMMA RelatedShape ==
  ASSUME FilesInv, NEW e \in Related
  PROVE  e.kind = "RELATES_TO" /\ e.by = "resolved" /\ e.src \in ModelIds /\ e \notin Local
<1>1. PICK rel, t : rel \in Relations /\ t \in RelationTarget(rel) /\ e = Edge(ModelNode(rel.of), t, "RELATES_TO", "resolved")
  BY DEF Related
<1>2. rel.of \in Models
  BY <1>1 DEF Relations
<1>3. ModelNode(rel.of) \in ModelIds
  BY <1>2 DEF ModelIds
<1> QED BY <1>1, <1>3, LocalShape DEF Edge

LEMMA ProvidedShape ==
  ASSUME NEW e \in ProvidedTo(Services)
  PROVE  e.kind = "PROVIDED_BY" /\ e.by = "resolved" /\ e.src \in Services /\ e \notin Local
<1>1. PICK s, p : s \in Services /\ e = Edge(s, p, "PROVIDED_BY", "resolved")
  BY DEF ProvidedTo
<1> QED BY <1>1, LocalShape DEF Edge

LEMMA HandledShape ==
  ASSUME NEW e \in HandledFor(Pending)
  PROVE  e.kind = "HANDLED_BY" /\ e.by = "resolved" /\ e.src \in PendingNodes /\ e \notin Local
<1>1. PICK r, h : r \in Pending /\ e = Edge(RouteNode(r), h, "HANDLED_BY", "resolved")
  BY DEF HandledFor
<1> QED BY <1>1, LocalShape DEF Edge, PendingNodes

(***************************************************************************)
(* The files of a run.                                                     *)
(***************************************************************************)
LEMMA RouteIn ==
  \A f, r : f \in Parsed' /\ r \in {[file |-> f, route |-> x] : x \in content'[f].routes} => r \in Routes'
BY DEF Routes

\* A file whose subgraph is replaced has no part in what is of other files.
LEMMA OtherFiles ==
  ASSUME FilesInv, NEW f \in Files, NEW c, content' = [content EXCEPT ![f] = c]
  PROVE  /\ \A n \in ModelIds : n[1] # f => n \in ModelIds'
         /\ \A n \in Services : n[1] # f => n \in Services'
         /\ \A r \in Routes : r.file # f => r \in Routes'
         /\ \A n \in PendingNodes : n[1] # f => n \in PendingNodes'
<1>1. \A g \in Files \ {f} : content'[g] = content[g] /\ (g \in Parsed <=> g \in Parsed')
  BY DEF FilesInv, Parsed, Held
<1>2. \A g \in Files : \A n \in Nodes(g) : n[1] = g
  BY DEF Nodes, NodesOf, DefNodes, RouteNodes, ServiceNodes, ModelNodes
<1>3. ASSUME NEW n \in ModelIds, n[1] # f PROVE n \in ModelIds'
  <2>1. PICK m \in Models : n = ModelNode(m)
    BY DEF ModelIds
  <2>2. PICK g \in Parsed : m \in {[file |-> g, model |-> x] : x \in content[g].models}
    BY <2>1 DEF Models
  <2>3. g # f /\ g \in Files
    BY <1>3, <2>1, <2>2 DEF ModelNode, Parsed
  <2>4. m \in {[file |-> g, model |-> x] : x \in content'[g].models} /\ g \in Parsed'
    BY <1>1, <2>2, <2>3
  <2>5. m \in Models'
    BY <2>4 DEF Models
  <2> QED BY <2>1, <2>5 DEF ModelIds, ModelNode
<1>4. ASSUME NEW n \in Services, n[1] # f PROVE n \in Services'
  <2>1. PICK g \in Parsed : n \in ServiceNodes(g, content[g])
    BY DEF Services
  <2>2. g # f /\ g \in Files
    BY <1>4, <2>1 DEF ServiceNodes, Parsed
  <2> QED BY <1>1, <2>1, <2>2 DEF Services
<1>5. ASSUME NEW r \in Routes, r.file # f PROVE r \in Routes'
  <2>1. r.file \in Parsed /\ r.file \in Files /\ r.route \in content[r.file].routes /\ r = [file |-> r.file, route |-> r.route]
    BY RouteShape DEF Parsed
  <2>2. r.file \in Parsed' /\ r.route \in content'[r.file].routes
    BY <1>1, <1>5, <2>1
  <2>3. r \in {[file |-> r.file, route |-> x] : x \in content'[r.file].routes}
    BY <2>1, <2>2
  <2> QED BY <2>2, <2>3, RouteIn
<1>6. ASSUME NEW n \in PendingNodes, n[1] # f PROVE n \in PendingNodes'
  <2>1. PICK r \in Pending : n = RouteNode(r)
    BY DEF PendingNodes
  <2>2. r \in Routes'
    BY <1>5, <1>6, <2>1 DEF Pending, RouteNode
  <2> QED BY <2>1, <2>2 DEF PendingNodes, Pending, NamesController, RouteNode
<1> QED BY <1>3, <1>4, <1>5, <1>6

LEMMA NothingYet ==
  ASSUME pc' \in {"files", "relate"} \/ (pc' = "idle" /\ ~Settled')
  PROVE  RelationsInv' /\ PatternsInv' /\ ProvidersInv' /\ HandlersInv'
BY DEF RelationsInv, PatternsInv, ProvidersInv, HandlersInv, Settled

LEMMA ReplaceFileKeeps ==
  ASSUME LinksInv, NEW f \in Files, ReplaceFile(f)
  PROVE  LinksInv'
<1>1. /\ FilesInv /\ EdgesInv /\ AttrsInv /\ pc = "files" /\ pc' = "files" /\ f \in todo
      /\ content' = [content EXCEPT ![f] = tree[f]] /\ UNCHANGED <<tree, manifest>> /\ todo' = todo \ {f}
      /\ attrs' = {a \in attrs : a[1][1] # f}
      /\ edges' = Untouched(f, Nodes(f) \ NodesOf(f, tree[f]))
                    \union (IF tree[f] = NoFile THEN {} ELSE LocalHandlers(f, tree[f]))
  BY DEF LinksInv, ReplaceFile, Replace
<1>2. content'[f] = tree[f] /\ \A g \in Files \ {f} : content'[g] = content[g]
  BY <1>1 DEF FilesInv
<1>3. FilesInv'
  <2>1. content' = [g \in Files |-> content'[g]]
    BY <1>1 DEF FilesInv
  <2>2. Changed' = Changed
    BY <1>1 DEF Changed
  <2>3. /\ tree' = [g \in Files |-> tree'[g]] /\ manifest' = [g \in Files |-> manifest'[g]]
        /\ \A g \in Files : /\ tree'[g] \in Versions[g] \union {NoFile}
                            /\ content'[g] \in Versions[g] \union {NoFile}
                            /\ tree'[g] = manifest'[g] => content'[g] = tree'[g]
    BY <1>1, <1>2 DEF FilesInv
  <2>4. \A g \in Files \ todo' : content'[g] = tree'[g]
    BY <1>1, <1>2 DEF FilesInv
  <2> QED BY <1>1, <2>1, <2>2, <2>3, <2>4 DEF FilesInv
<1>4. \A e \in edges : e \in Local => \E g \in Parsed : e \in LocalHandlers(g, content[g]) /\ e.src[1] = g /\ e.dst[1] = g
  <2>1. SUFFICES ASSUME NEW e \in Local
                 PROVE  \E g \in Parsed : e \in LocalHandlers(g, content[g]) /\ e.src[1] = g /\ e.dst[1] = g
    OBVIOUS
  <2>2. PICK g \in Parsed : e \in LocalHandlers(g, content[g])
    BY DEF Local
  <2> QED BY <2>2, LocalEnds
<1>5. \A n \in Nodes(f) : n[1] = f
  BY DEF Nodes, NodesOf, DefNodes, RouteNodes, ServiceNodes, ModelNodes
<1>6. EdgesInv'
  <2>1. ASSUME NEW e \in Local' PROVE e \in edges'
    <3>1. PICK g \in Parsed' : e \in LocalHandlers(g, content'[g])
      BY DEF Local
    <3>2. CASE g = f
      BY <1>1, <1>2, <3>1, <3>2 DEF Parsed, Held
    <3>3. CASE g # f
      <4>1. g \in Parsed /\ e \in LocalHandlers(g, content[g])
        BY <1>2, <3>1, <3>3 DEF Parsed, Held
      <4>2. e \in Local
        BY <4>1 DEF Local
      <4>3. e.src[1] = g /\ e.dst[1] = g
        BY <4>1, LocalEnds
      <4> QED BY <1>1, <1>5, <3>3, <4>2, <4>3 DEF EdgesInv, Untouched
    <3> QED BY <3>2, <3>3
  <2>2. ASSUME NEW e \in edges' \ Local'
        PROVE  \/ e.kind = "RELATES_TO" /\ e.src \in ModelIds'
               \/ e.kind = "PROVIDED_BY" /\ e.src \in Services'
               \/ e.kind = "HANDLED_BY" /\ e.src \in PendingNodes'
    <3>1. e \notin LocalHandlers(f, tree[f]) \/ tree[f] = NoFile
      <4>1. tree[f] # NoFile => f \in Parsed'
        BY <1>2 DEF Parsed, Held
      <4> QED BY <1>2, <2>2, <4>1 DEF Local
    <3>2. e \in edges /\ e.src[1] # f
      BY <1>1, <2>2, <3>1 DEF Untouched
    <3>3. e \notin Local
      <4>1. SUFFICES ASSUME NEW g \in Parsed, e \in LocalHandlers(g, content[g]), e.src[1] = g PROVE FALSE
        BY <1>4, <3>2
      <4>2. g \in Parsed' /\ e \in LocalHandlers(g, content'[g])
        BY <1>2, <3>2, <4>1 DEF Parsed, Held
      <4> QED BY <2>2, <4>2 DEF Local
    <3> QED BY <1>1, <3>2, <3>3, OtherFiles DEF EdgesInv
  <2> QED BY <2>1, <2>2 DEF EdgesInv
<1>7. AttrsInv'
  <2>1. ASSUME NEW a \in attrs', NEW r \in Routes, a[1] = RouteNode(r) PROVE r \in Routes'
    <3>1. r.file # f
      BY <1>1, <2>1 DEF RouteNode
    <3> QED BY <1>1, <3>1, OtherFiles
  <2>2. ASSUME NEW a \in attrs', a[1] \in PendingNodes PROVE a[1] \in PendingNodes'
    BY <1>1, <2>2, OtherFiles
  <2>3. \A a \in attrs' : a \in attrs
    BY <1>1
  <2> QED BY <1>1, <2>1, <2>2, <2>3 DEF AttrsInv, RouteNode
<1>8. RelationsInv' /\ PatternsInv' /\ ProvidersInv' /\ HandlersInv'
  BY <1>1, NothingYet
<1> QED BY <1>3, <1>6, <1>7, <1>8 DEF LinksInv

LEMMA EditKeeps ==
  ASSUME LinksInv, NEW f \in Files, Edit(f)
  PROVE  LinksInv'
<1>1. PICK c \in Versions[f] \union {NoFile} : c \notin {tree[f], manifest[f]} /\ tree' = [tree EXCEPT ![f] = c]
  BY DEF Edit
<1>2. FilesInv /\ EdgesInv /\ AttrsInv /\ pc = "idle" /\ pc' = "idle" /\ UNCHANGED <<manifest, content, edges, attrs>>
  BY DEF LinksInv, Edit, graph
<1>3. tree'[f] = c /\ \A g \in Files \ {f} : tree'[g] = tree[g]
  BY <1>1, <1>2 DEF FilesInv
<1>4. f \in Changed'
  BY <1>1, <1>2, <1>3 DEF Changed
<1>5. FilesInv'
  <2>1. tree' = [g \in Files |-> tree'[g]]
    BY <1>1, <1>2 DEF FilesInv
  <2> QED BY <1>1, <1>2, <1>3, <2>1 DEF FilesInv
<1>6. EdgesInv' /\ AttrsInv'
  BY <1>2, SameNodes DEF EdgesInv, AttrsInv, RouteNode
<1>7. RelationsInv' /\ PatternsInv' /\ ProvidersInv' /\ HandlersInv'
  BY <1>2, <1>4, NothingYet DEF Settled
<1> QED BY <1>5, <1>6, <1>7 DEF LinksInv

LEMMA BeginKeeps ==
  ASSUME LinksInv, Begin
  PROVE  LinksInv'
<1>1. /\ FilesInv /\ EdgesInv /\ AttrsInv /\ Changed # {}
      /\ pc' = "files" /\ todo' = Changed /\ UNCHANGED <<tree, manifest, content, edges, attrs>>
  BY DEF LinksInv, Begin, Goto, graph
<1>2. FilesInv'
  BY <1>1 DEF FilesInv, Changed
<1>3. EdgesInv' /\ AttrsInv'
  BY <1>1, SameNodes DEF EdgesInv, AttrsInv, RouteNode
<1>4. RelationsInv' /\ PatternsInv' /\ ProvidersInv' /\ HandlersInv'
  BY <1>1, NothingYet
<1> QED BY <1>2, <1>3, <1>4 DEF LinksInv

LEMMA CrashKeeps ==
  ASSUME LinksInv, Crash
  PROVE  LinksInv'
<1>1. /\ FilesInv /\ EdgesInv /\ AttrsInv /\ pc # "idle"
      /\ pc' = "idle" /\ UNCHANGED <<tree, manifest, content, edges, attrs>>
  BY DEF LinksInv, Crash, Goto, graph
<1>2. FilesInv' /\ Changed' # {}
  BY <1>1 DEF FilesInv, Changed
<1>3. EdgesInv' /\ AttrsInv'
  BY <1>1, SameNodes DEF EdgesInv, AttrsInv, RouteNode
<1>4. RelationsInv' /\ PatternsInv' /\ ProvidersInv' /\ HandlersInv'
  BY <1>1, <1>2, NothingYet DEF Settled
<1> QED BY <1>2, <1>3, <1>4 DEF LinksInv

LEMMA ClearResolvedKeeps ==
  ASSUME LinksInv, ClearResolved
  PROVE  LinksInv'
<1>1. /\ FilesInv /\ EdgesInv /\ AttrsInv /\ pc = "files" /\ todo = {}
      /\ pc' = "relate" /\ UNCHANGED <<tree, manifest, content, attrs>>
      /\ edges' = {e \in edges : e.by = "parsed" \/ e.src[1] \notin Changed \union Importers}
  BY DEF LinksInv, ClearResolved, Goto
<1>2. FilesInv'
  <2>1. content = tree
    BY <1>1 DEF FilesInv
  <2> QED BY <1>1, <2>1 DEF FilesInv, Changed
<1>3. Local \subseteq edges'
  BY <1>1, LocalShape DEF EdgesInv
<1>4. EdgesInv' /\ AttrsInv'
  BY <1>1, <1>3, SameNodes DEF EdgesInv, AttrsInv, RouteNode
<1>5. RelationsInv' /\ PatternsInv' /\ ProvidersInv' /\ HandlersInv'
  BY <1>1, NothingYet
<1> QED BY <1>2, <1>4, <1>5 DEF LinksInv

(***************************************************************************)
(* Stages that clear links, add links or write attributes.                 *)
(***************************************************************************)
LEMMA StageFiles ==
  ASSUME LinksInv, pc \notin {"idle", "files"}, pc' \notin {"idle", "files"},
         UNCHANGED <<tree, manifest, content>>
  PROVE  FilesInv' /\ ~Settled'
BY DEF LinksInv, FilesInv, Changed, Settled

LEMMA SameEdges ==
  ASSUME EdgesInv, UNCHANGED <<content, edges>>
  PROVE  EdgesInv' /\ \A k : LinksOf(k)' = LinksOf(k)
BY SameNodes DEF EdgesInv, LinksOf

LEMMA SameAttrs ==
  ASSUME AttrsInv, UNCHANGED <<content, attrs>>
  PROVE  AttrsInv' /\ \A S : (PatternsOf(S)' <=> PatternsOf(S)) /\ (HandlersOf(S)' <=> HandlersOf(S))
<1>1. AttrsInv'
  BY SameNodes DEF AttrsInv, RouteNode
<1> QED BY <1>1, SameLinks DEF PatternsOf, HandlersOf, Has, RouteNode

LEMMA ClearedLinks ==
  ASSUME EdgesInv, content' = content, NEW nodes, NEW kind, edges' = Cleared(nodes, kind),
         \A e \in Local : e.kind = kind => e.src \notin nodes
  PROVE  /\ EdgesInv'
         /\ \A k : k # kind => LinksOf(k)' = LinksOf(k)
         /\ LinksOf(kind)' = {e \in LinksOf(kind) : e.src \notin nodes}
BY SameNodes DEF EdgesInv, LinksOf, Cleared

LEMMA AddedLinks ==
  ASSUME EdgesInv, content' = content, NEW kind, NEW S, edges' = edges \union S,
         \A e \in S : /\ e \notin Local /\ e.kind = kind
                      /\ \/ kind = "RELATES_TO" /\ e.src \in ModelIds
                         \/ kind = "PROVIDED_BY" /\ e.src \in Services
                         \/ kind = "HANDLED_BY" /\ e.src \in PendingNodes
  PROVE  /\ EdgesInv'
         /\ \A k : k # kind => LinksOf(k)' = LinksOf(k)
         /\ LinksOf(kind)' = LinksOf(kind) \union S
BY SameNodes DEF EdgesInv, LinksOf

LEMMA SetAttrs ==
  ASSUME AttrsInv, content' = content, NEW node, NEW key, NEW values, attrs' = SetAttr(node, key, values),
         key = "path_pattern" => \E r \in Routes : node = RouteNode(r),
         key = "handler" => node \in PendingNodes
  PROVE  /\ AttrsInv'
         /\ {a \in attrs' : a[1] = node /\ a[2] = key} = {<<node, key, v>> : v \in values}
         /\ \A n, k : n # node \/ k # key =>
              {a \in attrs' : a[1] = n /\ a[2] = k} = {a \in attrs : a[1] = n /\ a[2] = k}
<1>1. \A v : <<node, key, v>>[1] = node /\ <<node, key, v>>[2] = key
             /\ <<node, key, v>> = <<<<node, key, v>>[1], <<node, key, v>>[2], <<node, key, v>>[3]>>
  OBVIOUS
<1>2. \A a : a \in attrs' <=> (a \in attrs /\ (a[1] # node \/ a[2] # key)) \/ \E v \in values : a = <<node, key, v>>
  BY DEF SetAttr
<1>3. AttrsInv'
  <2>1. SUFFICES ASSUME NEW a \in attrs'
        PROVE  /\ a = <<a[1], a[2], a[3]>>
               /\ a[2] = "path_pattern" => \E r \in Routes : a[1] = RouteNode(r)
               /\ a[2] = "handler" => a[1] \in PendingNodes
    BY SameNodes DEF AttrsInv, RouteNode
  <2>2. CASE a \in attrs
    BY <2>2 DEF AttrsInv
  <2>3. CASE \E v \in values : a = <<node, key, v>>
    BY <1>1, <2>3
  <2> QED BY <1>2, <2>1, <2>2, <2>3
<1> QED BY <1>1, <1>2, <1>3

LEMMA ClearRelationsKeeps ==
  ASSUME LinksInv, ClearRelations
  PROVE  LinksInv'
<1>1. /\ FilesInv /\ EdgesInv /\ AttrsInv /\ pc = "relate" /\ pc' = "related"
      /\ UNCHANGED <<tree, manifest, content, attrs>> /\ edges' = Cleared(ModelIds, "RELATES_TO")
  BY DEF LinksInv, ClearRelations, Goto
<1>2. FilesInv' /\ ~Settled' /\ AttrsInv'
  BY <1>1, StageFiles, SameAttrs
<1>3. EdgesInv' /\ LinksOf("RELATES_TO")' = {e \in LinksOf("RELATES_TO") : e.src \notin ModelIds}
  <2>1. \A e \in Local : e.kind # "RELATES_TO"
    BY LocalShape
  <2> QED BY <1>1, <2>1, ClearedLinks
<1>4. LinksOf("RELATES_TO")' = {}
  BY <1>1, <1>3 DEF EdgesInv, LinksOf
<1> QED BY <1>1, <1>2, <1>3, <1>4 DEF LinksInv, RelationsInv, PatternsInv, ProvidersInv, HandlersInv

LEMMA AddRelationsKeeps ==
  ASSUME LinksInv, AddRelations
  PROVE  LinksInv'
<1>1. /\ FilesInv /\ EdgesInv /\ AttrsInv /\ pc = "related" /\ pc' = "prefix" /\ todo' = Routes
      /\ UNCHANGED <<tree, manifest, content, attrs>> /\ edges' = edges \union Related
      /\ LinksOf("RELATES_TO") = {}
  BY DEF LinksInv, AddRelations, Goto, RelationsInv
<1>2. FilesInv' /\ ~Settled' /\ AttrsInv'
  BY <1>1, StageFiles, SameAttrs
<1>3. EdgesInv' /\ LinksOf("RELATES_TO")' = LinksOf("RELATES_TO") \union Related
  BY <1>1, RelatedShape, AddedLinks
<1>4. RelationsInv'
  BY <1>1, <1>2, <1>3, SameLinks DEF RelationsInv
<1>5. PatternsInv'
  BY <1>1, <1>2, SameNodes DEF PatternsInv, PatternsOf
<1> QED BY <1>1, <1>2, <1>3, <1>4, <1>5 DEF LinksInv, ProvidersInv, HandlersInv

LEMMA ComposePrefixKeeps ==
  ASSUME LinksInv, NEW r \in Routes, ComposePrefix(r)
  PROVE  LinksInv'
<1>1. /\ FilesInv /\ EdgesInv /\ AttrsInv /\ pc = "prefix" /\ pc' = "prefix" /\ todo' = todo \ {r}
      /\ UNCHANGED <<tree, manifest, content, edges>>
      /\ attrs' = SetAttr(RouteNode(r), "path_pattern", Unique(Prefixes(r)))
      /\ PatternsOf(Routes \ todo) /\ LinksOf("RELATES_TO") = Related
  BY DEF LinksInv, ComposePrefix, SetPattern, RelationsInv, PatternsInv
<1>2. FilesInv' /\ ~Settled' /\ EdgesInv' /\ LinksOf("RELATES_TO")' = LinksOf("RELATES_TO")
  BY <1>1, StageFiles, SameEdges
<1>3. /\ AttrsInv'
      /\ {a \in attrs' : a[1] = RouteNode(r) /\ a[2] = "path_pattern"}
           = {<<RouteNode(r), "path_pattern", v>> : v \in Unique(Prefixes(r))}
      /\ \A n : n # RouteNode(r) => {a \in attrs' : a[1] = n /\ a[2] = "path_pattern"}
                                      = {a \in attrs : a[1] = n /\ a[2] = "path_pattern"}
  BY <1>1, SetAttrs
<1>4. RelationsInv'
  BY <1>1, <1>2, SameLinks DEF RelationsInv
<1>5. PatternsOf(Routes \ todo)'
  <2>1. SUFFICES ASSUME NEW s \in Routes, s \notin todo'
        PROVE  {a \in attrs' : a[1] = RouteNode(s) /\ a[2] = "path_pattern"}
                 = {<<RouteNode(s), "path_pattern", v>> : v \in Unique(Prefixes(s))}
    BY <1>1, SameNodes, SameLinks DEF PatternsOf, Has, RouteNode, Unique
  <2>2. CASE s = r
    BY <1>3, <2>2
  <2>3. CASE s # r
    <3>1. RouteNode(s) # RouteNode(r)
      BY <1>1, <2>3, OneRoute
    <3>2. Has(RouteNode(s), "path_pattern", Unique(Prefixes(s)))
      BY <1>1, <2>1, <2>3 DEF PatternsOf
    <3> QED BY <1>3, <3>1, <3>2 DEF Has
  <2> QED BY <2>2, <2>3
<1>6. PatternsInv'
  BY <1>1, <1>2, <1>5 DEF PatternsInv
<1> QED BY <1>1, <1>2, <1>3, <1>4, <1>6 DEF LinksInv, ProvidersInv, HandlersInv

LEMMA ClearProvidersKeeps ==
  ASSUME LinksInv, ClearProviders
  PROVE  LinksInv'
<1>1. /\ FilesInv /\ EdgesInv /\ AttrsInv /\ pc = "prefix" /\ pc' = "provide" /\ todo' = Services /\ found' = {}
      /\ UNCHANGED <<tree, manifest, content, attrs>> /\ edges' = Cleared(Services, "PROVIDED_BY")
      /\ PatternsOf(Routes) /\ LinksOf("RELATES_TO") = Related
  BY DEF LinksInv, ClearProviders, Goto, RelationsInv, PatternsInv, PatternsOf
<1>2. FilesInv' /\ ~Settled' /\ AttrsInv' /\ \A S : PatternsOf(S)' <=> PatternsOf(S)
  BY <1>1, StageFiles, SameAttrs
<1>3. \A e \in Local : e.kind # "PROVIDED_BY"
  BY LocalShape
<1>4. /\ EdgesInv' /\ LinksOf("RELATES_TO")' = LinksOf("RELATES_TO")
      /\ LinksOf("PROVIDED_BY")' = {e \in LinksOf("PROVIDED_BY") : e.src \notin Services}
  BY <1>1, <1>3, ClearedLinks
<1>5. RelationsInv' /\ PatternsInv'
  BY <1>1, <1>2, <1>4, SameLinks, SameNodes DEF RelationsInv, PatternsInv
<1>6. ProvidersInv'
  <2>1. LinksOf("PROVIDED_BY")' = {}
    BY <1>1, <1>4 DEF EdgesInv, LinksOf
  <2> QED BY <1>1, <1>2, <2>1, SameNodes DEF ProvidersInv, ProvidedTo
<1> QED BY <1>1, <1>2, <1>4, <1>5, <1>6 DEF LinksInv, HandlersInv

LEMMA GroundProviderKeeps ==
  ASSUME LinksInv, NEW s \in Services, GroundProvider(s)
  PROVE  LinksInv'
<1>1. /\ FilesInv /\ EdgesInv /\ AttrsInv /\ pc = "provide" /\ pc' = "provide" /\ todo' = todo \ {s}
      /\ UNCHANGED <<tree, manifest, content, edges>>
      /\ found' = found \union {Edge(s, p, "PROVIDED_BY", "resolved") : p \in Providers(s)}
      /\ attrs' = attrs \/ attrs' = SetAttr(s, "provider_symbol", Providers(s))
      /\ PatternsOf(Routes) /\ LinksOf("RELATES_TO") = Related
      /\ LinksOf("PROVIDED_BY") = {} /\ found = ProvidedTo(Services \ todo)
  BY DEF LinksInv, GroundProvider, RelationsInv, PatternsInv, ProvidersInv
<1>2. FilesInv' /\ ~Settled' /\ EdgesInv' /\ \A k : LinksOf(k)' = LinksOf(k)
  BY <1>1, StageFiles, SameEdges
<1>3. AttrsInv' /\ PatternsOf(Routes)'
  <2>1. CASE attrs' = attrs
    BY <1>1, <2>1, SameAttrs, SameNodes
  <2>2. CASE attrs' = SetAttr(s, "provider_symbol", Providers(s))
    <3>1. /\ AttrsInv'
          /\ \A n : {a \in attrs' : a[1] = n /\ a[2] = "path_pattern"} = {a \in attrs : a[1] = n /\ a[2] = "path_pattern"}
      BY <1>1, <2>2, SetAttrs
    <3> QED BY <1>1, <3>1, SameNodes, SameLinks DEF PatternsOf, Has, RouteNode
  <2> QED BY <1>1, <2>1, <2>2
<1>4. RelationsInv' /\ PatternsInv'
  BY <1>1, <1>2, <1>3, SameLinks DEF RelationsInv, PatternsInv
<1>5. ProvidersInv'
  <2>1. found' = ProvidedTo(Services \ todo')
    <3>1. Services \ todo' = (Services \ todo) \union {s}
      BY <1>1
    <3> QED BY <1>1, <3>1 DEF ProvidedTo
  <2> QED BY <1>1, <1>2, <2>1, SameNodes, SameLinks DEF ProvidersInv
<1> QED BY <1>1, <1>2, <1>3, <1>4, <1>5 DEF LinksInv, HandlersInv

LEMMA AddProvidersKeeps ==
  ASSUME LinksInv, AddProviders
  PROVE  LinksInv'
<1>1. /\ FilesInv /\ EdgesInv /\ AttrsInv /\ pc = "provide" /\ pc' = "handle" /\ found' = {}
      /\ UNCHANGED <<tree, manifest, content, attrs>> /\ edges' = edges \union ProvidedTo(Services)
      /\ PatternsOf(Routes) /\ LinksOf("RELATES_TO") = Related /\ LinksOf("PROVIDED_BY") = {}
  BY DEF LinksInv, AddProviders, Goto, RelationsInv, PatternsInv, ProvidersInv
<1>2. FilesInv' /\ ~Settled' /\ AttrsInv' /\ \A S : PatternsOf(S)' <=> PatternsOf(S)
  BY <1>1, StageFiles, SameAttrs
<1>3. /\ EdgesInv' /\ LinksOf("RELATES_TO")' = LinksOf("RELATES_TO")
      /\ LinksOf("PROVIDED_BY")' = LinksOf("PROVIDED_BY") \union ProvidedTo(Services)
  BY <1>1, ProvidedShape, AddedLinks
<1>4. RelationsInv' /\ PatternsInv'
  BY <1>1, <1>2, <1>3, SameLinks, SameNodes DEF RelationsInv, PatternsInv
<1>5. ProvidersInv'
  BY <1>1, <1>2, <1>3, SameLinks DEF ProvidersInv, Provided, ProvidedTo
<1> QED BY <1>1, <1>2, <1>3, <1>4, <1>5 DEF LinksInv, HandlersInv

LEMMA ClearHandlersKeeps ==
  ASSUME LinksInv, ClearHandlers
  PROVE  LinksInv'
<1>1. /\ FilesInv /\ EdgesInv /\ AttrsInv /\ pc = "handle" /\ pc' = "ground" /\ todo' = Pending
      /\ UNCHANGED <<tree, manifest, content, attrs, found>> /\ edges' = Cleared(PendingNodes, "HANDLED_BY")
      /\ PatternsOf(Routes) /\ LinksOf("RELATES_TO") = Related /\ LinksOf("PROVIDED_BY") = Provided /\ found = {}
  BY DEF LinksInv, ClearHandlers, Goto, RelationsInv, PatternsInv, ProvidersInv, HandlersInv, PendingNodes, Regrounded
<1>2. FilesInv' /\ ~Settled' /\ AttrsInv' /\ \A S : PatternsOf(S)' <=> PatternsOf(S)
  BY <1>1, StageFiles, SameAttrs
<1>3. /\ EdgesInv' /\ LinksOf("RELATES_TO")' = LinksOf("RELATES_TO") /\ LinksOf("PROVIDED_BY")' = LinksOf("PROVIDED_BY")
      /\ LinksOf("HANDLED_BY")' = {e \in LinksOf("HANDLED_BY") : e.src \notin PendingNodes}
  BY <1>1, LocalNotPending, ClearedLinks
<1>4. RelationsInv' /\ PatternsInv' /\ ProvidersInv'
  BY <1>1, <1>2, <1>3, SameLinks, SameNodes DEF RelationsInv, PatternsInv, ProvidersInv
<1>5. HandlersInv'
  <2>1. LinksOf("HANDLED_BY")' = {}
    BY <1>1, <1>3 DEF EdgesInv, LinksOf
  <2> QED BY <1>1, <1>2, <2>1, SameNodes DEF HandlersInv, HandledFor, HandlersOf
<1> QED BY <1>2, <1>3, <1>4, <1>5 DEF LinksInv

LEMMA GroundHandlerKeeps ==
  ASSUME LinksInv, NEW r \in Routes, GroundHandler(r)
  PROVE  LinksInv'
<1>1. /\ FilesInv /\ EdgesInv /\ AttrsInv /\ pc = "ground" /\ pc' = "ground" /\ todo' = todo \ {r} /\ r \in Pending
      /\ UNCHANGED <<tree, manifest, content, edges>>
      /\ found' = found \union {Edge(RouteNode(r), h, "HANDLED_BY", "resolved") : h \in Handlers(r)}
      /\ attrs' = SetAttr(RouteNode(r), "handler", Handlers(r))
      /\ PatternsOf(Routes) /\ LinksOf("RELATES_TO") = Related /\ LinksOf("PROVIDED_BY") = Provided
      /\ LinksOf("HANDLED_BY") = {} /\ todo \subseteq Pending
      /\ found = HandledFor(Pending \ todo) /\ HandlersOf(Pending \ todo)
  BY DEF LinksInv, GroundHandler, RelationsInv, PatternsInv, ProvidersInv, HandlersInv
<1>2. FilesInv' /\ ~Settled' /\ EdgesInv' /\ \A k : LinksOf(k)' = LinksOf(k)
  BY <1>1, StageFiles, SameEdges
<1>3. /\ AttrsInv'
      /\ {a \in attrs' : a[1] = RouteNode(r) /\ a[2] = "handler"} = {<<RouteNode(r), "handler", h>> : h \in Handlers(r)}
      /\ \A n, k : n # RouteNode(r) \/ k # "handler" =>
           {a \in attrs' : a[1] = n /\ a[2] = k} = {a \in attrs : a[1] = n /\ a[2] = k}
  BY <1>1, SetAttrs DEF PendingNodes
<1>4. PatternsOf(Routes)'
  <2>1. Routes' = Routes /\ \A s : Prefixes(s)' = Prefixes(s) /\ RouteNode(s)' = RouteNode(s)
    BY <1>1, SameNodes, SameLinks DEF RouteNode
  <2>2. \A s \in Routes : {a \in attrs' : a[1] = RouteNode(s) /\ a[2] = "path_pattern"}
                          = {a \in attrs : a[1] = RouteNode(s) /\ a[2] = "path_pattern"}
    BY <1>3
  <2> QED BY <1>1, <2>1, <2>2 DEF PatternsOf, Has
<1>5. RelationsInv' /\ PatternsInv' /\ ProvidersInv'
  BY <1>1, <1>2, <1>4, SameLinks DEF RelationsInv, PatternsInv, ProvidersInv
<1>6. HandlersOf(Pending \ todo)'
  <2>1. SUFFICES ASSUME NEW s \in Pending, s \notin todo'
        PROVE  {a \in attrs' : a[1] = RouteNode(s) /\ a[2] = "handler"} = {<<RouteNode(s), "handler", h>> : h \in Handlers(s)}
    BY <1>1, SameNodes, SameLinks DEF HandlersOf, Has, RouteNode
  <2>2. CASE s = r
    BY <1>3, <2>2
  <2>3. CASE s # r
    <3>1. RouteNode(s) # RouteNode(r)
      BY <1>1, <2>3, OneRoute DEF Pending
    <3>2. Has(RouteNode(s), "handler", Handlers(s))
      BY <1>1, <2>1, <2>3 DEF HandlersOf
    <3> QED BY <1>3, <3>1, <3>2 DEF Has
  <2> QED BY <2>2, <2>3
<1>7. HandlersInv'
  <2>1. found' = HandledFor(Pending \ todo')
    <3>1. Pending \ todo' = (Pending \ todo) \union {r}
      BY <1>1
    <3> QED BY <1>1, <3>1 DEF HandledFor
  <2> QED BY <1>1, <1>2, <1>6, <2>1, SameNodes, SameLinks DEF HandlersInv
<1> QED BY <1>2, <1>3, <1>5, <1>7 DEF LinksInv

LEMMA AddHandlersKeeps ==
  ASSUME LinksInv, AddHandlers
  PROVE  LinksInv'
<1>1. /\ FilesInv /\ EdgesInv /\ AttrsInv /\ pc = "ground" /\ pc' = "save"
      /\ UNCHANGED <<tree, manifest, content, attrs>> /\ edges' = edges \union HandledFor(Pending)
      /\ PatternsOf(Routes) /\ LinksOf("RELATES_TO") = Related /\ LinksOf("PROVIDED_BY") = Provided
      /\ LinksOf("HANDLED_BY") = {} /\ HandlersOf(Pending)
  BY DEF LinksInv, AddHandlers, Goto, RelationsInv, PatternsInv, ProvidersInv, HandlersInv, HandlersOf
<1>2. /\ FilesInv' /\ ~Settled' /\ AttrsInv'
      /\ \A S : (PatternsOf(S)' <=> PatternsOf(S)) /\ (HandlersOf(S)' <=> HandlersOf(S))
  BY <1>1, StageFiles, SameAttrs
<1>3. /\ EdgesInv' /\ LinksOf("RELATES_TO")' = LinksOf("RELATES_TO") /\ LinksOf("PROVIDED_BY")' = LinksOf("PROVIDED_BY")
      /\ LinksOf("HANDLED_BY")' = LinksOf("HANDLED_BY") \union HandledFor(Pending)
  BY <1>1, HandledShape, AddedLinks
<1>4. RelationsInv' /\ PatternsInv' /\ ProvidersInv'
  BY <1>1, <1>2, <1>3, SameLinks, SameNodes DEF RelationsInv, PatternsInv, ProvidersInv
<1>5. HandlersInv'
  <2>1. LinksOf("HANDLED_BY")' = Handled'
    BY <1>1, <1>3, SameLinks DEF Handled, HandledFor
  <2> QED BY <1>1, <1>2, <2>1, SameNodes DEF HandlersInv
<1> QED BY <1>2, <1>3, <1>4, <1>5 DEF LinksInv

LEMMA SaveKeeps ==
  ASSUME LinksInv, Save
  PROVE  LinksInv'
<1>1. /\ FilesInv /\ EdgesInv /\ AttrsInv /\ pc = "save" /\ pc' = "idle" /\ manifest' = tree
      /\ UNCHANGED <<tree, content, edges, attrs>> /\ content = tree
      /\ PatternsOf(Routes) /\ LinksOf("RELATES_TO") = Related /\ LinksOf("PROVIDED_BY") = Provided
      /\ LinksOf("HANDLED_BY") = Handled /\ HandlersOf(Pending)
  BY DEF LinksInv, Save, Goto, graph, FilesInv, RelationsInv, PatternsInv, ProvidersInv, HandlersInv
<1>2. FilesInv'
  BY <1>1 DEF FilesInv
<1>3. EdgesInv' /\ \A k : LinksOf(k)' = LinksOf(k)
  BY <1>1, SameEdges
<1>4. AttrsInv' /\ \A S : (PatternsOf(S)' <=> PatternsOf(S)) /\ (HandlersOf(S)' <=> HandlersOf(S))
  BY <1>1, SameAttrs
<1> QED BY <1>1, <1>2, <1>3, <1>4, SameNodes, SameLinks
        DEF LinksInv, RelationsInv, PatternsInv, ProvidersInv, HandlersInv

(***************************************************************************)
(* The invariant holds throughout.                                         *)
(***************************************************************************)
LEMMA LinksInit == Init => LinksInv
<1> SUFFICES ASSUME Init PROVE LinksInv
  OBVIOUS
<1>1. /\ content = [f \in Files |-> NoFile] /\ manifest = [f \in Files |-> NoFile]
      /\ edges = {} /\ attrs = {} /\ pc = "idle" /\ found = {}
  BY DEF Init
<1>2. \A f \in Files : tree[f] \in Versions[f] /\ tree[f] # NoFile /\ manifest[f] = NoFile
  BY <1>1, VersionsAssumption DEF Init
<1>3. tree = [f \in Files |-> tree[f]]
  BY DEF Init
<1>4. Parsed = {}
  BY <1>1 DEF Parsed, Held
<1>5. Local = {} /\ Routes = {} /\ Services = {} /\ Related = {}
  BY <1>4 DEF Local, Routes, Services, Related, Relations, Models
<1>6. FilesInv /\ EdgesInv /\ AttrsInv
  BY <1>1, <1>2, <1>3, <1>5 DEF FilesInv, EdgesInv, AttrsInv
<1>7. Provided = {} /\ Pending = {}
  BY <1>5 DEF Provided, Pending
<1>8. Handled = {}
  BY <1>7 DEF Handled
<1> QED BY <1>1, <1>5, <1>6, <1>7, <1>8
        DEF LinksInv, RelationsInv, PatternsInv, PatternsOf, ProvidersInv, HandlersInv, HandlersOf, LinksOf

LEMMA LinksNext == LinksInv /\ [Next]_vars => LinksInv'
<1> SUFFICES ASSUME LinksInv, [Next]_vars PROVE LinksInv'
  OBVIOUS
<1>1. ASSUME NEW f \in Files, Edit(f) PROVE LinksInv'
  BY <1>1, EditKeeps
<1>2. CASE Begin
  BY <1>2, BeginKeeps
<1>3. CASE RunStep
  <2>1. ASSUME NEW f \in Files, ReplaceFile(f) PROVE LinksInv'
    BY <2>1, ReplaceFileKeeps
  <2>2. ASSUME NEW r \in Routes, ComposePrefix(r) PROVE LinksInv'
    BY <2>2, ComposePrefixKeeps
  <2>3. ASSUME NEW s \in Services, GroundProvider(s) PROVE LinksInv'
    BY <2>3, GroundProviderKeeps
  <2>4. ASSUME NEW r \in Routes, GroundHandler(r) PROVE LinksInv'
    BY <2>4, GroundHandlerKeeps
  <2> QED BY <1>3, <2>1, <2>2, <2>3, <2>4, ClearResolvedKeeps, ClearRelationsKeeps, AddRelationsKeeps,
             ClearProvidersKeeps, AddProvidersKeeps, ClearHandlersKeeps, AddHandlersKeeps, SaveKeeps DEF RunStep
<1>4. CASE Crash
  BY <1>4, CrashKeeps
<1>5. CASE UNCHANGED vars
  <2>1. UNCHANGED <<tree, manifest, content, edges, attrs, pc, todo, found>>
    BY <1>5 DEF vars, graph
  <2>2. Changed' = Changed /\ (Settled' <=> Settled)
    BY <2>1 DEF Changed, Settled
  <2>3. FilesInv' /\ EdgesInv' /\ \A k : LinksOf(k)' = LinksOf(k)
    BY <2>1, <2>2, SameEdges DEF FilesInv, LinksInv
  <2>4. AttrsInv' /\ \A S : (PatternsOf(S)' <=> PatternsOf(S)) /\ (HandlersOf(S)' <=> HandlersOf(S))
    BY <2>1, SameAttrs DEF LinksInv
  <2> QED BY <2>1, <2>2, <2>3, <2>4, SameNodes, SameLinks
          DEF LinksInv, RelationsInv, PatternsInv, ProvidersInv, HandlersInv
<1> QED BY <1>1, <1>2, <1>3, <1>4, <1>5 DEF Next

LEMMA LinksInvariant == Spec => []LinksInv
BY LinksInit, LinksNext, PTL DEF Spec

(***************************************************************************)
(* The links of a settled graph.                                           *)
(***************************************************************************)
LEMMA SettledEdges ==
  ASSUME LinksInv, Settled
  PROVE  content = tree /\ edges = FreshEdges
<1>1. content = tree
  BY DEF LinksInv, FilesInv, Settled, Changed
<1>2. edges = Local \union LinksOf("RELATES_TO") \union LinksOf("PROVIDED_BY") \union LinksOf("HANDLED_BY")
  BY DEF LinksInv, EdgesInv, LinksOf
<1> QED BY <1>1, <1>2 DEF LinksInv, RelationsInv, ProvidersInv, HandlersInv, FreshEdges, Local

LEMMA SettledPatterns ==
  ASSUME LinksInv, Settled
  PROVE  Attributes("path_pattern") = FreshPatterns
<1>1. /\ \A a \in Attributes("path_pattern") : \E r \in Routes : a[1] = RouteNode(r)
      /\ \A r \in Routes : Has(RouteNode(r), "path_pattern", Unique(Prefixes(r)))
  BY DEF LinksInv, AttrsInv, PatternsInv, PatternsOf, Attributes
<1>2. ASSUME NEW a \in Attributes("path_pattern") PROVE a \in FreshPatterns
  <2>1. PICK r \in Routes : a[1] = RouteNode(r)
    BY <1>1
  <2>2. PICK p \in Unique(Prefixes(r)) : a = <<RouteNode(r), "path_pattern", p>>
    BY <1>1, <2>1 DEF Has, Attributes
  <2>3. p \in Prefixes(r) /\ Cardinality(Prefixes(r)) = 1
    BY DEF Unique
  <2>4. a \in Composed
    BY <2>2, <2>3 DEF Composed
  <2>5. \A s \in Routes : RouteNode(s) = a[1] => s = r
    BY <2>1, OneRoute DEF LinksInv
  <2> QED BY <2>2, <2>3, <2>4, <2>5 DEF FreshPatterns
<1>3. ASSUME NEW a \in FreshPatterns PROVE a \in Attributes("path_pattern")
  <2>1. PICK r, p : r \in Routes /\ Cardinality(Prefixes(r)) = 1 /\ a = <<RouteNode(r), "path_pattern", p>>
    BY DEF FreshPatterns, Composed
  <2>2. p \in Unique(Prefixes(r))
    BY <2>1 DEF FreshPatterns, Unique
  <2> QED BY <1>1, <2>1, <2>2 DEF Has, Attributes
<1> QED BY <1>2, <1>3

LEMMA SettledHandlers ==
  ASSUME LinksInv, Settled
  PROVE  Attributes("handler") = FreshHandlers
<1>1. /\ \A a \in Attributes("handler") : \E r \in Pending : a[1] = RouteNode(r)
      /\ \A r \in Pending : Has(RouteNode(r), "handler", Handlers(r))
  BY DEF LinksInv, AttrsInv, HandlersInv, HandlersOf, Attributes, PendingNodes
<1>2. ASSUME NEW a \in Attributes("handler") PROVE a \in FreshHandlers
  <2>1. PICK r \in Pending : a[1] = RouteNode(r)
    BY <1>1
  <2>2. PICK h \in Handlers(r) : a = <<RouteNode(r), "handler", h>>
    BY <1>1, <2>1 DEF Has, Attributes
  <2>3. Edge(RouteNode(r), h, "HANDLED_BY", "resolved") \in Handled
    BY DEF Handled
  <2> QED BY <2>2, <2>3 DEF FreshHandlers, Edge
<1>3. ASSUME NEW a \in FreshHandlers PROVE a \in Attributes("handler")
  <2>1. PICK e \in Handled : a = <<e.src, "handler", e.dst>>
    BY DEF FreshHandlers
  <2>2. PICK r, h : r \in Pending /\ h \in Handlers(r) /\ e = Edge(RouteNode(r), h, "HANDLED_BY", "resolved")
    BY DEF Handled
  <2>3. a = <<RouteNode(r), "handler", h>>
    BY <2>1, <2>2 DEF Edge
  <2> QED BY <1>1, <2>2, <2>3 DEF Has, Attributes
<1> QED BY <1>2, <1>3

\* Whatever came and went and wherever earlier runs were killed, a completed refresh has
\* the links, composed paths and handlers of a first run (cross_file.py, orm.py).
THEOREM FreshLinks == Spec => []LinksEqualFresh
<1>1. LinksInv => LinksEqualFresh
  BY SettledEdges, SettledPatterns, SettledHandlers DEF LinksEqualFresh
<1> QED BY <1>1, LinksInvariant, PTL

(***************************************************************************)
(* No link is guessed.                                                     *)
(***************************************************************************)
LEMMA FiniteNodes == FilesInv => IsFiniteSet(AllNodes)
<1> SUFFICES ASSUME FilesInv PROVE IsFiniteSet(AllNodes)
  OBVIOUS
<1> DEFINE Any == UNION {UNION {NodesOf(f, c) : c \in Versions[f]} : f \in Files}
<1>1. ASSUME NEW n \in AllNodes PROVE n \in Any
  <2>1. PICK f \in Files : n \in NodesOf(f, content[f])
    BY DEF AllNodes, Nodes
  <2>2. content[f] \in Versions[f]
    BY <2>1 DEF FilesInv, NodesOf
  <2>3. n \in UNION {NodesOf(f, c) : c \in Versions[f]}
    BY <2>1, <2>2
  <2> QED BY <2>3
<1> QED BY <1>1, NodesAssumption, FS_Subset

LEMMA OnlyOne ==
  ASSUME NEW S, IsFiniteSet(S), NEW T, T \subseteq S, NEW x \in Unique(T), NEW y \in T
  PROVE  y = x
<1>1. Cardinality(T) = 1 /\ x \in T
  BY DEF Unique
<1>2. IsFiniteSet(T)
  BY FS_Subset
<1>3. PICK z : T = {z}
  BY <1>1, <1>2, FS_Singleton
<1> QED BY <1>1, <1>3

LEMMA OneKind ==
  ASSUME NEW n, n[2] = "def", NEW f
  PROVE  \A x : n # <<f, "route", x>> /\ n # <<f, "service", x>> /\ n # <<f, "model", x>>
OBVIOUS

LEMMA ModelsAreNodes ==
  ASSUME FilesInv
  PROVE  ModelIds \subseteq AllNodes
<1>1. SUFFICES ASSUME NEW m \in Models PROVE ModelNode(m) \in AllNodes
  BY DEF ModelIds
<1>2. PICK f \in Parsed : m \in {[file |-> f, model |-> x] : x \in content[f].models}
  BY DEF Models
<1>3. PICK x \in content[f].models : m = [file |-> f, model |-> x]
  BY <1>2
<1>4. ModelNode(m) = <<f, "model", x.class>>
  BY <1>3 DEF ModelNode
<1>5. ModelNode(m) \in ModelNodes(f, content[f])
  BY <1>4 DEF ModelNodes
<1>6. ModelNode(m) \in Nodes(f)
  BY <1>5 DEF Nodes, NodesOf, Parsed, Held
<1> QED BY <1>6 DEF AllNodes, Parsed

\* The method of a class is only where the class is.
LEMMA ClassOfMethod ==
  ASSUME FilesInv, NEW n \in AllNodes, n[2] = "def", n[3].class # ""
  PROVE  <<n[1], "def", Class(n[3].class)>> \in Classes(n[3].class)
<1>1. PICK f \in Files : n \in NodesOf(f, content[f])
  BY DEF AllNodes, Nodes
<1>2. content[f] \in Versions[f] /\ content[f] # NoFile
  BY <1>1 DEF FilesInv, NodesOf
<1>3. PICK d \in content[f].defs : n = <<f, "def", d>>
  <2>1. \A x : n # <<f, "route", x>> /\ n # <<f, "service", x>> /\ n # <<f, "model", x>>
    BY OneKind
  <2>2. n \notin RouteNodes(f, content[f]) /\ n \notin ServiceNodes(f, content[f]) /\ n \notin ModelNodes(f, content[f])
    BY <2>1, Zenon DEF RouteNodes, ServiceNodes, ModelNodes
  <2>3. n \in DefNodes(f, content[f])
    BY <1>1, <1>2, <2>2 DEF NodesOf
  <2> QED BY <2>3 DEF DefNodes
<1>4. Class(d.class) \in content[f].defs
  BY <1>2, <1>3, VersionsAssumption
<1>5. <<f, "def", Class(d.class)>> \in Nodes(f)
  BY <1>2, <1>4 DEF Nodes, NodesOf, DefNodes
<1>6. <<f, "def", Class(d.class)>> \in AllNodes
  BY <1>5 DEF AllNodes
<1> QED BY <1>3, <1>6 DEF Classes, Class

\* When a refresh has completed, no other node in reach could have been meant by a link
\* (ADR-0004: an ambiguous target is left unresolved).
THEOREM NothingGuessed == Spec => []NeverGuessed
<1>1. ASSUME LinksInv, Settled, NEW e \in edges, e.by = "resolved"
      PROVE  CASE e.kind = "PROVIDED_BY" -> \A n \in AllNodes \ {e.dst} :
                    ~(n[1] \in Scope(e.src[1]) /\ n[2] = "def" /\ n[3].name = e.dst[3].name)
               [] e.kind = "HANDLED_BY" -> \A n \in AllNodes \ {e.dst} : ~(n[2] = "def" /\ n[3] = e.dst[3])
               [] e.kind = "RELATES_TO" -> \E rel \in Relations :
                    ModelNode(rel.of) = e.src /\ \A m \in Models : MayMean(rel, m) => ModelNode(m) = e.dst
  <2>1. e \in Related \union Provided \union Handled /\ FilesInv /\ IsFiniteSet(AllNodes)
    <3>1. e \notin Local
      BY <1>1, LocalShape
    <3> QED BY <1>1, <3>1, SettledEdges, FiniteNodes DEF FreshEdges, Local, LinksInv
  <2>2. CASE e \in Provided
    <3>1. PICK s, p : p \in Providers(s) /\ e = Edge(s, p, "PROVIDED_BY", "resolved")
      BY <2>2 DEF Provided
    <3>2. e.kind = "PROVIDED_BY" /\ e.src = s /\ e.dst = p
      BY <3>1 DEF Edge
    <3> DEFINE Met == {m \in AllNodes : m[1] \in Scope(s[1]) /\ m[2] = "def" /\ m[3].name = s[3]}
    <3>3. p \in Unique(Met)
      BY <3>1 DEF Providers
    <3>4. p[3].name = s[3]
      BY <3>3 DEF Unique
    <3>5. \A n \in AllNodes \ {e.dst} : n \notin Met
      BY <2>1, <3>2, <3>3, OnlyOne
    <3> QED BY <3>2, <3>4, <3>5
  <2>3. CASE e \in Related
    <3>1. PICK rel, t : rel \in Relations /\ t \in RelationTarget(rel) /\ e = Edge(ModelNode(rel.of), t, "RELATES_TO", "resolved")
      BY <2>3 DEF Related
    <3>2. e.kind = "RELATES_TO" /\ e.src = ModelNode(rel.of) /\ e.dst = t
      BY <3>1 DEF Edge
    <3> DEFINE Met == {ModelNode(m) : m \in {x \in Models : MayMean(rel, x)}}
    <3>3. t \in Unique(Met)
      BY <3>1 DEF RelationTarget
    <3>4. Met \subseteq AllNodes
      BY ModelsAreNodes, <2>1 DEF ModelIds
    <3>5. \A m \in Models : MayMean(rel, m) => ModelNode(m) = t
      <4>1. SUFFICES ASSUME NEW m \in Models, MayMean(rel, m) PROVE ModelNode(m) = t
        OBVIOUS
      <4>2. ModelNode(m) \in Met
        BY <4>1
      <4> QED BY <2>1, <3>3, <3>4, <4>2, OnlyOne
    <3>6. rel \in Relations /\ ModelNode(rel.of) = e.src /\ \A m \in Models : MayMean(rel, m) => ModelNode(m) = e.dst
      BY <3>1, <3>2, <3>5
    <3>7. e.kind \notin {"PROVIDED_BY", "HANDLED_BY"}
      BY <3>2
    <3> QED BY <3>2, <3>6, <3>7, SMTT(30)
  <2>4. CASE e \in Handled
    <3>1. PICK r, h : r \in Pending /\ h \in Handlers(r) /\ e = Edge(RouteNode(r), h, "HANDLED_BY", "resolved")
      BY <2>4 DEF Handled
    <3>2. e.kind = "HANDLED_BY" /\ e.dst = h
      BY <3>1 DEF Edge
    <3>0. PICK C : C = r.route.class
      OBVIOUS
    <3>3. /\ h \in AllNodes /\ h[2] = "def" /\ h[3] = Handler(r) /\ C # ""
          /\ \E c \in Unique(Classes(C)) : h[1] = c[1]
      BY <3>0, <3>1 DEF Handlers, Pending, NamesController
    <3>4. SUFFICES ASSUME NEW n \in AllNodes, n # e.dst, n[2] = "def", n[3] = h[3] PROVE FALSE
      BY <3>2
    <3>5. n[3].class = C
      <4>1. n[3] = [kind |-> "method", class |-> C, name |-> Method(r)]
        BY <3>0, <3>3, <3>4 DEF Handler
      <4> QED BY <4>1
    <3>6. <<n[1], "def", Class(C)>> \in Classes(C)
      BY <1>1, <2>1, <3>3, <3>4, <3>5, ClassOfMethod
    <3>7. PICK c \in Unique(Classes(C)) : h[1] = c[1]
      BY <3>3
    <3>8. Classes(C) \subseteq AllNodes
      BY DEF Classes
    <3>9. <<n[1], "def", Class(C)>> = c
      <4>1. PICK m : m = <<n[1], "def", Class(C)>>
        OBVIOUS
      <4>2. m \in Classes(C)
        BY <3>6, <4>1
      <4>3. m = c
        BY <2>1, <3>7, <3>8, <4>2, OnlyOne
      <4> QED BY <4>1, <4>3
    <3>10. n[1] = h[1]
      BY <3>7, <3>9
    <3>11. \A m \in AllNodes : m = <<m[1], m[2], m[3]>>
      BY DEF AllNodes, Nodes, NodesOf, DefNodes, RouteNodes, ServiceNodes, ModelNodes
    <3> QED BY <3>2, <3>3, <3>4, <3>10, <3>11
  <2> QED BY <2>1, <2>2, <2>3, <2>4
<1>2. LinksInv => NeverGuessed
  BY <1>1 DEF NeverGuessed
<1> QED BY <1>2, LinksInvariant, PTL
=============================================================================
