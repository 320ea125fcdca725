---------------------------- MODULE StoreBackends ----------------------------
(***************************************************************************)
(* The same writes sent to a property graph, one transaction each, and to  *)
(* SurrealDB, one statement at a time with no transaction around them; and *)
(* the same vectors to the three vector stores, after the graph.           *)
(* The writers are the passes that use the store: the pipeline, the        *)
(* resolver, the enrichers, embedding and churn mining.                    *)
(***************************************************************************)
EXTENDS PropertyGraph, VectorTables

CONSTANTS
  Versions,     \* path -> what it may be upserted as: [ids, links]
  Calls,        \* resolved links
  Tags,         \* TAGGED links, from a symbol to a shared node
  ChunkOf,      \* path -> its chunk node
  OpensEarly,   \* a watcher or a server is open since before the first vector was written
  MaxWrites

\* The id of what is parsed carries its path, those of packages, patterns and chunks are of no
\* path (core/symbols.py); the edges of a file are between what is parsed of it.
IdsOf(p) == UNION {v.ids : v \in Versions[p]}
SharedIds == Ids \ UNION {IdsOf(p) : p \in Paths}
Kinds == {"TAGGED", "CHUNK_OF"}

ASSUME VersionsAssumption ==
  \A p \in Paths :
    /\ p # "missing" /\ \A q \in Paths \ {p} : IdsOf(p) \intersect IdsOf(q) = {}
    /\ \A v \in Versions[p] :
         /\ v \in [ids : (SUBSET Ids) \ {{}}, links : SUBSET Links]
         /\ \A l \in v.links : {l.src, l.dst} \subseteq v.ids /\ l.origin = p /\ ~l.resolved /\ l.kind \notin Kinds
ASSUME WritersAssumption ==
  /\ Calls \subseteq Links /\ Tags \subseteq Links /\ Packages \subseteq SharedIds /\ Shared # "missing"
  /\ \A l \in Calls : l.origin \in Paths /\ l.src \in IdsOf(l.origin) /\ l.resolved /\ l.kind \notin Kinds
  /\ \A l \in Tags : l.origin = Shared /\ l.dst \in SharedIds \ Packages /\ ~l.resolved /\ l.kind = "TAGGED"
  /\ \A l \in Links : /\ l.src \notin Packages /\ (l.dst \in Packages => l \in Calls)
                      /\ l.kind = "CHUNK_OF" => l.origin = Shared /\ ~l.resolved
ASSUME ChunksAssumption == \A p \in Paths : PathOf[ChunkOf[p]] = p /\ ChunkOf[p] \in SharedIds \ Packages

VARIABLES
  graph,       \* Kuzu or Neo4j
  docs,        \* SurrealDB
  pending,     \* statements SurrealDB has still to run, by path (Shared: of no path)
  unresolved,  \* paths whose resolved edges were taken away and not yet drawn again
  untagged,    \* symbols whose tags were cleared by an enrichment that goes on
  chunked,     \* path -> the symbols its chunk was linked to last
  given,       \* path -> what it was last upserted as
  tables,      \* vector backend -> its table
  calls,       \* vector backend -> statements it has still to run
  embedded,    \* path -> the text whose vector was written last, as a set
  writes

client == <<unresolved, untagged, chunked, given>>
vectors == <<tables, calls, embedded>>
storeVars == <<graph, docs, pending, client, vectors, writes>>

NoVersion == [ids |-> {}, links |-> {}]
ParsedIds == UNION {v.ids : v \in UNION {Versions[p] : p \in Paths}}

StoresInit ==
  /\ graph = EmptyDb /\ docs = EmptyDb
  /\ pending = [p \in Paths \union {Shared} |-> <<>>]
  /\ unresolved = {} /\ untagged = {}
  /\ chunked = [p \in Paths |-> {}]
  /\ given = [p \in Paths |-> NoVersion]
  /\ tables = [b \in Backends |-> NoTable(b)]
  /\ calls = [b \in Backends |-> <<>>]
  /\ embedded = [p \in Paths |-> {}]
  /\ writes = 0

GraphQuiet == \A p \in DOMAIN pending : pending[p] = <<>>
Quiet == GraphQuiet /\ \A b \in Backends : calls[b] = <<>>

\* One write: at once in the property graph, queued in SurrealDB.
Write(of, sts) ==
  /\ writes < MaxWrites /\ writes' = writes + 1
  /\ \A b \in Backends : calls[b] = <<>>
  /\ pending[of] = <<>> /\ (of = Shared => Quiet) /\ pending[Shared] = <<>>
  /\ graph' = RunAll(TRUE, graph, sts)
  /\ pending' = [pending EXCEPT ![of] = sts]
  /\ UNCHANGED docs

RunStatement(p) ==
  /\ pending[p] # <<>>
  /\ docs' = Exec(FALSE, docs, pending[p][1])
  /\ pending' = [pending EXCEPT ![p] = Tail(@)]
  /\ UNCHANGED <<graph, client, vectors, writes>>

\* The vector store is called when the graph has answered.
RunCall(b) ==
  /\ GraphQuiet /\ calls[b] # <<>>
  /\ tables' = [tables EXCEPT ![b] = Perform(@, calls[b][1])]
  /\ calls' = [calls EXCEPT ![b] = Tail(@)]
  /\ UNCHANGED <<graph, docs, pending, client, embedded, writes>>

Seen == {tables["pgvector"].made} \union (IF OpensEarly THEN {FALSE} ELSE {})

\* The pipeline upserts files at the same time.
UpsertFile(p) ==
  \E v \in Versions[p] :
    /\ v # given[p]
    /\ Write(p, Upsert(p, v.ids, {"parsed"}, v.links))
    /\ given' = [given EXCEPT ![p] = v]
    /\ unresolved' = unresolved \union {p}
    /\ UNCHANGED <<untagged, chunked, vectors>>

RemoveFile(p) ==
  /\ given[p] # NoVersion
  /\ Write(Shared, DeleteFile(p))
  /\ \E seen \in Seen : calls' = [b \in Backends |-> DeleteWhere(b, seen, [path |-> p])]
  /\ embedded' = [embedded EXCEPT ![p] = {}]
  /\ given' = [given EXCEPT ![p] = NoVersion]
  /\ unresolved' = unresolved \ {p}
  /\ UNCHANGED <<untagged, chunked, tables>>

ClearScope(ps) ==
  /\ ps # {} /\ \A p \in ps : given[p] # NoVersion
  /\ Write(Shared, ClearResolved(ps))
  /\ unresolved' = unresolved \union ps
  /\ UNCHANGED <<untagged, chunked, given, vectors>>

\* The resolver draws edges between nodes it sees, and packages it mints.
Resolve ==
  /\ unresolved # {}
  /\ LET seen == Existing(graph) \union Packages
         drawn == {l \in Calls : l.origin \in unresolved /\ {l.src, l.dst} \subseteq seen}
     IN Write(Shared, Add({l.dst : l \in drawn} \intersect Packages, {"parsed"}, drawn))
  /\ unresolved' = {}
  /\ UNCHANGED <<untagged, chunked, given, vectors>>

ClearTags ==
  /\ untagged = {}
  /\ LET judged == {l.src : l \in Tags} \intersect Existing(graph)
     IN judged # {} /\ Write(Shared, ClearOutgoing(judged, "TAGGED")) /\ untagged' = judged
  /\ UNCHANGED <<unresolved, chunked, given, vectors>>

AddTags ==
  /\ untagged # {}
  /\ \E judged \in SUBSET {l \in Tags : l.src \in untagged} :
       Write(Shared, Add({l.dst : l \in judged}, {"parsed"}, judged))
  /\ untagged' = {}
  /\ UNCHANGED <<unresolved, chunked, given, vectors>>

\* Chunk nodes are merged by id, CHUNK_OF edges are created, nothing is cleared; the
\* vectors of the path are replaced, by a client that has the store open for this run.
EmbedChunk(p) ==
  /\ given[p] # NoVersion /\ chunked[p] # given[p].ids
  /\ LET links == {l \in Links : l.kind = "CHUNK_OF" /\ l.src = ChunkOf[p] /\ l.dst \in given[p].ids}
         rows == {RowOf(ChunkOf[p], given[p].ids)}
         seen == tables["pgvector"].made
     IN /\ Write(Shared, Add({ChunkOf[p]}, {"parsed"}, links))
        /\ calls' = [b \in Backends |-> DeleteWhere(b, seen, [path |-> p]) \o UpsertRows(b, rows)]
  /\ chunked' = [chunked EXCEPT ![p] = given[p].ids]
  /\ embedded' = [embedded EXCEPT ![p] = given[p].ids]
  /\ UNCHANGED <<unresolved, untagged, given, tables>>

MineChurn(i) ==
  /\ i \in ParsedIds
  /\ Write(Shared, SetAttrs(i, {"churn"}))
  /\ UNCHANGED <<client, vectors>>

StoresNext ==
  \/ (\E p \in Paths \union {Shared} : RunStatement(p)) \/ (\E b \in Backends : RunCall(b))
  \/ \E p \in Paths : UpsertFile(p) \/ RemoveFile(p) \/ EmbedChunk(p)
  \/ \E ps \in SUBSET Paths : ClearScope(ps)
  \/ Resolve \/ ClearTags \/ AddTags \/ (\E i \in ParsedIds : MineChurn(i))

StoresSpec == StoresInit /\ [][StoresNext]_storeVars

(***************************************************************************)
(* Properties.                                                             *)
(***************************************************************************)
\* Types of every variable.
StoresTypeOK ==
  /\ \A db \in {graph, docs} :
       /\ \A i \in Ids : /\ db.nodes[i].origin \in Paths \union {Shared, "missing"}
                         /\ db.nodes[i].attrs \subseteq {"parsed", "churn"}
                         /\ db.nodes[i].origin = "missing" => db.nodes[i] = Missing
       /\ db.edges \in [Links -> 0..MaxWrites]
  /\ unresolved \subseteq Paths /\ untagged \subseteq ParsedIds
  /\ \A b \in Backends : IsABag(tables[b].rows) /\ \A r \in DOMAIN tables[b].rows : r.ref \in DOMAIN PathOf

\* The contract of ownership, whatever the backend: between two transactions the graph holds
\* for a path what the path was last upserted as - no row of an older version, none lost to
\* another pass - and SurrealDB, statement by statement, has come to the same rows (the edges
\* it has beyond them are those of deleted nodes).  Each vector store has a row of what is
\* embedded and answers any search alike, one with or without a key.
VectorsAlike ==
  Quiet => \A b \in Backends :
    /\ tables[b].rows = SetToBag({RowOf(ChunkOf[p], embedded[p]) : p \in {x \in Paths : embedded[x] # {}}})
    /\ \A seen \in Seen, q \in Queries, k \in 1..Cardinality(Paths), p \in Paths : \A filter \in {<<>>, [path |-> p]} :
         Search(b, seen, tables[b], q, k, filter) = Nearest(tables["surreal"], q, k, filter)
BackendsHoldWhatWasGiven ==
  /\ VectorsAlike
  /\ \A p \in Paths : /\ OwnedBy(graph, p) = given[p].ids
                      /\ {l \in Stored(graph) : l.origin = p /\ ~l.resolved} = given[p].links
  /\ Quiet => docs.nodes = graph.nodes /\ \A l \in Links : docs.edges[l] >= graph.edges[l]

\* Facts of the passes that clear before they add are there once, however often the passes
\* run; an edge is created, not merged, so nothing in the store prevents a second copy.
NoFactTwice == \A l \in Calls \union Tags : graph.edges[l] <= 1

\* What a pass drew on the symbols of a file survives the writes about other files and the
\* re-upsert of its own, as long as both its ends do; only a pass that is about to draw it
\* again takes it away.
FactsOutliveUpserts ==
  [][\A l \in Calls \union Tags :
       l \in Stored(graph) /\ l \notin Stored(graph') =>
         \/ ~({l.src, l.dst} \subseteq Existing(graph'))
         \/ l \in Tags /\ l.src \in untagged'
         \/ l \in Calls /\ l.origin \in unresolved']_storeVars

(***************************************************************************)
(* What is said of the program and is not so: see README.md.               *)
(***************************************************************************)
\* "The same suite runs against every implementer, so they're interchangeable"
\* (core/conformance.py): once quiet, the same writes make the same neighbourhoods.
Interchangeable ==
  Quiet => \A i \in Existing(graph) : Neighbors(docs, i, 2) = Neighbors(graph, i, 2)

\* "ckg embed is re-runnable and idempotent" (design-005): a chunk is linked to the symbols of
\* the text it holds, and once to each.
ChunkLinksCurrent ==
  \A p \in Paths : \A l \in Links :
    l.kind = "CHUNK_OF" /\ l.src = ChunkOf[p] /\ chunked[p] = given[p].ids =>
      graph.edges[l] = IF l.dst \in given[p].ids THEN 1 ELSE 0
=============================================================================
