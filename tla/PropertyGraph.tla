---------------------------- MODULE PropertyGraph ----------------------------
(***************************************************************************)
(* The rows every graph backend keeps (store/_rowmap.py) and the           *)
(* statements its writes are made of (store/kuzu_store.py, neo4j_store.py, *)
(* surreal_store.py).  A database is [nodes, edges]: a row or Missing for  *)
(* each id, and how many edges there are of each (src, dst, kind, origin,  *)
(* source), because edges are created, never merged.                       *)
(***************************************************************************)
EXTENDS Integers, Sequences, FiniteSets, SequencesExt, FiniteSetsExt

CONSTANTS
  Ids,        \* node ids
  Packages,   \* those of external Package nodes
  Links,      \* the edges there may be: [src, dst, kind, origin, resolved]
  Paths, Shared

ASSUME LinksAssumption == \A l \in Links : {l.src, l.dst} \subseteq Ids
ASSUME SharedAssumption == Shared \notin Paths /\ Packages \subseteq Ids
ASSUME FiniteAssumption == IsFiniteSet(Ids) /\ IsFiniteSet(Links)

Missing == [origin |-> "missing", attrs |-> {}]
EmptyDb == [nodes |-> [i \in Ids |-> Missing], edges |-> [l \in Links |-> 0]]
Existing(db) == {i \in Ids : db.nodes[i] # Missing}
OwnedBy(db, p) == {i \in Ids : db.nodes[i].origin = p}
Stored(db) == {l \in Links : db.edges[l] > 0}

Row(origin, attrs) == [origin |-> origin, attrs |-> attrs]

(***************************************************************************)
(* Statements.  `detach' says whether the engine takes a deleted node's    *)
(* edges with it and matches an edge's ends before it creates it: Kuzu and *)
(* Neo4j do, documents in SurrealDB know nothing of each other.            *)
(***************************************************************************)
WithoutEdges(db, gone) == [db EXCEPT !.edges = [l \in Links |-> IF l \in gone THEN 0 ELSE @[l]]]

WithoutNodes(detach, db, ids) ==
  LET rest == [db EXCEPT !.nodes = [i \in Ids |-> IF i \in ids THEN Missing ELSE @[i]]]
  IN IF detach THEN WithoutEdges(rest, {l \in Links : {l.src, l.dst} \intersect ids # {}}) ELSE rest

Merge(db, id, row) == [db EXCEPT !.nodes[id] = row]

Create(detach, db, l) ==
  IF detach /\ ~({l.src, l.dst} \subseteq Existing(db)) THEN db
  ELSE [db EXCEPT !.edges[l] = @ + 1]

\* Package stubs without an edge into them.
Orphans(db) == {p \in Packages : p \in Existing(db) /\ \A l \in Stored(db) : l.dst # p}

\* Mistake: the owner of an edge is not looked at.
AllResolved(paths) == {l \in Links : l.resolved}
ResolvedOf(paths) == {l \in Links : l.origin \in paths /\ l.resolved}

\* Mistake: the other end of the edge is matched.
Into(ids, kind) == {l \in Links : l.dst \in ids /\ l.kind = kind}
OutOf(ids, kind) == {l \in Links : l.src \in ids /\ l.kind = kind}

SetOn(db, id, attrs) ==
  IF id \in Existing(db) THEN [db EXCEPT !.nodes[id].attrs = @ \union attrs] ELSE db

Exec(detach, db, st) ==
  CASE st.do = "merge"     -> Merge(db, st.id, st.row)
    [] st.do = "vanished"  -> WithoutNodes(detach, db, OwnedBy(db, st.path) \ st.keep)
    [] st.do = "disown"    -> WithoutEdges(db, {l \in Links : l.origin = st.path})
    [] st.do = "create"    -> Create(detach, db, st.link)
    [] st.do = "unresolve" -> WithoutEdges(db, ResolvedOf(st.paths))
    [] st.do = "collect"   -> WithoutNodes(detach, db, Orphans(db))
    [] st.do = "clear"     -> WithoutEdges(db, OutOf(st.ids, st.kind))
    [] st.do = "set"       -> SetOn(db, st.id, st.attrs)

\* One transaction.
RunAll(detach, db, sts) ==
  LET after[n \in 0..Len(sts)] == IF n = 0 THEN db ELSE Exec(detach, after[n - 1], sts[n])
  IN after[Len(sts)]

(***************************************************************************)
(* The writes of the GraphStore contract as statements.                    *)
(***************************************************************************)
Merges(ids, origin, attrs) ==
  SetToSeq({[do |-> "merge", id |-> i, row |-> Row(origin, attrs)] : i \in ids})
Creates(links) == SetToSeq({[do |-> "create", link |-> l] : l \in links})

\* Mistake: a file's vanished nodes are left.
MergeOnly(path, ids, attrs, links) ==
  Merges(ids, path, attrs) \o <<[do |-> "disown", path |-> path]>> \o Creates(links)
Upsert(path, ids, attrs, links) ==
  Merges(ids, path, attrs)
    \o <<[do |-> "vanished", path |-> path, keep |-> ids], [do |-> "disown", path |-> path]>>
    \o Creates(links)

Add(ids, attrs, links) == Merges(ids, Shared, attrs) \o Creates(links)

DeleteFile(path) ==
  <<[do |-> "disown", path |-> path], [do |-> "vanished", path |-> path, keep |-> {}]>>

ClearResolved(paths) == <<[do |-> "unresolve", paths |-> paths], [do |-> "collect"]>>
ClearOutgoing(ids, kind) == <<[do |-> "clear", ids |-> ids, kind |-> kind]>>
SetAttrs(id, attrs) == <<[do |-> "set", id |-> id, attrs |-> attrs]>>

(***************************************************************************)
(* Reads.                                                                  *)
(***************************************************************************)
Across(db, ids) == UNION {{l.src, l.dst} : l \in {k \in Stored(db) : {k.src, k.dst} \intersect ids # {}}}

\* neighbors: breadth first, any direction.  Ids are followed whether or not they have
\* a row; only those that have one are returned.
Frontier(db, id, depth) ==
  FoldLeft(LAMBDA seen, step : seen \union Across(db, seen), {id}, [step \in 1..depth |-> step])
Neighbors(db, id, depth) == (Frontier(db, id, depth) \ {id}) \intersect Existing(db)
=============================================================================
