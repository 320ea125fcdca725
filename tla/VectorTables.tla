----------------------------- MODULE VectorTables ----------------------------
(***************************************************************************)
(* The table each vector backend keeps and the statements its writes are   *)
(* made of (store/lance_store.py, pgvector_store.py, surreal_store.py).    *)
(* A table is [made, rows]: whether it was created yet, and a bag of rows  *)
(* [ref, kind, path, text]: LanceDB has no key.                            *)
(***************************************************************************)
EXTENDS Integers, Sequences, FiniteSets, Bags, SequencesExt

CONSTANTS
  KindOf, PathOf,   \* ref -> kind of what was embedded, path of its id
  Queries           \* the vectors searched for, as text -> similarity

Backends == {"lance", "pgvector", "surreal"}
ASSUME QueriesAssumption == \A q \in Queries : \A t \in DOMAIN q : q[t] \in Nat

RowOf(ref, text) == [ref |-> ref, kind |-> KindOf[ref], path |-> PathOf[ref], text |-> text]

\* A connection to SurrealDB defines the table; the others have it from the first upsert.
NoTable(b) == [made |-> b = "surreal", rows |-> EmptyBag]

(***************************************************************************)
(* Statements.                                                             *)
(***************************************************************************)
Fits(row, filter) == \A column \in DOMAIN filter : row[column] = filter[column]
Without(rows, gone) == [r \in {x \in DOMAIN rows : x \notin gone} |-> rows[r]]
OfRefs(table, refs) == {r \in BagToSet(table.rows) : r.ref \in refs}

\* Nothing is deleted from a table that is not there.
Perform(table, st) ==
  CASE st.do = "create" -> [table EXCEPT !.made = TRUE]
    [] st.do = "drop"   -> [table EXCEPT !.rows = Without(@, OfRefs(table, st.refs))]
    [] st.do = "add"    -> [table EXCEPT !.rows = @ (+) SetToBag(st.rows)]
    [] st.do = "put"    -> [table EXCEPT !.rows = Without(@, OfRefs(table, {r.ref : r \in st.rows}))
                                                    (+) SetToBag(st.rows)]
    [] st.do = "delete" -> [table EXCEPT !.rows = Without(@, {r \in DOMAIN @ : Fits(r, st.filter)})]

(***************************************************************************)
(* The writes of the VectorStore contract as statements.                   *)
(***************************************************************************)
\* upsert is delete-then-add.
LanceUpsert(rows) ==
  <<[do |-> "create"], [do |-> "drop", refs |-> {r.ref : r \in rows}], [do |-> "add", rows |-> rows]>>
\* ON CONFLICT (ref) DO UPDATE, all rows in one transaction.
PgUpsert(rows) == <<[do |-> "create"], [do |-> "put", rows |-> rows]>>
SurrealUpsert(rows) == SetToSeq({[do |-> "put", rows |-> {r}] : r \in rows})

UpsertRows(b, rows) ==
  CASE rows = {}      -> <<>>
    [] b = "lance"    -> LanceUpsert(rows)
    [] b = "pgvector" -> PgUpsert(rows)
    [] b = "surreal"  -> SurrealUpsert(rows)

\* A client of Postgres looks for the table when it opens and makes it when it upserts:
\* one that did neither since deletes nothing, and finds nothing.
DeleteWhere(b, seen, filter) ==
  IF b = "pgvector" /\ ~seen THEN <<>> ELSE <<[do |-> "delete", filter |-> filter]>>

(***************************************************************************)
(* Search: the k nearest of the rows that pass the filter.  A row is in an *)
(* answer when fewer than k are nearer; of equals any may be left out.     *)
(***************************************************************************)
Nearer(table, query, row) ==
  BagCardinality(Without(table.rows, {r \in DOMAIN table.rows : query[r.text] <= query[row.text]}))
Nearest(table, query, k, filter) ==
  LET found == [table EXCEPT !.rows = Without(@, {r \in DOMAIN @ : ~Fits(r, filter)})]
  IN {r.ref : r \in {x \in DOMAIN found.rows : Nearer(found, query, x) < k}}

Search(b, seen, table, query, k, filter) ==
  IF ~table.made \/ (b = "pgvector" /\ ~seen) THEN {} ELSE Nearest(table, query, k, filter)
=============================================================================
