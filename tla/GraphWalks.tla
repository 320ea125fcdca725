----------------------------- MODULE GraphWalks ------------------------------
(***************************************************************************)
(* The read tools that answer by walking: retrieve (retrieve/retriever.py: *)
(* vector hits, the symbols they stand for, typed expansion, merge),       *)
(* ckg_neighbors (serve/tools.py) and ckg_trace (serve/federation.py, over *)
(* the ServiceMap).  One step per read of the store; on a server backend  *)
(* another process may take rows out of the graph between two of them.     *)
(***************************************************************************)
EXTENDS ServiceMap, FiniteSetsExt

CONSTANTS
  Ids,        \* nodes
  Made,       \* node -> its provenance
  Symbols,    \* the nodes that as_of filters
  Prose,      \* the nodes of kind DocChunk
  Graphs,     \* sets of edges [src, dst, kind, by]
  Requests,   \* see below
  Weight,     \* provenance -> weight of an edge, in tenths
  Decay,      \* in tenths
  Cap,        \* fanout_cap
  MaxHops,    \* serve.max_depth, 50 of ckg_trace
  MaxRemovals

\* A number of the code is kept times 100^3: three hops lose nothing.
Unit == 1000000

\* A request has: tool; hits, what the search returns, with scores from 0 to 1; symbol, a set
\* of one id or none; similar, the mode without a walk; kinds and direction of the edges walked;
\* depth; llm, include_llm_facts; floor, min_provenance; alive, the symbols of as_of.
ASSUME RequestsAssumption ==
  \A r \in Requests : /\ r.tool \in {"retrieve", "neighbors", "trace"}
                      /\ DOMAIN r.hits \subseteq Ids /\ r.depth \in 0..MaxHops
                      /\ \A h \in DOMAIN r.hits : r.hits[h] \in 0..Unit
                      /\ r.tool # "retrieve" => r.hits = <<>> /\ ~r.similar /\ Cardinality(r.symbol) = 1
\* The store holds each fact once, and no edge without its ends.
Fact(e) == <<e.src, e.dst, e.kind>>
ASSUME GraphsAssumption ==
  \A g \in Graphs : \A e \in g : /\ {e.src, e.dst} \subseteq Ids /\ e.by \in DOMAIN Weight
                               /\ \A f \in g : Fact(f) = Fact(e) => f = e
ASSUME WeightsAssumption == \A s \in DOMAIN Weight : Weight[s] \in 1..10
ASSUME BoundsAssumption == Decay \in 1..9 /\ Cap \in Nat \ {0} /\ MaxHops \in 0..3 /\ MaxRemovals \in Nat

VARIABLES
  nodes, edges,      \* the graph
  request,           \* the call
  pc, todo,          \* the ids the present loop has still to read
  at,                \* the one it is at, as a set
  beside,            \* the edges read there, still to be followed
  items,             \* what was collected: [id, score]
  seeds,             \* id -> score
  frontier, next,    \* id -> score, of this hop and the next
  visited, hop,      \* what was seen, and how far the walk is
  walked,            \* the edges that were followed, as [edge, hop]
  capped,            \* notes: the nodes whose fan-out was cut
  pack,              \* the answer of retrieve: id -> score
  removals
vars == <<nodes, edges, request, pc, todo, at, beside, items, seeds, frontier, next, visited, hop,
          walked, capped, pack, removals>>
graph == <<nodes, edges>>

Goto(to, ids) == pc' = to /\ todo' = ids

Step(score, by) == (score * Decay * Weight[by]) \div 100

Higher(f, id, score) == IF id \in DOMAIN f /\ f[id] > score THEN f[id] ELSE score
With(f, ids, score) == [n \in DOMAIN f \union ids |-> IF n \in ids THEN Higher(f, n, score) ELSE f[n]]

Retrieving == request.tool = "retrieve"
Adjacent(n, kinds, direction) ==
  {e \in edges : /\ e.kind \in kinds
                 /\ \/ direction \in {"out", "both"} /\ e.src = n
                    \/ direction \in {"in", "both"} /\ e.dst = n}
Other(e, n) == IF e.src = n THEN e.dst ELSE e.src

(***************************************************************************)
(* Entry.                                                                  *)
(***************************************************************************)
\* A hit whose node is gone is passed over.
Hit(h) ==
  /\ pc = "hits" /\ at = {} /\ h \in todo
  /\ todo' = todo \ {h}
  /\ at' = {h} \intersect nodes
  /\ items' = items \union {[id |-> n, score |-> request.hits[n]] : n \in at'}
  /\ UNCHANGED <<graph, request, pc, beside, seeds, frontier, next, visited, hop, walked, capped, pack, removals>>

\* A chunk stands for its symbols, a summary for its code, a section of prose for its
\* decision and what it describes; of two scores the higher.
StandsFor(h) ==
  {e.dst : e \in Adjacent(h, {"CHUNK_OF", "SUMMARIZES"}, "out")}
    \union (IF h \notin Prose THEN {}
            ELSE {e.src : e \in Adjacent(h, {"CONTAINS"}, "in")} \union {e.dst : e \in Adjacent(h, {"DESCRIBES"}, "out")})

Seed(h) ==
  /\ pc = "hits" /\ h \in at
  /\ seeds' = IF request.similar THEN seeds ELSE With(seeds, StandsFor(h), request.hits[h])
  /\ at' = {}
  /\ UNCHANGED <<graph, request, pc, todo, beside, items, frontier, next, visited, hop, walked, capped, pack, removals>>

\* The symbol the caller named is a seed of score 1.
Named ==
  /\ pc = "hits" /\ todo = {} /\ at = {}
  /\ seeds' = With(seeds, request.symbol, Unit)
  /\ Goto("seeds", DOMAIN seeds')
  /\ UNCHANGED <<graph, request, at, beside, items, frontier, next, visited, hop, walked, capped, pack, removals>>

Enter(s) ==
  /\ pc = "seeds" /\ s \in todo
  /\ todo' = todo \ {s}
  /\ IF s \in nodes
     THEN items' = items \union {[id |-> s, score |-> seeds[s]]} /\ UNCHANGED seeds
     ELSE seeds' = Restrict(seeds, DOMAIN seeds \ {s}) /\ UNCHANGED items
  /\ UNCHANGED <<graph, request, pc, at, beside, frontier, next, visited, hop, walked, capped, pack, removals>>

\* ckg_neighbors and ckg_trace start at the id they were given, be it there or not.
StartWalk ==
  /\ pc = "seeds" /\ todo = {}
  /\ frontier' = seeds /\ visited' = DOMAIN seeds
  /\ IF request.depth > 0 /\ seeds # <<>> /\ ~request.similar
     THEN Goto("walk", DOMAIN seeds) /\ hop' = 1
     ELSE Goto("merge", {}) /\ UNCHANGED hop
  /\ UNCHANGED <<graph, request, at, beside, items, seeds, next, walked, capped, pack, removals>>

(***************************************************************************)
(* The walk.                                                               *)
(***************************************************************************)
\* Of too many edges the first Cap are kept, and a note is made.
Kept(n) ==
  LET all == Adjacent(n, request.kinds, request.direction)
  IN IF Retrieving /\ Cardinality(all) > Cap THEN {s \in SUBSET all : Cardinality(s) = Cap} ELSE {all}
\* Mistake: the cut is not noted.
NotNoted(n) == capped
Noted(n) ==
  IF Retrieving /\ Cardinality(Adjacent(n, request.kinds, request.direction)) > Cap
  THEN capped \union {n} ELSE capped

Visit(n) ==
  /\ pc = "walk" /\ at = {} /\ n \in todo
  /\ todo' = todo \ {n} /\ at' = {n}
  /\ beside' \in Kept(n)
  /\ capped' = Noted(n)
  /\ UNCHANGED <<graph, request, pc, items, seeds, frontier, next, visited, hop, walked, pack, removals>>

\* What was not seen before is walked from at the next hop, with the score of the first
\* edge to it: a later and better edge changes the item alone.
Unseen(n) == n \notin visited

Follow(e) ==
  /\ pc = "walk" /\ e \in beside
  /\ beside' = beside \ {e}
  /\ \E n \in at :
       LET other == Other(e, n) score == Step(frontier[n], e.by)
       IN IF Retrieving /\ other \notin nodes
          THEN UNCHANGED <<items, visited, next, walked>>
          ELSE /\ items' = IF Retrieving THEN items \union {[id |-> other, score |-> score]} ELSE items
               /\ walked' = IF \E w \in walked : Fact(w.edge) = Fact(e) THEN walked
                            ELSE walked \union {[edge |-> e, hop |-> hop]}
               /\ visited' = visited \union {other}
               /\ next' = IF Unseen(other) THEN With(next, {other}, score) ELSE next
  /\ UNCHANGED <<graph, request, pc, todo, at, seeds, frontier, hop, capped, pack, removals>>

Leave ==
  /\ pc = "walk" /\ at # {} /\ beside = {}
  /\ at' = {}
  /\ UNCHANGED <<graph, request, pc, todo, beside, items, seeds, frontier, next, visited, hop, walked, capped, pack,
                 removals>>

HopsLeft == hop < request.depth /\ next # <<>>

NextHop ==
  /\ pc = "walk" /\ todo = {} /\ at = {}
  /\ frontier' = next /\ next' = <<>>
  /\ IF HopsLeft
     THEN hop' = hop + 1 /\ Goto("walk", DOMAIN next)
     ELSE Goto("merge", {}) /\ UNCHANGED hop
  /\ UNCHANGED <<graph, request, at, beside, items, seeds, visited, walked, capped, pack, removals>>

(***************************************************************************)
(* Merge: filter, then of equal ids the highest score.                     *)
(***************************************************************************)
Trust == [llm |-> 0, parsed |-> 1, resolved |-> 2, manual |-> 3]
Passes(n) ==
  /\ request.llm \/ Made[n] # "llm"
  /\ Trust[Made[n]] >= request.floor
  /\ n \in Symbols => n \in request.alive

Scores(n) == {i.score : i \in {x \in items : x.id = n}}
\* Mistake: the scores of one id add up.
Total(n) == SumSet(Scores(n))
Best(n) == Max(Scores(n))

Merge ==
  /\ pc = "merge"
  /\ pack' = [n \in {i.id : i \in {x \in items : Passes(x.id)}} |-> Best(n)]
  /\ Goto("done", {})
  /\ UNCHANGED <<graph, request, at, beside, items, seeds, frontier, next, visited, hop, walked, capped, removals>>

\* delete_file or clear_resolved of an index run elsewhere; ckg_trace has read the map
\* before it walks.
RemoveNode ==
  /\ pc # "done" /\ removals < MaxRemovals /\ request.tool # "trace"
  /\ \/ \E n \in nodes : nodes' = nodes \ {n} /\ edges' = {e \in edges : n \notin {e.src, e.dst}}
     \/ \E e \in edges : edges' = edges \ {e} /\ UNCHANGED nodes
  /\ removals' = removals + 1
  /\ UNCHANGED <<request, pc, todo, at, beside, items, seeds, frontier, next, visited, hop, walked, capped, pack>>

\* ckg_trace walks the map between services, which it asks for first.
OverServices == edges = ServiceEdges /\ nodes = Services

Init ==
  /\ request \in Requests
  /\ IF request.tool = "trace" THEN OverServices
     ELSE edges \in Graphs /\ nodes = Ids
  /\ IF Retrieving THEN pc = "hits" /\ todo = DOMAIN request.hits /\ seeds = <<>>
     ELSE pc = "seeds" /\ todo = {} /\ seeds = [n \in request.symbol |-> Unit]
  /\ at = {} /\ beside = {} /\ items = {} /\ frontier = <<>> /\ next = <<>> /\ visited = {} /\ hop = 0
  /\ walked = {} /\ capped = {} /\ pack = <<>> /\ removals = 0

Next ==
  \/ \E n \in Ids \union Services : Hit(n) \/ Seed(n) \/ Enter(n) \/ Visit(n)
  \/ Named \/ StartWalk \/ (\E e \in beside : Follow(e)) \/ Leave \/ NextHop \/ Merge
  \/ RemoveNode

Spec == Init /\ [][Next]_vars

(***************************************************************************)
(* Properties.                                                             *)
(***************************************************************************)
Entries == DOMAIN seeds \union DOMAIN request.hits
Beside(n) == {Other(e, n) : e \in Adjacent(n, request.kinds, request.direction)}
\* What is within k hops of the seeds by way of nodes that are not in the way.
Within(k, inTheWay) ==
  LET reach[i \in 0..k] ==
        IF i = 0 THEN DOMAIN seeds ELSE reach[i - 1] \union UNION {Beside(n) : n \in reach[i - 1] \ inTheWay}
  IN reach[k]
FirstHop(e) ==
  Min({i \in 1..MaxHops : \E n \in Within(i - 1, {}) : e \in Adjacent(n, request.kinds, request.direction)})
InReach == IF request.depth = 0 THEN {}
           ELSE UNION {Adjacent(n, request.kinds, request.direction) : n \in Within(request.depth - 1, {})}

\* "overflow noted, not silent", "Cycles terminate (a service is expanded once)": over a
\* graph that stands still retrieve returns all that is within its depth and passes the
\* filters, unless a note names a node whose fan-out was cut on every way to it; neighbors
\* and trace report every edge in reach, trace with the hop it is first met at, and its
\* edges are the calls that are meant for one route: "unique-match-only".
WalkIsComplete ==
  pc = "done" /\ removals = 0 =>
    IF Retrieving
    THEN /\ {n \in DOMAIN request.hits \union Within(IF request.similar THEN 0 ELSE request.depth, capped) :
               Passes(n)} \subseteq DOMAIN pack
         /\ DOMAIN pack \subseteq DOMAIN request.hits \union Within(request.depth, {})
    ELSE /\ walked = {[edge |-> e, hop |-> FirstHop(e)] : e \in InReach}
         /\ visited = Within(request.depth, {})
         /\ request.tool = "trace" => edges = CalledOnce

\* "a ranked, deduped, connected context pack": whatever is removed meanwhile, all but the
\* entries was found over an edge from something that ranks above it.
FoundFromAbove ==
  pc = "done" /\ Retrieving =>
    \A n \in DOMAIN pack \ Entries :
      \E w \in walked : /\ n \in {w.edge.src, w.edge.dst}
                       /\ \E i \in items : i.id = Other(w.edge, n) /\ i.score > pack[n]
=============================================================================
