------------------------------- MODULE ReadProofs -------------------------------
(***************************************************************************)
(* What is proved of what only reads: the walks (GraphWalks) and the       *)
(* queries (QueryExecution).                                               *)
(***************************************************************************)
EXTENDS GraphWalks, QueryExecution, TLAPS, WellFoundedInduction, FiniteSetTheorems

(***************************************************************************)
(* Walks.  Why what retrieve returns is connected and ranked: each node of *)
(* it is an entry, or was found over an edge from a node that ranks above  *)
(* it.                                                                     *)
(***************************************************************************)

Item(n, score) == [id |-> n, score |-> score]

\* What a score is at least at hop h, if those of the hits are at least a hundredth.
AtLeast(h) == IF h <= 1 THEN 10000 ELSE IF h = 2 THEN 100 ELSE IF h = 3 THEN 1 ELSE 0

\* No hit has a score of, or next to, zero: what is found from such a one ties with it.
HitsScore == \A r \in Requests : \A h \in DOMAIN r.hits : r.hits[h] >= AtLeast(0)

\* The item was found over an edge that was followed, from an item above it.
Above(i) ==
  \E w \in walked : /\ i.id \in {w.edge.src, w.edge.dst}
                   /\ \E j \in items : j.id = Other(w.edge, i.id) /\ j.score > i.score

\* The nodes that the walk goes out from have their items.
Listed(f, h) == \A n \in DOMAIN f : f[n] \in AtLeast(h)..Unit /\ Item(n, f[n]) \in items

Types ==
  /\ request \in Requests
  /\ pc \in {"hits", "seeds", "walk", "merge", "done"}
  /\ \A i \in items : i = Item(i.id, i.score) /\ i.score \in 0..Unit
  /\ \A n \in DOMAIN seeds : seeds[n] \in AtLeast(0)..Unit
  /\ \A e \in edges \union beside : e.by \in DOMAIN Weight

EntryInv ==
  /\ pc = "hits" => /\ at \union todo \subseteq DOMAIN request.hits
                    /\ \A i \in items : i.id \in DOMAIN request.hits
  /\ pc \in {"hits", "seeds"} => DOMAIN next = {}
  /\ pc = "seeds" => /\ todo \subseteq DOMAIN seeds /\ at = {}
                     /\ \A s \in DOMAIN seeds \ todo : Item(s, seeds[s]) \in items
                     /\ \A i \in items : i.id \in DOMAIN request.hits \union (DOMAIN seeds \ todo)

HopInv ==
  pc = "walk" => /\ hop \in 1..request.depth
                 /\ todo \union at \subseteq DOMAIN frontier
                 /\ Listed(frontier, hop) /\ Listed(next, hop + 1)
                 /\ \A e \in beside : \A n \in at : n \in {e.src, e.dst}

FoundInv == \A i \in items : i.id \in Entries \/ Above(i)

WalkInv ==
  /\ Types /\ EntryInv /\ HopInv /\ FoundInv
  /\ pc = "done" => pack = [n \in {i.id : i \in {x \in items : Passes(x.id)}} |-> Best(n)]

RetrieveInv == Retrieving => WalkInv

(***************************************************************************)
(* Completeness: where a walk is, over a graph that stands still.          *)
(***************************************************************************)
Around(n) == Adjacent(n, request.kinds, request.direction)
Collected == {i.id : i \in items}
Followed == {w.edge : w \in walked}

\* What had been seen when the hop began.
Old == visited \ DOMAIN next

\* All that is beside n was seen and, but for retrieve, each edge there was followed.
Seen(n, where) == Beside(n) \subseteq where /\ (~Retrieving => Around(n) \subseteq Followed)

StandsStill ==
  /\ IF request.tool = "trace" THEN edges = ServiceEdges /\ nodes = Services ELSE edges \in Graphs /\ nodes = Ids
  /\ request \in Requests /\ seeds = Restrict(seeds, DOMAIN seeds) /\ next = Restrict(next, DOMAIN next)
  /\ ~Retrieving => capped = {}
  /\ pc \in {"hits", "seeds", "walk", "merge", "done"}

BeforeWalk ==
  /\ pc = "hits" => todo \subseteq DOMAIN request.hits /\ DOMAIN request.hits \ todo \subseteq Collected /\ Collected \subseteq DOMAIN request.hits
  /\ pc # "hits" => DOMAIN request.hits \subseteq Collected
  /\ pc = "seeds" => /\ todo \subseteq DOMAIN seeds
                     /\ Collected \subseteq DOMAIN request.hits \union (DOMAIN seeds \ todo)
                     /\ Retrieving => DOMAIN seeds \ todo \subseteq Collected
                     /\ at = {}
  /\ pc \in {"hits", "seeds"} => next = <<>> /\ walked = {}

Walking ==
  /\ hop \in 1..request.depth
  /\ DOMAIN next \subseteq visited /\ todo \subseteq DOMAIN frontier /\ DOMAIN frontier \subseteq Old
  /\ at = {} \/ \E n \in DOMAIN frontier \ todo : at = {n} /\ beside \subseteq Around(n)
  /\ ~request.similar

\* Nothing is seen that is not in reach.
InReachInv ==
  /\ Old \subseteq Within(hop - 1, {}) /\ visited \subseteq Within(hop, {})
  /\ Collected \subseteq DOMAIN request.hits \union visited
  /\ \A w \in walked : /\ w = [edge |-> w.edge, hop |-> w.hop] /\ w.hop \in 1..hop
                       /\ ~Retrieving => w.hop = FirstHop(w.edge)
                       /\ w.edge \in edges /\ \E n \in Within(w.hop - 1, {}) : w.edge \in Around(n)

\* What is in reach is seen, if no cut is in the way.
AllSeenInv ==
  /\ Within(hop - 1, capped) \subseteq Old
  /\ Retrieving => visited \subseteq Collected
  /\ ~Retrieving => Old \ DOMAIN frontier = IF hop = 1 THEN {} ELSE Within(hop - 2, {})
  /\ \A n \in Old \ (DOMAIN frontier \union capped) : Seen(n, Old)
  /\ \A n \in DOMAIN frontier \ (todo \union at \union capped) : Seen(n, visited)
  /\ \A n \in at \ capped : /\ Beside(n) \subseteq visited \union {Other(e, n) : e \in beside}
                            /\ ~Retrieving => Around(n) \subseteq Followed \union beside

WalkDone ==
  IF Retrieving
  THEN /\ Within(IF request.similar THEN 0 ELSE request.depth, capped) \subseteq Collected
       /\ Collected \subseteq DOMAIN request.hits \union Within(request.depth, {})
  ELSE walked = {[edge |-> e, hop |-> FirstHop(e)] : e \in InReach} /\ visited = Within(request.depth, {})

StillInv ==
  /\ StandsStill /\ BeforeWalk
  /\ pc = "walk" => Walking /\ InReachInv /\ AllSeenInv
  /\ pc \in {"merge", "done"} => WalkDone
  /\ pc = "done" /\ Retrieving => DOMAIN pack = {n \in Collected : Passes(n)}

CompleteInv == removals \in Nat /\ (removals = 0 => StillInv)

(***************************************************************************)
(* Operators.                                                              *)
(***************************************************************************)
LEMMA Bounds ==
  /\ Unit \in Nat /\ AtLeast(0) = AtLeast(1)
  /\ \A h \in 0..4 : AtLeast(h) \in 0..Unit
<1>1. Unit \in Nat
  BY SMT DEF Unit
<1>2. AtLeast(0) = AtLeast(1)
  BY SMT DEF AtLeast
<1>3. ASSUME NEW h \in 0..4 PROVE AtLeast(h) \in Int /\ 0 <= AtLeast(h) /\ AtLeast(h) <= Unit
  BY SMT DEF AtLeast, Unit
<1> QED BY <1>1, <1>2, <1>3

\* A step goes down, and not further than to a hundredth.
LEMMA StepsDown ==
  ASSUME NEW h \in 1..3, NEW score \in AtLeast(h)..Unit, NEW by \in DOMAIN Weight
  PROVE  Step(score, by) \in AtLeast(h + 1)..Unit /\ Step(score, by) < score
<1> DEFINE d == Decay w == Weight[by]
<1>1. d \in 1..9 /\ w \in 1..10
  BY BoundsAssumption, WeightsAssumption
<1>2. score \in Nat /\ score >= 1 /\ score <= Unit
  BY SMT DEF AtLeast, Unit
<1>3. PICK p \in 1..90 : d * w = p
  BY <1>1, SMT
<1> HIDE DEF d, w
<1>4. (score * d) * w = score * p
  <2>1. (score * d) * w = score * (d * w)
    BY <1>1, <1>2, SMT
  <2> QED BY <2>1, <1>3
<1> DEFINE m == score * p
<1>5. m \in Int /\ m >= score /\ m <= 90 * score
  BY <1>2, SMT
<1> HIDE DEF m
<1>6. m \div 100 < score /\ m \div 100 >= score \div 100 /\ m \div 100 \in Int
  BY <1>2, <1>5, SMT
<1>7. Step(score, by) = m \div 100
  BY <1>4, Zenon DEF Step, d, w, m
<1>8. score \div 100 >= AtLeast(h + 1) /\ score \div 100 \in Int
  BY <1>2, SMT DEF AtLeast
<1>9. AtLeast(h + 1) \in Nat
  BY Bounds
<1> HIDE DEF AtLeast
<1> QED BY <1>2, <1>6, <1>7, <1>8, <1>9, Bounds

\* The other end of the other end.
LEMMA Ends ==
  ASSUME NEW e, NEW n, n \in {e.src, e.dst}
  PROVE  Other(e, n) \in {e.src, e.dst} /\ Other(e, Other(e, n)) = n
BY DEF Other

LEMMA LeastNat ==
  ASSUME NEW S, S \subseteq Nat, S # {}
  PROVE  \E n \in S : \A m \in S : n <= m
<1> DEFINE R == OpToRel(<, Nat)
<1>1. PICK n \in S : \A m \in S : <<m, n>> \notin R
  BY NatLessThanWellFounded, WFMin, Zenon
<1>2. R = {p \in Nat \X Nat : p[1] < p[2]}
  BY DEF OpToRel
<1> HIDE DEF R
<1>3. \A m \in S : n <= m
  <2> SUFFICES ASSUME NEW m \in S, m < n PROVE FALSE
    OBVIOUS
  <2>1. <<m, n>> \in R
    BY <1>2
  <2> QED BY <1>1, <2>1
<1> QED BY <1>3

LEMMA BestIs ==
  ASSUME NEW n, Types, Scores(n) # {}
  PROVE  Best(n) \in Scores(n)
<1>1. Scores(n) \subseteq 0..Unit /\ Unit \in Nat
  BY Bounds DEF Types, Scores
<1> DEFINE Below == {Unit - s : s \in Scores(n)}
<1>2. Below \subseteq Nat /\ Below # {}
  BY <1>1
<1>3. PICK b \in Below : \A m \in Below : b <= m
  <2> HIDE DEF Below
  <2> QED BY <1>2, LeastNat
<1>4. PICK s \in Scores(n) : b = Unit - s
  OBVIOUS
<1>5. \A x \in Scores(n) : s >= x
  <2> TAKE x \in Scores(n)
  <2>1. Unit - x \in Below
    OBVIOUS
  <2> QED BY <1>1, <1>3, <1>4, <2>1
<1> QED BY <1>5, Zenon DEF Best, Max

(***************************************************************************)
(* The walk.                                                               *)
(***************************************************************************)
LEMMA WalkInit == Init => RetrieveInv
<1> SUFFICES ASSUME Init, Retrieving PROVE WalkInv
  BY DEF RetrieveInv
<1>1. request \in Requests /\ edges \in Graphs
  BY DEF Init, Retrieving
<1>2. pc = "hits" /\ todo = DOMAIN request.hits /\ at = {} /\ items = {} /\ beside = {}
        /\ DOMAIN seeds = {} /\ DOMAIN next = {}
  BY DEF Init
<1> QED BY <1>1, <1>2, GraphsAssumption DEF WalkInv, Types, EntryInv, HopInv, FoundInv

\* What was found stays found: items and edges that were followed are only added.
LEMMA AboveStays ==
  ASSUME NEW i, Above(i), items \subseteq items', walked \subseteq walked'
  PROVE  Above(i)'
BY DEF Above

\* What is listed stays listed.
LEMMA ListedStays ==
  ASSUME NEW f, NEW h, Listed(f, h), items \subseteq items'
  PROVE  Listed(f, h)'
BY DEF Listed

LEMMA HitKeeps == ASSUME WalkInv, Retrieving, NEW h, Hit(h), HitsScore PROVE WalkInv'
<1> USE DEF Hit, graph
<1>1. h \in DOMAIN request.hits /\ request \in Requests
  BY DEF WalkInv, Types, EntryInv
<1>2. request.hits[h] \in 0..Unit
  BY <1>1, RequestsAssumption
<1>3. \A i \in items' : i \in items \/ i = Item(h, request.hits[h])
  BY DEF Item
<1>4. Types'
  BY <1>1, <1>2, <1>3 DEF WalkInv, Types, Item
<1>5. EntryInv'
  BY <1>1, <1>3 DEF WalkInv, EntryInv, Item
<1>6. FoundInv'
  BY <1>5 DEF EntryInv, FoundInv, Entries
<1> QED BY <1>4, <1>5, <1>6 DEF WalkInv, HopInv

LEMMA WithIs ==
  ASSUME NEW f, NEW ids, NEW score
  PROVE  /\ DOMAIN With(f, ids, score) = DOMAIN f \union ids
         /\ \A n \in DOMAIN f \union ids :
              \/ With(f, ids, score)[n] = score /\ n \in ids
              \/ n \in DOMAIN f /\ With(f, ids, score)[n] = f[n]
BY DEF With, Higher

LEMMA WithRanges ==
  ASSUME NEW f, NEW ids, NEW range, NEW score \in range, \A n \in DOMAIN f : f[n] \in range
  PROVE  \A n \in DOMAIN With(f, ids, score) : With(f, ids, score)[n] \in range
<1> TAKE n \in DOMAIN With(f, ids, score)
<1>1. n \in DOMAIN f \union ids
  BY WithIs
<1>2. With(f, ids, score)[n] = score \/ (n \in DOMAIN f /\ With(f, ids, score)[n] = f[n])
  BY <1>1 DEF With, Higher
<1> QED BY <1>2

LEMMA SeedKeeps == ASSUME WalkInv, Retrieving, NEW h, Seed(h), HitsScore PROVE WalkInv'
<1> USE DEF Seed, graph
<1>1. h \in DOMAIN request.hits /\ request \in Requests
  BY DEF WalkInv, Types, EntryInv
<1>2. request.hits[h] \in AtLeast(0)..Unit
  BY <1>1, RequestsAssumption, Bounds DEF HitsScore
<1>3. \A n \in DOMAIN seeds' : seeds'[n] \in AtLeast(0)..Unit
  <2>1. seeds' = seeds \/ seeds' = With(seeds, StandsFor(h), request.hits[h])
    OBVIOUS
  <2>2. \A n \in DOMAIN seeds : seeds[n] \in AtLeast(0)..Unit
    BY DEF WalkInv, Types
  <2>3. \A n \in DOMAIN With(seeds, StandsFor(h), request.hits[h]) :
          With(seeds, StandsFor(h), request.hits[h])[n] \in AtLeast(0)..Unit
    BY <1>2, <2>2, WithRanges, Zenon
  <2> QED BY <2>1, <2>2, <2>3, Zenon
<1>4. Types'
  BY <1>3 DEF WalkInv, Types
<1>5. EntryInv'
  BY DEF WalkInv, EntryInv
<1>6. FoundInv'
  BY <1>5 DEF EntryInv, FoundInv, Entries
<1> QED BY <1>4, <1>5, <1>6 DEF WalkInv, HopInv

LEMMA NamedKeeps == ASSUME WalkInv, Retrieving, Named, HitsScore PROVE WalkInv'
<1> USE DEF Named, Goto, graph
<1>1. Unit \in AtLeast(0)..Unit
  BY Bounds
<1>2. \A n \in DOMAIN seeds' : seeds'[n] \in AtLeast(0)..Unit
  <2>1. \A n \in DOMAIN seeds : seeds[n] \in AtLeast(0)..Unit
    BY DEF WalkInv, Types
  <2> QED BY <1>1, <2>1, WithRanges, Zenon
<1>3. Types'
  BY <1>2 DEF WalkInv, Types
<1>4. EntryInv'
  BY DEF WalkInv, EntryInv
<1>5. FoundInv'
  BY DEF WalkInv, EntryInv, FoundInv, Entries
<1> QED BY <1>3, <1>4, <1>5 DEF WalkInv, HopInv

LEMMA EnterKeeps == ASSUME WalkInv, Retrieving, NEW s, Enter(s) PROVE WalkInv'
<1> USE DEF Enter, graph
<1>1. CASE s \in nodes
  <2>1. items' = items \union {Item(s, seeds[s])} /\ seeds' = seeds /\ s \in DOMAIN seeds
    BY <1>1 DEF Item, WalkInv, EntryInv
  <2>2. seeds[s] \in 0..Unit
    BY <2>1, Bounds DEF WalkInv, Types
  <2>3. Types'
    BY <2>1, <2>2 DEF WalkInv, Types, Item
  <2>4. EntryInv'
    BY <2>1 DEF WalkInv, EntryInv, Item
  <2>5. FoundInv'
    BY <2>4 DEF EntryInv, FoundInv, Entries
  <2> QED BY <2>3, <2>4, <2>5 DEF WalkInv, HopInv
<1>2. CASE s \notin nodes
  <2>1. items' = items /\ seeds' = [x \in DOMAIN seeds \ {s} |-> seeds[x]]
    BY <1>2 DEF Restrict
  <2>2. Types'
    BY <2>1 DEF WalkInv, Types
  <2>3. EntryInv'
    BY <2>1 DEF WalkInv, EntryInv
  <2>4. FoundInv'
    BY <2>3 DEF EntryInv, FoundInv, Entries
  <2> QED BY <2>2, <2>3, <2>4 DEF WalkInv, HopInv
<1> QED BY <1>1, <1>2

LEMMA StartWalkKeeps == ASSUME WalkInv, Retrieving, StartWalk PROVE WalkInv'
<1> USE DEF StartWalk, graph, Goto
<1>1. Listed(seeds, 1)
  BY Bounds DEF WalkInv, Types, EntryInv, Listed
<1>2. request.depth \in Nat
  BY RequestsAssumption, BoundsAssumption DEF WalkInv, Types
<1>3. Types' /\ EntryInv'
  BY DEF WalkInv, Types, EntryInv
<1>4. HopInv'
  BY <1>1, <1>2, ListedStays DEF HopInv, WalkInv, EntryInv, Listed
<1>5. FoundInv'
  BY DEF WalkInv, FoundInv, Entries, Above
<1> QED BY <1>3, <1>4, <1>5 DEF WalkInv

LEMMA VisitKeeps == ASSUME WalkInv, Retrieving, NEW n, Visit(n) PROVE WalkInv'
<1> USE DEF Visit, graph
<1>1. beside' \subseteq Adjacent(n, request.kinds, request.direction)
  BY DEF Kept
<1>2. \A e \in beside' : e \in edges /\ n \in {e.src, e.dst}
  BY <1>1 DEF Adjacent
<1>3. Types'
  BY <1>2 DEF WalkInv, Types
<1>4. HopInv'
  BY <1>2 DEF WalkInv, HopInv, Listed
<1>5. FoundInv'
  BY DEF WalkInv, FoundInv, Entries, Above
<1> QED BY <1>3, <1>4, <1>5 DEF WalkInv, EntryInv

\* The step the ranking rests on: what is found over an edge is below where the walk is.
LEMMA FollowKeeps == ASSUME WalkInv, Retrieving, NEW e, Follow(e) PROVE WalkInv'
<1> USE DEF Follow, graph
<1>1. PICK n \in at :
        LET other == Other(e, n) score == Step(frontier[n], e.by)
        IN IF Retrieving /\ other \notin nodes
           THEN UNCHANGED <<items, visited, next, walked>>
           ELSE /\ items' = IF Retrieving THEN items \union {[id |-> other, score |-> score]} ELSE items
                /\ walked' = IF \E w \in walked : Fact(w.edge) = Fact(e) THEN walked
                             ELSE walked \union {[edge |-> e, hop |-> hop]}
                /\ visited' = visited \union {other}
                /\ next' = IF Unseen(other) THEN With(next, {other}, score) ELSE next
  BY Zenon
<1> DEFINE other == Other(e, n) score == Step(frontier[n], e.by)
<1>2. n \in DOMAIN frontier /\ frontier[n] \in AtLeast(hop)..Unit /\ Item(n, frontier[n]) \in items
  BY <1>1 DEF WalkInv, HopInv, Listed
<1>3. hop \in 1..3 /\ e.by \in DOMAIN Weight /\ n \in {e.src, e.dst}
  BY <1>1, RequestsAssumption, BoundsAssumption DEF WalkInv, HopInv, Types
<1>4. score \in AtLeast(hop + 1)..Unit /\ score < frontier[n]
  BY <1>2, <1>3, StepsDown
<1>5. other \in {e.src, e.dst} /\ Other(e, other) = n
  BY <1>3, Ends
<1> HIDE DEF other, score
<1>6. CASE items' = items /\ walked' = walked /\ next' = next
  BY <1>6 DEF WalkInv, Types, EntryInv, HopInv, FoundInv, Entries, Above, Listed
<1>7. CASE /\ items' = items \union {Item(other, score)}
           /\ walked' = IF \E w \in walked : Fact(w.edge) = Fact(e) THEN walked
                        ELSE walked \union {[edge |-> e, hop |-> hop]}
           /\ next' = IF Unseen(other) THEN With(next, {other}, score) ELSE next
  <2>1. score \in 0..Unit
    BY <1>3, <1>4, Bounds
  <2>2. Types'
    BY <1>7, <2>1 DEF WalkInv, Types, Item
  <2>3. \A x \in DOMAIN next' : next'[x] \in AtLeast(hop + 1)..Unit /\ Item(x, next'[x]) \in items'
    <3>1. \A x \in DOMAIN next : next[x] \in AtLeast(hop + 1)..Unit /\ Item(x, next[x]) \in items'
      BY <1>7 DEF WalkInv, HopInv, Listed
    <3>2. CASE next' = next
      BY <3>1, <3>2
    <3>3. CASE next' = With(next, {other}, score)
      <4> TAKE x \in DOMAIN next'
      <4>1. (next'[x] = score /\ x = other) \/ (x \in DOMAIN next /\ next'[x] = next[x])
        <5>1. x \in DOMAIN next \union {other}
          BY <3>3 DEF With
        <5> QED BY <5>1, <3>3 DEF With, Higher
      <4>2. Item(other, score) \in items'
        BY <1>7
      <4> QED BY <4>1, <4>2, <3>1, <1>4, Zenon
    <3> QED BY <1>7, <3>2, <3>3
  <2>4. HopInv'
    <3>1. Listed(frontier, hop)'
      BY <1>7 DEF WalkInv, HopInv, Listed
    <3>2. Listed(next, hop + 1)'
      BY <2>3 DEF Listed
    <3> QED BY <3>1, <3>2 DEF WalkInv, HopInv
  <2>5. \E w \in walked' : Fact(w.edge) = Fact(e)
    <3>1. CASE \E w \in walked : Fact(w.edge) = Fact(e)
      BY <1>7, <3>1
    <3>2. CASE walked' = walked \union {[edge |-> e, hop |-> hop]}
      <4> DEFINE w == [edge |-> e, hop |-> hop]
      <4>1. w \in walked' /\ w.edge = e
        BY <3>2
      <4> HIDE DEF w
      <4> QED BY <4>1
    <3> QED BY <1>7, <3>1, <3>2
  <2>6. \E w \in walked' : w.edge.src = e.src /\ w.edge.dst = e.dst
    BY <2>5 DEF Fact
  <2>7. ASSUME NEW i, i.id = other, i.score = score PROVE Above(i)'
    <3>1. PICK w \in walked' : w.edge.src = e.src /\ w.edge.dst = e.dst
      BY <2>6
    <3>2. other \in {w.edge.src, w.edge.dst} /\ Other(w.edge, other) = n
      BY <3>1, <1>5 DEF Other
    <3>3. Item(n, frontier[n]) \in items' /\ Item(n, frontier[n]).id = n /\ Item(n, frontier[n]).score = frontier[n]
      BY <1>2, <1>7 DEF Item
    <3>4. frontier[n] > score
      BY <1>2, <1>3, <1>4, Bounds
    <3>5. \E j \in items' : j.id = Other(w.edge, i.id) /\ j.score > i.score
      BY <2>7, <3>2, <3>3, <3>4
    <3> QED BY <2>7, <3>1, <3>2, <3>5 DEF Above
  <2>8. FoundInv'
    <3> SUFFICES ASSUME NEW i \in items' PROVE i.id \in Entries' \/ Above(i)'
      BY DEF FoundInv
    <3>1. Entries' = Entries
      BY DEF Entries
    <3>2. CASE i \in items
      BY <1>7, <3>1, <3>2, AboveStays DEF WalkInv, FoundInv
    <3>3. CASE i = Item(other, score)
      <4>1. Above(i)'
        BY <2>7, <3>3 DEF Item
      <4> QED BY <4>1
    <3> QED BY <1>7, <3>2, <3>3
  <2>9. EntryInv'
    BY DEF EntryInv
  <2> QED BY <2>2, <2>4, <2>8, <2>9 DEF WalkInv
<1> QED BY <1>1, <1>6, <1>7 DEF Item, other, score

LEMMA LeaveKeeps == ASSUME WalkInv, Leave PROVE WalkInv'
BY DEF Leave, graph, WalkInv, Types, EntryInv, HopInv, FoundInv, Entries, Above, Listed

LEMMA NextHopKeeps == ASSUME WalkInv, NextHop PROVE WalkInv'
<1> USE DEF NextHop, graph, Goto
<1>1. Types' /\ EntryInv' /\ FoundInv'
  BY DEF WalkInv, Types, EntryInv, FoundInv, Entries, Above
<1>2. HopInv'
  <2> SUFFICES ASSUME HopsLeft PROVE HopInv'
    BY DEF HopInv
  <2>1. hop' = hop + 1 /\ hop' \in 1..request.depth
    BY RequestsAssumption, BoundsAssumption DEF WalkInv, HopInv, HopsLeft, Types
  <2>2. Listed(next, hop + 1)
    BY DEF WalkInv, HopInv
  <2>3. Listed(frontier, hop)' /\ Listed(next, hop + 1)'
    BY <2>1, <2>2 DEF Listed
  <2> QED BY <2>1, <2>3 DEF HopInv, HopsLeft
<1> QED BY <1>1, <1>2 DEF WalkInv

LEMMA MergeKeeps == ASSUME WalkInv, Merge PROVE WalkInv'
BY DEF Merge, Goto, graph, WalkInv, Types, EntryInv, HopInv, FoundInv, Entries, Above, Best, Scores, Passes

LEMMA RemoveKeeps == ASSUME WalkInv, RemoveNode PROVE WalkInv'
BY DEF RemoveNode, WalkInv, Types, EntryInv, HopInv, FoundInv, Entries, Above, Listed, Best, Scores, Passes

LEMMA WalkStep == ASSUME HitsScore PROVE RetrieveInv /\ [Next]_vars => RetrieveInv'
<1> SUFFICES ASSUME RetrieveInv, [Next]_vars, Retrieving' PROVE WalkInv'
  BY DEF RetrieveInv
<1>1. Retrieving /\ WalkInv
  BY DEF RetrieveInv, Retrieving, Next, vars, Hit, Seed, Named, Enter, StartWalk, Visit, Follow, Leave, NextHop, Merge,
         RemoveNode
<1>2. ASSUME NEW n \in Ids \union Services, Hit(n) \/ Seed(n) \/ Enter(n) \/ Visit(n) PROVE WalkInv'
  BY <1>1, <1>2, HitKeeps, SeedKeeps, EnterKeeps, VisitKeeps
<1>3. CASE Named
  BY <1>1, <1>3, NamedKeeps
<1>4. CASE StartWalk
  BY <1>1, <1>4, StartWalkKeeps
<1>5. ASSUME NEW e \in beside, Follow(e) PROVE WalkInv'
  BY <1>1, <1>5, FollowKeeps
<1>6. CASE Leave
  BY <1>1, <1>6, LeaveKeeps
<1>7. CASE NextHop
  BY <1>1, <1>7, NextHopKeeps
<1>8. CASE Merge
  BY <1>1, <1>8, MergeKeeps
<1>9. CASE RemoveNode
  BY <1>1, <1>9, RemoveKeeps
<1>10. CASE UNCHANGED vars
  BY <1>1, <1>10 DEF vars, WalkInv, Types, EntryInv, HopInv, FoundInv, Entries, Above, Listed, Best, Scores, Passes
<1> QED BY <1>2, <1>3, <1>4, <1>5, <1>6, <1>7, <1>8, <1>9, <1>10 DEF Next

LEMMA FoundIs == ASSUME WalkInv PROVE FoundFromAbove
<1> SUFFICES ASSUME pc = "done", NEW n \in DOMAIN pack \ Entries
             PROVE  \E w \in walked : /\ n \in {w.edge.src, w.edge.dst}
                                      /\ \E i \in items : i.id = Other(w.edge, n) /\ i.score > pack[n]
  BY DEF FoundFromAbove
<1>1. n \in {i.id : i \in {x \in items : Passes(x.id)}} /\ pack[n] = Best(n)
  BY DEF WalkInv
<1>2. Best(n) \in Scores(n)
  BY <1>1, BestIs DEF WalkInv, Scores
<1>3. PICK i \in items : i.id = n /\ i.score = pack[n]
  BY <1>1, <1>2 DEF Scores
<1> QED BY <1>3 DEF WalkInv, FoundInv, Above

\* "a ranked, deduped, connected context pack" (retrieve/retriever.py): for every graph, every request
\* and every removal by another process meanwhile, what is returned and is no entry was found over
\* an edge that was followed from a node whose score is higher.
THEOREM FoundIsConnected == ASSUME HitsScore PROVE Spec => []FoundFromAbove
<1>1. RetrieveInv => FoundFromAbove
  BY FoundIs DEF RetrieveInv, FoundFromAbove
<1> QED BY <1>1, WalkInit, WalkStep, PTL DEF Spec

(***************************************************************************)
(* What is within some hops.                                               *)
(***************************************************************************)
LEMMA WithinIs ==
  ASSUME NEW W
  PROVE  /\ Within(0, W) = DOMAIN seeds
         /\ \A k \in 0..2 : Within(k + 1, W) = Within(k, W) \union UNION {Beside(n) : n \in Within(k, W) \ W}
<1> DEFINE Wider(S) == S \union UNION {Beside(n) : n \in S \ W}
           r0 == DOMAIN seeds
           r1 == Wider(r0)
           r2 == Wider(r1)
           r3 == Wider(r2)
           r == [i \in 0..3 |-> IF i = 0 THEN r0 ELSE IF i = 1 THEN r1 ELSE IF i = 2 THEN r2 ELSE r3]
           Widens(g, k) == g = [i \in 0..k |-> IF i = 0 THEN DOMAIN seeds ELSE Wider(g[i - 1])]
<1>1. ASSUME NEW k \in 0..3 PROVE Within(k, W) = (CHOOSE g : Widens(g, k))[k]
  BY Zenon DEF Within
<1>2. r0 = DOMAIN seeds /\ r1 = Wider(r0) /\ r2 = Wider(r1) /\ r3 = Wider(r2)
  OBVIOUS
<1>3. \A S : Wider(S) = S \union UNION {Beside(n) : n \in S \ W}
  OBVIOUS
<1> HIDE DEF Wider, r0, r1, r2, r3
<1>4. ASSUME NEW k \in 0..3, NEW g, Widens(g, k) PROVE g[k] = r[k]
  <2>1. g = [i \in 0..k |-> IF i = 0 THEN DOMAIN seeds ELSE Wider(g[i - 1])]
    BY <1>4
  <2>2. g[0] = r0
    BY <1>2, <2>1
  <2>3. k >= 1 => g[1] = r1
    BY <1>2, <2>1, <2>2
  <2>4. k >= 2 => g[2] = r2
    BY <1>2, <2>1, <2>3
  <2>5. k = 3 => g[3] = r3
    BY <1>2, <2>1, <2>4
  <2> QED BY <2>2, <2>3, <2>4, <2>5
<1>5. ASSUME NEW k \in 0..3 PROVE \E g : Widens(g, k)
  <2> DEFINE g == [i \in 0..k |-> r[i]]
  <2>1. \A i \in 0..k : g[i] = IF i = 0 THEN DOMAIN seeds ELSE Wider(g[i - 1])
    BY <1>2
  <2>2. g = [i \in 0..k |-> IF i = 0 THEN DOMAIN seeds ELSE Wider(g[i - 1])]
    BY <2>1
  <2>3. Widens(g, k)
    BY <2>2
  <2> HIDE DEF g
  <2> QED BY <2>3
<1>6. ASSUME NEW k \in 0..3 PROVE Within(k, W) = r[k]
  BY <1>1, <1>4, <1>5
<1>7. Within(0, W) = r0 /\ Within(1, W) = r1 /\ Within(2, W) = r2 /\ Within(3, W) = r3
  <2>1. r[0] = r0 /\ r[1] = r1 /\ r[2] = r2 /\ r[3] = r3
    OBVIOUS
  <2> HIDE DEF r
  <2> QED BY <1>6, <2>1
<1> QED BY <1>2, <1>3, <1>7

LEMMA WithinGrows ==
  ASSUME NEW W, NEW j \in 0..3, NEW k \in 0..3, j <= k
  PROVE  Within(j, W) \subseteq Within(k, W)
<1>1. \A i \in 0..2 : Within(i, W) \subseteq Within(i + 1, W)
  BY WithinIs
<1>2. Within(0, W) \subseteq Within(1, W) /\ Within(1, W) \subseteq Within(2, W) /\ Within(2, W) \subseteq Within(3, W)
  <2>1. 0 + 1 = 1 /\ 1 + 1 = 2 /\ 2 + 1 = 3
    OBVIOUS
  <2> QED BY <1>1, <2>1
<1>3. \/ j = 0 /\ k \in 0..3
      \/ j = 1 /\ k \in 1..3
      \/ j = 2 /\ k \in 2..3
      \/ j = 3 /\ k = 3
  OBVIOUS
<1> QED BY <1>2, <1>3

\* What holds the nodes within j hops, and all that is beside a node it holds, holds those
\* within any number.
LEMMA WithinClosed ==
  ASSUME NEW W, NEW S, NEW j \in 0..3, NEW k \in 0..3, j <= k,
         Within(j, W) \subseteq S, \A n \in S \ W : Beside(n) \subseteq S
  PROVE  Within(k, W) \subseteq S
<1>1. \A i \in 0..2 : Within(i, W) \subseteq S => Within(i + 1, W) \subseteq S
  BY WithinIs
<1>2. /\ Within(0, W) \subseteq S => Within(1, W) \subseteq S
      /\ Within(1, W) \subseteq S => Within(2, W) \subseteq S
      /\ Within(2, W) \subseteq S => Within(3, W) \subseteq S
  <2>1. 0 + 1 = 1 /\ 1 + 1 = 2 /\ 2 + 1 = 3
    OBVIOUS
  <2> QED BY <1>1, <2>1
<1>3. \/ j = 0 /\ k \in 0..3
      \/ j = 1 /\ k \in 1..3
      \/ j = 2 /\ k \in 2..3
      \/ j = 3 /\ k = 3
  OBVIOUS
<1> QED BY <1>2, <1>3

LEMMA WithinShrinks ==
  ASSUME NEW V, NEW W, V \subseteq W, NEW k \in 0..3
  PROVE  Within(k, W) \subseteq Within(k, V)
<1>1. \A i \in 0..2 : Within(i, W) \subseteq Within(i, V) => Within(i + 1, W) \subseteq Within(i + 1, V)
  BY WithinIs
<1>2. Within(0, W) \subseteq Within(0, V)
  BY WithinIs
<1>3. 0 + 1 = 1 /\ 1 + 1 = 2 /\ 2 + 1 = 3
  OBVIOUS
<1>4. Within(1, W) \subseteq Within(1, V)
  BY <1>1, <1>2, <1>3
<1>5. Within(2, W) \subseteq Within(2, V)
  BY <1>1, <1>3, <1>4
<1>6. Within(3, W) \subseteq Within(3, V)
  BY <1>1, <1>3, <1>5
<1> QED BY <1>2, <1>4, <1>5, <1>6

LEMMA WithinStays ==
  ASSUME NEW CONSTANT W, NEW CONSTANT k, UNCHANGED <<seeds, edges, request>>
  PROVE  Within(k, W)' = Within(k, W)
BY DEF Within, Beside, Adjacent

LEMMA BesideIs ==
  ASSUME NEW n
  PROVE  /\ Beside(n) = {Other(e, n) : e \in Around(n)}
         /\ \A e \in Around(n) : e \in edges /\ n \in {e.src, e.dst}
BY DEF Beside, Around, Adjacent

(***************************************************************************)
(* Completeness.                                                           *)
(***************************************************************************)
LEMMA RequestIs ==
  ASSUME StandsStill
  PROVE  /\ request.depth \in 0..3
         /\ DOMAIN request.hits \subseteq Ids
         /\ ~Retrieving => DOMAIN request.hits = {} /\ ~request.similar
         /\ Retrieving => nodes = Ids /\ edges \in Graphs
BY RequestsAssumption, BoundsAssumption DEF StandsStill, Retrieving

LEMMA EmptyIs ==
  /\ <<>> = Restrict(<<>>, DOMAIN <<>>)
  /\ \A f : f = Restrict(f, DOMAIN f) /\ DOMAIN f = {} => f = <<>>
<1>1. <<>> = [x \in {} |-> <<>>[x]] /\ DOMAIN <<>> = {}
  OBVIOUS
<1>2. ASSUME NEW f, f = [x \in DOMAIN f |-> f[x]], DOMAIN f = {} PROVE f = <<>>
  BY <1>2
<1> QED BY <1>1, <1>2 DEF Restrict

LEMMA CollectedIs ==
  ASSUME NEW n, NEW score, items' = items \union {[id |-> n, score |-> score]}
  PROVE  Collected' = Collected \union {n}
<1> DEFINE i == [id |-> n, score |-> score]
<1>1. items' = items \union {i} /\ i.id = n
  OBVIOUS
<1> HIDE DEF i
<1> QED BY <1>1 DEF Collected

LEMMA CompleteInit == Init => CompleteInv
<1> SUFFICES ASSUME Init PROVE StillInv /\ removals = 0
  BY DEF CompleteInv
<1> USE DEF Init, OverServices
<1>1. DOMAIN seeds = {} \/ pc = "seeds"
  OBVIOUS
<1>2. seeds = Restrict(seeds, DOMAIN seeds) /\ next = Restrict(next, DOMAIN next)
  <2>1. next = Restrict(next, DOMAIN next)
    BY EmptyIs
  <2>2. CASE seeds = <<>>
    BY <2>2, EmptyIs
  <2>3. CASE seeds = [n \in request.symbol |-> Unit]
    BY <2>3 DEF Restrict
  <2> QED BY <2>1, <2>2, <2>3
<1>3. StandsStill
  BY <1>2 DEF StandsStill, Retrieving
<1>4. BeforeWalk
  BY <1>3, RequestIs DEF BeforeWalk, Collected
<1> QED BY <1>3, <1>4 DEF StillInv

\* The steps before the walk.
LEMMA EntryComplete ==
  ASSUME StillInv, NEW n, Hit(n) \/ Seed(n) \/ Enter(n) \/ Named
  PROVE  StillInv'
<1> USE DEF graph, Goto
<1>1. CASE Hit(n)
  <2> USE <1>1 DEF Hit
  <2>1. n \in DOMAIN request.hits /\ n \in Ids
    BY RequestIs DEF StillInv, BeforeWalk
  <2>2. Retrieving
    BY <2>1, RequestIs DEF StillInv
  <2>3. items' = items \union {[id |-> n, score |-> request.hits[n]]}
    BY <2>1, <2>2, RequestIs DEF StillInv
  <2>4. Collected' = Collected \union {n}
    BY <2>3, CollectedIs
  <2>5. StandsStill'
    BY DEF StillInv, StandsStill, Retrieving
  <2>6. BeforeWalk'
    BY <2>1, <2>4 DEF StillInv, BeforeWalk
  <2> QED BY <2>5, <2>6 DEF StillInv
<1>2. CASE Seed(n)
  <2> USE <1>2 DEF Seed
  <2>1. seeds' = Restrict(seeds', DOMAIN seeds')
    BY DEF With, Restrict, StillInv, StandsStill
  <2>2. StandsStill'
    BY <2>1 DEF StillInv, StandsStill, Retrieving
  <2>3. BeforeWalk'
    BY DEF StillInv, BeforeWalk, Collected
  <2> QED BY <2>2, <2>3 DEF StillInv
<1>3. CASE Enter(n)
  <2> USE <1>3 DEF Enter
  <2>1. seeds' = Restrict(seeds', DOMAIN seeds')
    BY DEF Restrict, StillInv, StandsStill
  <2>2. StandsStill'
    BY <2>1 DEF StillInv, StandsStill, Retrieving
  <2>3. CASE n \in nodes
    <3>1. items' = items \union {[id |-> n, score |-> seeds[n]]} /\ seeds' = seeds
      BY <2>3
    <3>2. Collected' = Collected \union {n}
      BY <3>1, CollectedIs
    <3> QED BY <2>2, <3>1, <3>2 DEF StillInv, BeforeWalk, Retrieving
  <2>4. CASE n \notin nodes
    <3>1. items' = items /\ DOMAIN seeds' = DOMAIN seeds \ {n}
      BY <2>4 DEF Restrict
    <3>2. Collected' = Collected
      BY <3>1 DEF Collected
    <3> QED BY <2>2, <3>1, <3>2 DEF StillInv, BeforeWalk, Retrieving
  <2> QED BY <2>3, <2>4
<1>4. CASE Named
  <2> USE <1>4 DEF Named
  <2>1. seeds' = Restrict(seeds', DOMAIN seeds')
    BY DEF With, Restrict
  <2>2. StandsStill'
    BY <2>1 DEF StillInv, StandsStill, Retrieving
  <2>3. BeforeWalk'
    BY DEF StillInv, BeforeWalk, Collected
  <2> QED BY <2>2, <2>3 DEF StillInv
<1> QED BY <1>1, <1>2, <1>3, <1>4

LEMMA StartComplete == ASSUME StillInv, StartWalk PROVE StillInv'
<1> USE DEF StartWalk, graph, Goto
<1> DEFINE depth == request.depth
<1>1. StandsStill'
  BY DEF StillInv, StandsStill, Retrieving
<1>2. BeforeWalk'
  BY DEF StillInv, BeforeWalk, Collected
<1>3. \A W : Within(0, W) = DOMAIN seeds
  BY WithinIs
<1>4. depth \in 0..3 /\ (~Retrieving => DOMAIN request.hits = {} /\ ~request.similar)
  BY RequestIs DEF StillInv
<1>5. Collected \subseteq DOMAIN request.hits \union DOMAIN seeds /\ (Retrieving => DOMAIN seeds \subseteq Collected)
  BY DEF StillInv, BeforeWalk
<1>6. walked = {} /\ DOMAIN next = {} /\ at = {}
  BY DEF StillInv, BeforeWalk
<1>7. CASE depth > 0 /\ seeds # <<>> /\ ~request.similar
  <2>1. pc' = "walk" /\ hop' = 1 /\ todo' = DOMAIN seeds
    BY <1>7
  <2>2. Old' = DOMAIN seeds /\ Collected' = Collected /\ Retrieving' = Retrieving /\ capped' = capped
    BY <1>6 DEF Old, Collected, Retrieving
  <2>3. Walking'
    BY <2>1, <2>2, <1>4, <1>6, <1>7 DEF Walking
  <2>4. \A W : Within(0, W)' = DOMAIN seeds
    BY <1>3, WithinStays
  <2>5. Within(hop - 1, {})' = DOMAIN seeds /\ Within(hop - 1, capped)' = DOMAIN seeds
    BY <2>1, <2>4
  <2>6. DOMAIN seeds \subseteq Within(hop, {})'
    <3>1. Within(0, {}) \subseteq Within(1, {})
      BY WithinGrows
    <3>2. Within(1, {})' = Within(1, {})
      BY WithinStays
    <3> QED BY <2>1, <3>1, <3>2, <1>3
  <2>7. InReachInv'
    BY <2>1, <2>2, <2>5, <2>6, <1>5, <1>6 DEF InReachInv
  <2>8. AllSeenInv'
    BY <2>1, <2>2, <2>5, <1>5, <1>6 DEF AllSeenInv
  <2> QED BY <1>1, <1>2, <2>1, <2>3, <2>7, <2>8 DEF StillInv
<1>8. CASE ~(depth > 0 /\ seeds # <<>> /\ ~request.similar)
  <2>1. pc' = "merge" /\ Collected' = Collected /\ Retrieving' = Retrieving /\ capped' = capped
    BY <1>8 DEF Collected, Retrieving
  <2>2. depth = 0 \/ DOMAIN seeds = {} \/ request.similar
    BY <1>4, <1>8, EmptyIs DEF StillInv, StandsStill
  <2>3. \A W : DOMAIN seeds = {} => \A k \in 0..3 : Within(k, W) = {}
    <3> SUFFICES ASSUME NEW W, DOMAIN seeds = {}, NEW k \in 0..3 PROVE Within(k, W) \subseteq {}
      OBVIOUS
    <3>1. Within(0, W) \subseteq {} /\ 0 \in 0..3 /\ 0 <= k
      BY <1>3
    <3>2. \A n \in {} \ W : Beside(n) \subseteq {}
      OBVIOUS
    <3> QED BY <3>1, <3>2, WithinClosed, Zenon
  <2>4. CASE Retrieving
    <3>1. Within(IF request.similar THEN 0 ELSE depth, capped) \subseteq DOMAIN seeds
      BY <1>3, <1>4, <2>2, <2>3
    <3>2. DOMAIN seeds \subseteq Within(depth, {})
      BY <1>3, <1>4, WithinGrows
    <3>3. /\ Within(IF request.similar THEN 0 ELSE depth, capped)' = Within(IF request.similar THEN 0 ELSE depth, capped)
          /\ Within(depth, {})' = Within(depth, {})
      BY <2>1, WithinStays
    <3>4. WalkDone'
      BY <2>1, <2>4, <3>1, <3>2, <3>3, <1>5 DEF WalkDone
    <3> QED BY <1>1, <1>2, <2>1, <3>4 DEF StillInv
  <2>5. CASE ~Retrieving
    <3>1. InReach = {} /\ InReach' = {}
      <4>1. CASE depth = 0
        BY <4>1 DEF InReach
      <4>2. CASE depth # 0
        <5>1. Within(depth - 1, {}) = {}
          BY <4>2, <1>4, <2>2, <2>3, <2>5
        <5>2. Within(depth - 1, {})' = {}
          BY <5>1, WithinStays
        <5> QED BY <5>1, <5>2 DEF InReach
      <4> QED BY <4>1, <4>2
    <3>2. visited' = Within(depth, {})
      BY <1>3, <1>4, <2>2, <2>3, <2>5
    <3>3. Within(depth, {})' = Within(depth, {})
      BY <2>1, WithinStays
    <3>4. WalkDone'
      BY <2>1, <2>5, <3>1, <3>2, <3>3, <1>6 DEF WalkDone
    <3> QED BY <1>1, <1>2, <2>1, <3>4 DEF StillInv
  <2> QED BY <2>4, <2>5
<1> QED BY <1>7, <1>8

\* While it walks, neither the graph nor where it began changes.
LEMMA StillStays ==
  ASSUME StillInv, pc = "walk", UNCHANGED <<graph, request, seeds, removals>>,
         pc' \in {"walk", "merge"}, next' = Restrict(next', DOMAIN next'), ~Retrieving => capped' = {},
         Collected \subseteq Collected'
  PROVE  StandsStill' /\ BeforeWalk'
BY DEF StillInv, StandsStill, BeforeWalk, Retrieving, graph

LEMMA VisitComplete == ASSUME StillInv, NEW n, Visit(n) PROVE StillInv'
<1> USE DEF Visit, graph
<1>1. Walking /\ InReachInv /\ AllSeenInv
  BY DEF StillInv
<1>2. capped \subseteq capped' /\ (~Retrieving => capped' = {})
  BY DEF Noted, StillInv, StandsStill
<1>3. Collected' = Collected /\ Old' = Old /\ Followed' = Followed /\ Retrieving' = Retrieving
  BY DEF Collected, Old, Followed, Retrieving
<1>4. StandsStill' /\ BeforeWalk'
  BY <1>2, <1>3, StillStays DEF StillInv, StandsStill
<1>5. \A m : Around(m)' = Around(m) /\ Beside(m)' = Beside(m)
  BY DEF Around, Beside, Adjacent
<1>6. \A m, where : Seen(m, where)' = Seen(m, where)
  BY <1>3, <1>5 DEF Seen
<1>7. \A w : FirstHop(w.edge)' = FirstHop(w.edge)
  BY WithinStays DEF FirstHop, Adjacent
<1>8. beside' \subseteq Around(n) /\ (n \notin capped' => beside' = Around(n))
  BY DEF Kept, Noted, Around
<1>9. Walking'
  BY <1>1, <1>3, <1>5, <1>8 DEF Walking
<1>10. InReachInv'
  BY <1>1, <1>3, <1>5, <1>7, WithinStays DEF InReachInv
<1>11. hop - 1 \in 0..3
  BY <1>1, RequestIs DEF StillInv, Walking
<1>12. Within(hop - 1, capped') \subseteq Within(hop - 1, capped)
  BY <1>2, <1>11, WithinShrinks
<1>13. Within(hop - 1, capped)' \subseteq Old
  BY <1>1, <1>12, WithinStays DEF AllSeenInv
<1>14. n \notin capped' => Beside(n) = {Other(e, n) : e \in beside'}
  BY <1>8, BesideIs
<1>15. AllSeenInv'
  BY <1>1, <1>2, <1>3, <1>5, <1>6, <1>8, <1>13, <1>14, WithinStays DEF AllSeenInv
<1> QED BY <1>4, <1>9, <1>10, <1>15 DEF StillInv

\* Of the edges that stand the fact tells which.
LEMMA FactsDiffer ==
  ASSUME StandsStill, NEW e \in edges, NEW f \in edges, Fact(e) = Fact(f)
  PROVE  e = f
<1>1. CASE edges \in Graphs
  BY <1>1, GraphsAssumption
<1>2. CASE edges = ServiceEdges
  <2>1. \A x \in ServiceEdges : x = [src |-> x.src, dst |-> x.dst, kind |-> x.kind, by |-> "resolved"]
    BY DEF ServiceEdges, CallEdge
  <2> QED BY <1>2, <2>1 DEF Fact
<1> QED BY <1>1, <1>2 DEF StandsStill

\* An edge that was not followed before this hop is met first at this hop.
LEMMA FirstHopIs ==
  ASSUME StillInv, pc = "walk", ~Retrieving, NEW n \in DOMAIN frontier, NEW e \in Around(n), e \notin Followed
  PROVE  FirstHop(e) = hop
<1>1. Walking /\ InReachInv /\ AllSeenInv /\ capped = {}
  BY DEF StillInv, StandsStill
<1> DEFINE Met == {i \in 1..MaxHops : \E m \in Within(i - 1, {}) : e \in Around(m)}
<1>2. hop \in 1..3 /\ hop \in 1..MaxHops /\ MaxHops \in 0..3
  BY <1>1, RequestsAssumption, BoundsAssumption DEF Walking, StillInv, StandsStill
<1>3. hop \in Met
  BY <1>1, <1>2 DEF Walking, InReachInv
<1>4. \A i \in Met : hop <= i
  <2> SUFFICES ASSUME NEW i \in Met, i < hop PROVE FALSE
    BY <1>2
  <2>1. PICK m \in Within(i - 1, {}) : e \in Around(m)
    OBVIOUS
  <2>2. Within(i - 1, {}) \subseteq Within(hop - 2, {})
    BY <1>2, WithinGrows
  <2>3. m \in Old \ DOMAIN frontier
    BY <1>1, <1>2, <2>1, <2>2 DEF AllSeenInv
  <2>4. Seen(m, Old)
    BY <1>1, <2>3 DEF AllSeenInv
  <2> QED BY <2>1, <2>4 DEF Seen
<1>5. FirstHop(e) = Min(Met)
  BY DEF FirstHop, Around
<1> HIDE DEF Met
<1>6. Met \subseteq Int
  BY DEF Met
<1>7. \A x \in Met : (\A y \in Met : x <= y) => x = hop
  BY <1>2, <1>3, <1>4, <1>6
<1>8. Min(Met) = hop
  BY <1>3, <1>4, <1>7 DEF Min
<1> QED BY <1>5, <1>8

LEMMA FollowComplete == ASSUME StillInv, NEW e, e \in beside, Follow(e) PROVE StillInv'
<1> USE DEF Follow, graph
<1>1. Walking /\ InReachInv /\ AllSeenInv
  BY DEF StillInv
<1>2. PICK n \in at :
        LET other == Other(e, n) score == Step(frontier[n], e.by)
        IN IF Retrieving /\ other \notin nodes
           THEN UNCHANGED <<items, visited, next, walked>>
           ELSE /\ items' = IF Retrieving THEN items \union {[id |-> other, score |-> score]} ELSE items
                /\ walked' = IF \E w \in walked : Fact(w.edge) = Fact(e) THEN walked
                             ELSE walked \union {[edge |-> e, hop |-> hop]}
                /\ visited' = visited \union {other}
                /\ next' = IF Unseen(other) THEN With(next, {other}, score) ELSE next
  BY Zenon
<1> DEFINE other == Other(e, n) score == Step(frontier[n], e.by)
<1>3. at = {n} /\ n \in DOMAIN frontier \ todo /\ beside \subseteq Around(n) /\ e \in Around(n) /\ n \in Old
  BY <1>1, <1>2 DEF Walking
<1>4. e \in edges /\ n \in {e.src, e.dst} /\ other \in Beside(n) /\ other \in {e.src, e.dst}
  BY <1>3, BesideIs, Ends
<1>5. Retrieving => other \in nodes
  BY <1>4, RequestIs, GraphsAssumption DEF StillInv
<1> HIDE DEF other, score
<1>6. /\ items' = IF Retrieving THEN items \union {[id |-> other, score |-> score]} ELSE items
      /\ walked' = IF \E w \in walked : Fact(w.edge) = Fact(e) THEN walked ELSE walked \union {[edge |-> e, hop |-> hop]}
      /\ visited' = visited \union {other}
      /\ next' = IF Unseen(other) THEN With(next, {other}, score) ELSE next
  BY <1>2, <1>5 DEF other, score
<1>7. Collected' = IF Retrieving THEN Collected \union {other} ELSE Collected
  <2>1. CASE Retrieving
    BY <1>6, <2>1, CollectedIs
  <2>2. CASE ~Retrieving
    BY <1>6, <2>2 DEF Collected
  <2> QED BY <2>1, <2>2
<1>8. DOMAIN next' = IF other \in visited THEN DOMAIN next ELSE DOMAIN next \union {other}
  BY <1>6 DEF Unseen, With
<1>9. Old' = Old
  BY <1>1, <1>6, <1>8 DEF Old, Walking
<1>10. hop - 1 \in 0..2 /\ hop \in 0..3
  BY <1>1, RequestIs DEF StillInv, Walking
<1>11. other \in Within(hop, {})
  <2>1. n \in Within(hop - 1, {})
    BY <1>1, <1>3 DEF InReachInv
  <2>2. Beside(n) \subseteq Within((hop - 1) + 1, {})
    BY <1>10, <2>1, WithinIs
  <2>3. (hop - 1) + 1 = hop
    BY <1>10
  <2> QED BY <1>4, <2>2, <2>3
<1>12. StandsStill' /\ BeforeWalk'
  <2>1. next' = Restrict(next', DOMAIN next')
    BY <1>6 DEF With, Restrict, StillInv, StandsStill
  <2> QED BY <1>7, <2>1, StillStays DEF StillInv, StandsStill
<1>13. Retrieving' = Retrieving /\ \A m : Around(m)' = Around(m) /\ Beside(m)' = Beside(m)
  BY DEF Around, Beside, Adjacent, Retrieving
<1>14. \A w : FirstHop(w.edge)' = FirstHop(w.edge)
  BY WithinStays DEF FirstHop, Adjacent
<1>15. Walking'
  BY <1>1, <1>3, <1>6, <1>8, <1>9, <1>13 DEF Walking
<1>16. /\ \A w \in walked' : w \in walked \/ (w = [edge |-> e, hop |-> hop] /\ (~Retrieving => FirstHop(e) = hop))
       /\ Followed \subseteq Followed' /\ (~Retrieving => e \in Followed')
  <2>1. CASE \E w \in walked : Fact(w.edge) = Fact(e)
    <3>1. PICK w \in walked : Fact(w.edge) = Fact(e)
      BY <2>1
    <3>2. w.edge = e
      <4>1. w.edge \in edges
        BY <1>1, <3>1, Zenon DEF InReachInv
      <4> QED BY <1>4, <3>1, <4>1, FactsDiffer DEF StillInv
    <3> QED BY <1>6, <2>1, <3>1, <3>2 DEF Followed
  <2>2. CASE ~\E w \in walked : Fact(w.edge) = Fact(e)
    <3>1. e \notin Followed
      BY <2>2 DEF Followed
    <3>2. ~Retrieving => FirstHop(e) = hop
      BY <1>3, <3>1, FirstHopIs
    <3>3. walked' = walked \union {[edge |-> e, hop |-> hop]}
      BY <1>6, <2>2
    <3>4. Followed' = Followed \union {e}
      <4> DEFINE w == [edge |-> e, hop |-> hop]
      <4>1. walked' = walked \union {w} /\ w.edge = e
        BY <3>3
      <4> HIDE DEF w
      <4> QED BY <4>1 DEF Followed
    <3> QED BY <3>2, <3>3, <3>4
  <2> QED BY <2>1, <2>2
<1>17. InReachInv'
  <2>1. Old' \subseteq Within(hop - 1, {})' /\ visited' \subseteq Within(hop, {})'
    BY <1>1, <1>6, <1>9, <1>11, WithinStays DEF InReachInv
  <2>2. Collected' \subseteq DOMAIN request'.hits \union visited'
    BY <1>1, <1>6, <1>7 DEF InReachInv
  <2>3. ASSUME NEW w \in walked'
        PROVE  /\ w = [edge |-> w.edge, hop |-> w.hop] /\ w.hop \in 1..hop
               /\ ~Retrieving => w.hop = FirstHop(w.edge)
               /\ w.edge \in edges /\ \E m \in Within(w.hop - 1, {}) : w.edge \in Around(m)
    <3>1. CASE w \in walked
      BY <1>1, <3>1, Zenon DEF InReachInv
    <3>2. CASE w = [edge |-> e, hop |-> hop] /\ (~Retrieving => FirstHop(e) = hop)
      <4>1. w.edge = e /\ w.hop = hop
        BY <3>2
      <4> QED BY <1>1, <1>3, <1>4, <1>10, <3>2, <4>1 DEF InReachInv, Walking
    <3> QED BY <1>16, <3>1, <3>2
  <2>4. \A w \in walked' : Within(w.hop - 1, {})' = Within(w.hop - 1, {})
    BY WithinStays
  <2> QED BY <1>13, <1>14, <2>1, <2>2, <2>3, <2>4 DEF InReachInv
<1>18. \A m : Seen(m, Old) => Seen(m, Old)'
  BY <1>9, <1>13, <1>16 DEF Seen
<1>19. \A m : Seen(m, visited) => Seen(m, visited)'
  BY <1>6, <1>13, <1>16 DEF Seen
<1>20. AllSeenInv'
  <2>1. Within(hop - 1, capped)' \subseteq Old'
    BY <1>1, <1>9, WithinStays DEF AllSeenInv
  <2>2. Retrieving => visited' \subseteq Collected'
    BY <1>1, <1>6, <1>7 DEF AllSeenInv
  <2>3. Within(hop - 2, {})' = Within(hop - 2, {})
    BY WithinStays
  <2>4. ASSUME NEW m \in at, m \notin capped
        PROVE  /\ Beside(m)' \subseteq visited' \union {Other(f, m) : f \in beside'}
               /\ ~Retrieving => Around(m)' \subseteq Followed' \union beside'
    <3>1. m = n
      BY <1>3, <2>4
    <3>2. Beside(n) \subseteq visited \union {Other(f, n) : f \in beside}
      BY <1>1, <2>4, <3>1 DEF AllSeenInv
    <3>3. visited \union {Other(f, n) : f \in beside} \subseteq visited' \union {Other(f, n) : f \in beside'}
      BY <1>6 DEF other
    <3>4. ~Retrieving => Around(n) \subseteq Followed \union beside
      BY <1>1, <2>4, <3>1 DEF AllSeenInv
    <3> QED BY <1>13, <1>16, <3>1, <3>2, <3>3, <3>4
  <2> QED BY <1>1, <1>9, <1>13, <1>18, <1>19, <2>1, <2>2, <2>3, <2>4 DEF AllSeenInv
<1> QED BY <1>12, <1>15, <1>17, <1>20 DEF StillInv

LEMMA LeaveComplete == ASSUME StillInv, Leave PROVE StillInv'
<1> USE DEF Leave, graph
<1>1. Walking /\ InReachInv /\ AllSeenInv
  BY DEF StillInv
<1>2. StandsStill' /\ BeforeWalk'
  BY StillStays DEF StillInv, StandsStill, Collected
<1>3. /\ Collected' = Collected /\ Old' = Old /\ Followed' = Followed /\ Retrieving' = Retrieving
      /\ \A m : Around(m)' = Around(m) /\ Beside(m)' = Beside(m)
  BY DEF Collected, Old, Followed, Retrieving, Around, Beside, Adjacent
<1>4. \A m, where : Seen(m, where)' = Seen(m, where)
  BY <1>3 DEF Seen
<1>5. \A w : FirstHop(w.edge)' = FirstHop(w.edge)
  BY WithinStays DEF FirstHop, Adjacent
<1>6. Walking' /\ InReachInv'
  BY <1>1, <1>3, <1>5, WithinStays DEF Walking, InReachInv
<1>7. \A m \in at \ capped : Seen(m, visited)
  BY <1>1 DEF AllSeenInv, Seen
<1>8. AllSeenInv'
  BY <1>1, <1>3, <1>4, <1>7, WithinStays DEF AllSeenInv
<1> QED BY <1>2, <1>6, <1>8 DEF StillInv

LEMMA NextHopComplete == ASSUME StillInv, NextHop PROVE StillInv'
<1> USE DEF NextHop, graph, Goto
<1> DEFINE depth == request.depth
<1>1. Walking /\ InReachInv /\ AllSeenInv
  BY DEF StillInv
<1>2. next' = Restrict(next', DOMAIN next') /\ DOMAIN next' = {}
  BY EmptyIs
<1>3. StandsStill' /\ BeforeWalk'
  BY <1>2, StillStays DEF StillInv, StandsStill, Collected
<1>4. /\ Collected' = Collected /\ Old' = visited /\ Followed' = Followed /\ Retrieving' = Retrieving
      /\ \A m : Around(m)' = Around(m) /\ Beside(m)' = Beside(m)
  BY <1>2 DEF Collected, Old, Followed, Retrieving, Around, Beside, Adjacent
<1>5. \A m : Seen(m, Old)' <=> Seen(m, visited)
  BY <1>4 DEF Seen
<1>6. \A w : FirstHop(w.edge)' = FirstHop(w.edge)
  BY WithinStays DEF FirstHop, Adjacent
<1>7. hop \in 1..depth /\ depth \in 0..3 /\ hop - 1 \in 0..2 /\ (hop - 1) + 1 = hop
  BY <1>1, RequestIs DEF StillInv, Walking
<1>8. \A n \in Old \ capped : Seen(n, visited)
  <2>1. \A n \in Old \ capped : Seen(n, Old) \/ Seen(n, visited)
    BY <1>1 DEF AllSeenInv
  <2> QED BY <2>1 DEF Seen, Old
<1>9. Within(hop, capped) \subseteq visited
  <2>1. Within(hop - 1, capped) \subseteq Old
    BY <1>1 DEF AllSeenInv
  <2>2. Within(hop, capped) = Within(hop - 1, capped) \union UNION {Beside(n) : n \in Within(hop - 1, capped) \ capped}
    BY <1>7, WithinIs
  <2> QED BY <1>8, <2>1, <2>2 DEF Seen, Old
<1>10. ~Retrieving => capped = {} /\ visited = Within(hop, {}) /\ Old = Within(hop - 1, {})
  BY <1>1, <1>9 DEF StillInv, StandsStill, InReachInv, AllSeenInv
<1>11. CASE HopsLeft
  <2> PICK h : h = hop
    OBVIOUS
  <2>1. hop' = h + 1 /\ pc' = "walk" /\ h < depth /\ todo' = DOMAIN next /\ frontier' = next
    BY <1>11 DEF HopsLeft
  <2>2. hop' - 1 = h /\ hop' - 2 = h - 1 /\ hop' \in 1..depth /\ hop' # 1 /\ h + 1 \in 0..3 /\ 1..h \subseteq 1..hop'
    BY <1>7, <2>1
  <2>3. Walking'
    BY <1>1, <1>2, <1>4, <2>1, <2>2 DEF Walking
  <2>4. Within(hop, {})' = Within(h + 1, {}) /\ Within(hop - 1, {})' = Within(h, {})
        /\ Within(hop - 1, capped)' = Within(h, capped) /\ Within(hop - 2, {})' = Within(h - 1, {})
    BY <2>1, <2>2, WithinStays
  <2>5. Within(h, {}) \subseteq Within(h + 1, {})
    BY <1>7, <2>1, WithinGrows
  <2>6. InReachInv'
    <3>1. Old' \subseteq Within(hop - 1, {})' /\ visited' \subseteq Within(hop, {})' /\ Collected' \subseteq DOMAIN request'.hits \union visited'
      BY <1>1, <1>4, <2>4, <2>5 DEF InReachInv
    <3>2. \A w \in walked : Within(w.hop - 1, {})' = Within(w.hop - 1, {})
      BY WithinStays
    <3> QED BY <1>1, <1>4, <1>6, <2>2, <3>1, <3>2 DEF InReachInv
  <2>7. AllSeenInv'
    <3>1. Old' \ DOMAIN frontier' = Old
      BY <1>1, <1>4, <2>1 DEF Old
    <3>2. \A n \in Old \ capped : Seen(n, Old)'
      BY <1>5, <1>8
    <3>3. Retrieving => visited \subseteq Collected
      BY <1>1 DEF AllSeenInv
    <3> QED BY <1>4, <1>9, <1>10, <2>1, <2>2, <2>4, <3>1, <3>2, <3>3 DEF AllSeenInv
  <2> QED BY <1>3, <2>1, <2>3, <2>6, <2>7 DEF StillInv
<1>12. CASE ~HopsLeft
  <2>1. pc' = "merge" /\ hop' = hop /\ ~request.similar
    BY <1>1, <1>12 DEF Walking
  <2>2. Within(depth, capped) \subseteq visited
    <3>1. CASE hop = depth
      BY <1>9, <3>1
    <3>2. CASE next = <<>>
      <4>1. visited = Old
        BY <3>2 DEF Old
      <4>2. \A n \in visited \ capped : Beside(n) \subseteq visited
        BY <1>8, <4>1 DEF Seen
      <4>3. hop \in 0..3 /\ depth \in 0..3 /\ hop <= depth
        BY <1>7
      <4> HIDE DEF depth
      <4> QED BY <1>9, <4>2, <4>3, WithinClosed, Zenon
    <3> QED BY <1>7, <1>12, <3>1, <3>2 DEF HopsLeft
  <2>3. visited \subseteq Within(depth, {})
    <3>1. Within(hop, {}) \subseteq Within(depth, {})
      BY <1>7, WithinGrows
    <3> QED BY <1>1, <3>1 DEF InReachInv
  <2>4. Within(depth, {})' = Within(depth, {}) /\ Within(depth, capped)' = Within(depth, capped)
        /\ Within(0, capped)' = Within(0, capped)
    BY WithinStays
  <2>5. CASE Retrieving
    <3>1. visited \subseteq Collected /\ Collected \subseteq DOMAIN request.hits \union visited
      BY <1>1, <2>5 DEF InReachInv, AllSeenInv
    <3>2. WalkDone'
      BY <1>4, <2>1, <2>2, <2>3, <2>4, <2>5, <3>1 DEF WalkDone
    <3> QED BY <1>3, <2>1, <2>5, <3>2, <1>4 DEF StillInv
  <2>6. CASE ~Retrieving
    <3>1. depth # 0 /\ depth - 1 \in 0..3 /\ InReach = UNION {Around(n) : n \in Within(depth - 1, {})}
      BY <1>7 DEF InReach, Around
    <3>2. Within(depth - 1, {}) \subseteq Old
      <4>1. CASE hop = depth
        BY <1>10, <2>6, <4>1
      <4>2. CASE next = <<>>
        <5>1. visited = Old
          BY <4>2 DEF Old
        <5>2. Within(depth - 1, {}) \subseteq Within(depth, {})
          BY <1>7, <3>1, WithinGrows
        <5> QED BY <1>10, <2>2, <2>6, <5>1, <5>2
      <4> QED BY <1>7, <1>12, <4>1, <4>2 DEF HopsLeft
    <3>3. Followed = InReach
      <4>1. InReach \subseteq Followed
        BY <1>8, <1>10, <2>6, <3>1, <3>2 DEF Seen
      <4>2. ASSUME NEW w \in walked PROVE w.edge \in InReach
        <5>1. w.hop \in 1..hop /\ \E n \in Within(w.hop - 1, {}) : w.edge \in Around(n)
          BY <1>1 DEF InReachInv
        <5>2. Within(w.hop - 1, {}) \subseteq Within(depth - 1, {})
          BY <1>7, <3>1, <5>1, WithinGrows
        <5> QED BY <3>1, <5>1, <5>2
      <4> QED BY <4>1, <4>2 DEF Followed
    <3>4. walked = {[edge |-> e, hop |-> FirstHop(e)] : e \in InReach}
      <4>1. \A w \in walked : w = [edge |-> w.edge, hop |-> FirstHop(w.edge)]
        BY <1>1, <2>6 DEF InReachInv
      <4> QED BY <3>3, <4>1 DEF Followed
    <3>5. InReach' = InReach
      <4>1. Within(depth - 1, {})' = Within(depth - 1, {})
        BY WithinStays
      <4>2. InReach' = UNION {Around(n)' : n \in Within(depth - 1, {})'}
        BY <3>1 DEF InReach, Around
      <4> QED BY <1>4, <3>1, <4>1, <4>2
    <3>6. \A e : FirstHop(e)' = FirstHop(e)
      BY WithinStays DEF FirstHop, Adjacent
    <3>7. WalkDone'
      <4>1. {[edge |-> e, hop |-> FirstHop(e)] : e \in InReach}' = {[edge |-> e, hop |-> FirstHop(e)] : e \in InReach}
        BY <3>5, <3>6
      <4>2. visited = Within(depth, {})
        BY <1>10, <2>2, <2>3, <2>6
      <4> QED BY <1>4, <2>4, <2>6, <3>4, <4>1, <4>2 DEF WalkDone
    <3> QED BY <1>3, <2>1, <2>6, <3>7, <1>4 DEF StillInv
  <2> QED BY <2>5, <2>6
<1> QED BY <1>11, <1>12

LEMMA MergeComplete == ASSUME StillInv, Merge PROVE StillInv'
<1> USE DEF Merge, graph, Goto
<1>1. StandsStill' /\ BeforeWalk'
  BY DEF StillInv, StandsStill, BeforeWalk, Retrieving, Collected
<1>2. Collected' = Collected /\ Retrieving' = Retrieving
  BY DEF Collected, Retrieving
<1>3. WalkDone'
  <2>1. WalkDone' = WalkDone
    BY DEF WalkDone, Retrieving, Collected, Within, InReach, FirstHop, Beside, Adjacent
  <2> QED BY <2>1 DEF StillInv
<1>4. DOMAIN pack' = {n \in Collected : Passes(n)}
  BY DEF Collected
<1>5. \A n : Passes(n)' = Passes(n)
  BY DEF Passes
<1> QED BY <1>1, <1>2, <1>3, <1>4, <1>5 DEF StillInv

LEMMA CompleteStep == CompleteInv /\ [Next]_vars => CompleteInv'
<1> SUFFICES ASSUME CompleteInv, [Next]_vars PROVE CompleteInv'
  OBVIOUS
<1>1. CASE RemoveNode
  BY <1>1 DEF RemoveNode, CompleteInv
<1>2. CASE removals' = removals /\ (removals = 0 => StillInv')
  BY <1>2 DEF CompleteInv
<1>3. ASSUME NEW n \in Ids \union Services, Hit(n) \/ Seed(n) \/ Enter(n) \/ Visit(n) PROVE CompleteInv'
  BY <1>2, <1>3, EntryComplete, VisitComplete DEF CompleteInv, Hit, Seed, Enter, Visit
<1>4. CASE Named
  BY <1>2, <1>4, EntryComplete DEF CompleteInv, Named
<1>5. CASE StartWalk
  BY <1>2, <1>5, StartComplete DEF CompleteInv, StartWalk
<1>6. ASSUME NEW e \in beside, Follow(e) PROVE CompleteInv'
  BY <1>2, <1>6, FollowComplete DEF CompleteInv, Follow
<1>7. CASE Leave
  BY <1>2, <1>7, LeaveComplete DEF CompleteInv, Leave
<1>8. CASE NextHop
  BY <1>2, <1>8, NextHopComplete DEF CompleteInv, NextHop
<1>9. CASE Merge
  BY <1>2, <1>9, MergeComplete DEF CompleteInv, Merge
<1>10. CASE UNCHANGED vars
  <2> USE <1>10 DEF vars
  <2>1. StandsStill' = StandsStill /\ BeforeWalk' = BeforeWalk /\ Walking' = Walking
    BY DEF StandsStill, BeforeWalk, Walking, Retrieving, Collected, Old, Around, Adjacent
  <2>2. InReachInv' = InReachInv /\ AllSeenInv' = AllSeenInv
    BY DEF InReachInv, AllSeenInv, Old, Collected, Followed, Seen, Retrieving, Within, FirstHop, Around, Beside, Adjacent
  <2>3. WalkDone' = WalkDone
    BY DEF WalkDone, Retrieving, Collected, Within, InReach, FirstHop, Beside, Adjacent
  <2>4. StillInv => StillInv'
    BY <2>1, <2>2, <2>3 DEF StillInv, Retrieving, Collected, Passes
  <2> QED BY <1>2, <2>4 DEF CompleteInv
<1> QED BY <1>1, <1>3, <1>4, <1>5, <1>6, <1>7, <1>8, <1>9, <1>10 DEF Next

(***************************************************************************)
(* The service map.                                                        *)
(***************************************************************************)
LEMMA FiniteImage ==
  ASSUME NEW S, IsFiniteSet(S), NEW f
  PROVE  IsFiniteSet({f[x] : x \in S})
<1> DEFINE g == [x \in S |-> f[x]] T == {f[x] : x \in S}
<1>1. g \in Surjection(S, T)
  BY DEF Surjection
<1> QED BY <1>1, FS_Surjection

\* What a service has, of the framework or declared.
Provides(t) == RoutesOf(t) \union Operations(t)

LEMMA FiniteRoutes == ASSUME NEW t \in Services PROVE IsFiniteSet(Provides(t))
<1> DEFINE f == [r \in Routed[t] |-> [method |-> r.method, path |-> Mounted(r), handler |-> r.handler]]
<1>1. RoutesOf(t) = {f[r] : r \in Routed[t]}
  BY DEF RoutesOf
<1> HIDE DEF f
<1>2. IsFiniteSet(RoutesOf(t))
  <2>1. IsFiniteSet(Routed[t])
    BY RoutesAssumption
  <2>2. IsFiniteSet({f[r] : r \in Routed[t]})
    BY <2>1, FiniteImage
  <2> QED BY <1>1, <2>2
<1>3. IsFiniteSet(Operations(t))
  BY RoutesAssumption, FS_Subset DEF Operations
<1> QED BY <1>2, <1>3, FS_Union DEF Provides

\* One route of each shape that the service has.
LEMMA MemberRoutesAre ==
  ASSUME NEW t
  PROVE  /\ MemberRoutes(t) \subseteq Provides(t)
         /\ \A r \in Provides(t) : \E x \in MemberRoutes(t) : Shape(x) = Shape(r)
         /\ \A x, y \in MemberRoutes(t) : Shape(x) = Shape(y) => x = y
<1> DEFINE known == {Shape(r) : r \in RoutesOf(t)}
           all == RoutesOf(t) \union {r \in Operations(t) : Shape(r) \notin known}
           one(shape) == CHOOSE r \in all : Shape(r) = shape
<1>1. MemberRoutes(t) = {one(shape) : shape \in {Shape(r) : r \in all}}
  BY DEF MemberRoutes
<1>2. \A r \in all : one(Shape(r)) \in all /\ Shape(one(Shape(r))) = Shape(r)
  OBVIOUS
<1>3. \A r \in Provides(t) : \E x \in all : Shape(x) = Shape(r)
  BY DEF Provides
<1>4. all \subseteq Provides(t)
  BY DEF Provides
<1> HIDE DEF all, one, known
<1> QED BY <1>1, <1>2, <1>3, <1>4

LEMMA FiniteMatches == ASSUME NEW s, NEW call PROVE IsFiniteSet(Matches(s, call))
<1> DEFINE S == Services \ {s}
           f == [t \in S |-> MemberRoutes(t)]
<1>1. IsFiniteSet(S) /\ S \subseteq Services
  BY RoutesAssumption, FS_Subset
<1>2. \A t \in S : IsFiniteSet(MemberRoutes(t))
  BY <1>1, FiniteRoutes, MemberRoutesAre, FS_Subset
<1>3. IsFiniteSet(UNION {f[t] : t \in S})
  <2>1. IsFiniteSet({f[t] : t \in S})
    <3> HIDE DEF f
    <3> QED BY <1>1, FiniteImage
  <2>2. \A T \in {f[t] : t \in S} : IsFiniteSet(T)
    BY <1>2
  <2> QED BY <2>1, <2>2, FS_UNION
<1>4. IsFiniteSet(S \X UNION {f[t] : t \in S})
  BY <1>1, <1>3, FS_Product
<1>5. Matches(s, call) \subseteq S \X UNION {f[t] : t \in S}
  BY DEF Matches
<1> QED BY <1>4, <1>5, FS_Subset

\* Routes of one shape answer the same calls.
LEMMA ShapesAnswer ==
  ASSUME NEW x, NEW y, Shape(x) = Shape(y), NEW call, Answers(x, call)
  PROVE  Answers(y, call)
<1>1. x.method = y.method /\ Template(x.path) = Template(y.path)
  BY DEF Shape
<1>2. DOMAIN x.path = DOMAIN y.path
  BY <1>1 DEF Template
<1>3. \A i \in DOMAIN y.path : y.path[i] \in Parameters \/ y.path[i] = x.path[i]
  <2> TAKE i \in DOMAIN y.path
  <2>1. Template(x.path)[i] = Template(y.path)[i]
    BY <1>1
  <2>2. /\ Template(x.path)[i] = IF x.path[i] \in Parameters THEN "{}" ELSE x.path[i]
        /\ Template(y.path)[i] = IF y.path[i] \in Parameters THEN "{}" ELSE y.path[i]
    BY <1>2 DEF Template
  <2> QED BY <2>1, <2>2, RoutesAssumption
<1> QED BY <1>1, <1>2, <1>3 DEF Answers

\* The routes that answer a call and what they mean correspond one to one.
LEMMA MeantIs ==
  ASSUME NEW s, NEW call
  PROVE  /\ \A m \in Matches(s, call) : <<m[1], Shape(m[2])>> \in Meant(s, call)
         /\ \A p \in Meant(s, call) : \E m \in Matches(s, call) : p = <<m[1], Shape(m[2])>>
         /\ \A m, q \in Matches(s, call) : m[1] = q[1] /\ Shape(m[2]) = Shape(q[2]) => m = q
<1>1. \A m \in Matches(s, call) : /\ m = <<m[1], m[2]>> /\ m[1] \in Services \ {s}
                                /\ m[2] \in MemberRoutes(m[1]) /\ Answers(m[2], call)
  BY DEF Matches
<1>2. \A t \in Services \ {s} : \A r \in MemberRoutes(t) : Answers(r, call) => <<t, r>> \in Matches(s, call)
  BY DEF Matches
<1>3. \A p \in Meant(s, call) : \E t \in Services \ {s} : \E r \in Provides(t) : Answers(r, call) /\ p = <<t, Shape(r)>>
  BY DEF Meant, Provides
<1>4. \A t \in Services \ {s} : \A r \in Provides(t) : Answers(r, call) => <<t, Shape(r)>> \in Meant(s, call)
  BY DEF Meant, Provides
<1>5. \A m \in Matches(s, call) : <<m[1], Shape(m[2])>> \in Meant(s, call)
  <2> TAKE m \in Matches(s, call)
  <2>1. m[2] \in Provides(m[1])
    BY <1>1, MemberRoutesAre
  <2> QED BY <1>1, <1>4, <2>1
<1>6. ASSUME NEW p \in Meant(s, call) PROVE \E m \in Matches(s, call) : p = <<m[1], Shape(m[2])>>
  <2> PICK t \in Services \ {s} : \E r \in Provides(t) : Answers(r, call) /\ p = <<t, Shape(r)>>
    BY <1>3
  <2>1. PICK r \in Provides(t) : Answers(r, call) /\ p = <<t, Shape(r)>>
    OBVIOUS
  <2>2. PICK x \in MemberRoutes(t) : Shape(x) = Shape(r)
    BY MemberRoutesAre
  <2>3. Answers(x, call)
    BY <2>1, <2>2, ShapesAnswer
  <2>4. <<t, x>> \in Matches(s, call)
    BY <1>2, <2>3
  <2> QED BY <2>1, <2>2, <2>4
<1>7. \A m, q \in Matches(s, call) : m[1] = q[1] /\ Shape(m[2]) = Shape(q[2]) => m = q
  BY <1>1, MemberRoutesAre
<1> QED BY <1>5, <1>6, <1>7

\* An edge of the map is a call one route of another service is meant by.
LEMMA MapIsMeant == ServiceEdges = CalledOnce
<1>1. \A e : e \in ServiceEdges <=>
        \E s \in Services : \E c \in Calls(s) : /\ Cardinality(Matches(s, c)) = 1
                                           /\ \E m \in Matches(s, c) : e = CallEdge(s, c, m[1])
  BY DEF ServiceEdges
<1>2. \A e : e \in CalledOnce <=>
        /\ \E s, t \in Services : \E c \in UNION {Calls(x) : x \in Services} : e = CallEdge(s, c, t)
        /\ \E c \in Calls(e.src) : \E shape \in {m[2] : m \in Meant(e.src, c)} :
             e = CallEdge(e.src, c, e.dst) /\ Meant(e.src, c) = {<<e.dst, shape>>}
  BY DEF CalledOnce
<1>3. \A s, c : Cardinality(Matches(s, c)) = 1 <=> \E m : Matches(s, c) = {m}
  BY FiniteMatches, FS_Singleton
<1>4. \A s, c, t : CallEdge(s, c, t).src = s /\ CallEdge(s, c, t).dst = t
  BY DEF CallEdge
<1>5. ASSUME NEW e \in ServiceEdges PROVE e \in CalledOnce
  <2> PICK s \in Services : \E c \in Calls(s) : /\ Cardinality(Matches(s, c)) = 1
                                              /\ \E m \in Matches(s, c) : e = CallEdge(s, c, m[1])
    BY <1>1
  <2>1. PICK c \in Calls(s) : /\ Cardinality(Matches(s, c)) = 1
                             /\ \E m \in Matches(s, c) : e = CallEdge(s, c, m[1])
    OBVIOUS
  <2>2. PICK m : Matches(s, c) = {m}
    BY <1>3, <2>1
  <2>3. e = CallEdge(s, c, m[1]) /\ e.src = s /\ e.dst = m[1] /\ m[1] \in Services
    <3>1. e = CallEdge(s, c, m[1])
      BY <2>1, <2>2
    <3>2. m[1] \in Services
      BY <2>2 DEF Matches
    <3> QED BY <3>1, <3>2, <1>4
  <2>4. Meant(s, c) = {<<m[1], Shape(m[2])>>}
    BY <2>2, MeantIs
  <2>5. Shape(m[2]) \in {p[2] : p \in Meant(s, c)}
    BY <2>4
  <2> QED BY <1>2, <2>3, <2>4, <2>5
<1>6. ASSUME NEW e \in CalledOnce PROVE e \in ServiceEdges
  <2>1. PICK s \in Services, t \in Services, c \in UNION {Calls(x) : x \in Services} : e = CallEdge(s, c, t)
    BY <1>2
  <2>2. e.src = s
    BY <1>4, <2>1
  <2> PICK d \in Calls(s) : \E shape \in {m[2] : m \in Meant(s, d)} :
          e = CallEdge(s, d, e.dst) /\ Meant(s, d) = {<<e.dst, shape>>}
    BY <1>2, <2>2
  <2>3. PICK shape : e = CallEdge(s, d, e.dst) /\ Meant(s, d) = {<<e.dst, shape>>}
    OBVIOUS
  <2>4. PICK m \in Matches(s, d) : <<e.dst, shape>> = <<m[1], Shape(m[2])>>
    BY <2>3, MeantIs
  <2>5. Matches(s, d) = {m}
    <3> SUFFICES ASSUME NEW q \in Matches(s, d) PROVE q = m
      BY <2>4
    <3>1. <<q[1], Shape(q[2])>> = <<e.dst, shape>>
      BY <2>3, MeantIs
    <3> QED BY <2>4, <3>1, MeantIs
  <2>6. e = CallEdge(s, d, m[1])
    BY <2>3, <2>4
  <2> QED BY <1>1, <1>3, <2>5, <2>6
<1> QED BY <1>5, <1>6

LEMMA CompleteIs == ASSUME CompleteInv PROVE WalkIsComplete
<1> SUFFICES ASSUME pc = "done", removals = 0 PROVE WalkIsComplete
  BY DEF WalkIsComplete
<1>1. StandsStill /\ WalkDone /\ (Retrieving => DOMAIN pack = {n \in Collected : Passes(n)})
      /\ DOMAIN request.hits \subseteq Collected
  BY DEF CompleteInv, StillInv, BeforeWalk
<1>2. CASE Retrieving
  BY <1>1, <1>2 DEF WalkIsComplete, WalkDone
<1>3. CASE ~Retrieving
  BY <1>1, <1>3, MapIsMeant DEF WalkIsComplete, WalkDone, StandsStill
<1> QED BY <1>2, <1>3

\* "overflow noted, not silent", "Cycles terminate", "unique-match-only" (retrieve/retriever.py,
\* serve/tools.py, serve/federation.py): over a graph that stands still, whatever it is, the answer of
\* each of the three tools is all that is in reach, and nothing else, but for what a note names.
THEOREM WalksAreComplete == Spec => []WalkIsComplete
BY CompleteInit, CompleteStep, CompleteIs, PTL DEF Spec

(***************************************************************************)
(* Queries.  Induction over the naturals, said of a set.                   *)
(***************************************************************************)

\* A set that has zero and all successors has every natural number.
LEMMA AllNaturals ==
  ASSUME NEW A, 0 \in A, \A n \in Nat : n \in A => n + 1 \in A
  PROVE  Nat \subseteq A
<1> DEFINE Left == Nat \ A
           R == OpToRel(<, Nat)
<1>1. SUFFICES ASSUME Left # {} PROVE FALSE
  OBVIOUS
<1>2. PICK n \in Left : \A m \in Left : <<m, n>> \notin R
  <2>1. Left \subseteq Nat
    OBVIOUS
  <2> HIDE DEF Left, R
  <2>2. IsWellFoundedOn(R, Nat)
    BY NatLessThanWellFounded DEF R
  <2> QED BY <1>1, <2>1, <2>2, WFMin, Zenon
<1>3. n \in Nat /\ n # 0 /\ n - 1 \in Nat /\ (n - 1) + 1 = n
  OBVIOUS
<1>4. n - 1 \in Left
  BY <1>2, <1>3
<1>5. <<n - 1, n>> \in {p \in Nat \X Nat : p[1] < p[2]}
  BY <1>3
<1>6. <<n - 1, n>> \in R
  BY <1>5 DEF OpToRel
<1> QED BY <1>2, <1>4, <1>6

(***************************************************************************)
(* Some steps, one after the other, each from a value of V to one of V.    *)
(***************************************************************************)
\* What the first step begins with is in V, and what each makes of one in V, so all are.
LEMMA AllAre ==
  ASSUME NEW V, NEW n \in Nat, NEW f,
         f[0] \in V, \A k \in 1..n : f[k - 1] \in V => f[k] \in V
  PROVE  \A k \in 0..n : f[k] \in V
<1> DEFINE Good == {j \in Nat : j <= n => f[j] \in V}
<1>1. 0 \in Good
  OBVIOUS
<1>2. ASSUME NEW j \in Nat, j \in Good PROVE j + 1 \in Good
  <2>1. j + 1 <= n => j + 1 \in 1..n /\ (j + 1) - 1 = j /\ j <= n
    OBVIOUS
  <2> QED BY <1>2, <2>1
<1>3. Nat \subseteq Good
  <2> HIDE DEF Good
  <2> QED BY <1>1, <1>2, AllNaturals
<1> QED BY <1>3

Iterates(V, z, n, step, h) ==
  h \in [0..n -> V] /\ h[0] = z /\ \A k \in 1..n : h[k] = step[k][h[k - 1]]

\* There is such a sequence of values.
LEMMA Iteration ==
  ASSUME NEW V, NEW z, z \in V, NEW n, n \in Nat, NEW step, step \in [1..n -> [V -> V]]
  PROVE  \E h : Iterates(V, z, n, step, h)
<1> DEFINE First(j) == {h \in [0..j -> V] : h[0] = z /\ \A k \in 1..j : h[k] = step[k][h[k - 1]]}
           Done == {j \in Nat : j <= n => First(j) # {}}
<1>1. 0 \in Done
  <2>1. [k \in 0..0 |-> z] \in First(0)
    OBVIOUS
  <2> QED BY <2>1
<1>2. ASSUME NEW j \in Nat, j \in Done PROVE j + 1 \in Done
  <2> SUFFICES ASSUME j + 1 <= n PROVE First(j + 1) # {}
    OBVIOUS
  <2>1. PICK h \in First(j) : TRUE
    BY <1>2
  <2> DEFINE i == [k \in 0..(j + 1) |-> IF k = j + 1 THEN step[j + 1][h[j]] ELSE h[k]]
  <2>0. h \in [0..j -> V] /\ h[0] = z /\ j \in 0..j /\ 0 \in 0..j
    BY <2>1
  <2>2. i \in [0..(j + 1) -> V]
    <3>1. ASSUME NEW k \in 0..(j + 1) PROVE (IF k = j + 1 THEN step[j + 1][h[j]] ELSE h[k]) \in V
      <4>1. CASE k = j + 1
        <5>1. step[j + 1] \in [V -> V] /\ h[j] \in V
          BY <2>0
        <5> QED BY <4>1, <5>1
      <4>2. CASE k # j + 1
        <5>1. k \in 0..j
          BY <4>2
        <5> QED BY <2>0, <4>2, <5>1
      <4> QED BY <4>1, <4>2
    <3> QED BY <3>1
  <2>3. i[0] = z
    BY <2>0
  <2>4. ASSUME NEW k \in 1..(j + 1) PROVE i[k] = step[k][i[k - 1]]
    <3>1. CASE k = j + 1
      BY <2>1, <3>1
    <3>2. CASE k \in 1..j
      BY <2>1, <3>2
    <3> QED BY <3>1, <3>2
  <2>5. i \in First(j + 1)
    <3> HIDE DEF i
    <3> QED BY <2>2, <2>3, <2>4
  <2> HIDE DEF i, Upto
  <2> QED BY <2>5
<1>3. Nat \subseteq Done
  <2> HIDE DEF Done
  <2> QED BY <1>1, <1>2, AllNaturals
<1>4. First(n) # {}
  <2> HIDE DEF Upto
  <2> QED BY <1>3
<1> QED BY <1>4 DEF Iterates

(***************************************************************************)
(* The elements of a finite set in some order.                             *)
(***************************************************************************)
First(T) == CHOOSE x \in T : TRUE
Listing(S, f) == f = [T \in SUBSET S |-> IF T = {} THEN <<>> ELSE Append(f[T \ {First(T)}], First(T))]

\* The sequence has each element of the set once, and nothing else.
Enumerates(s, S) ==
  /\ s \in Seq(S) /\ Len(s) \in Nat
  /\ \A x \in S : \E i \in 1..Len(s) : s[i] = x
  /\ \A i, j \in 1..Len(s) : s[i] = s[j] => i = j

LEMMA InOrderUnfolds == \A S : InOrder(S) = (CHOOSE f : Listing(S, f))[S]
BY Zenon DEF InOrder, FoldSet, MapThenFoldSet, Listing, First

\* The recursion over the subsets of a finite set defines a function.
LEMMA ListingExists ==
  ASSUME NEW S, IsFiniteSet(S)
  PROVE  \E f : Listing(S, f)
<1> DEFINE Small(n) == {T \in SUBSET S : Cardinality(T) <= n}
           Partial(n, f) == f = [T \in Small(n) |-> IF T = {} THEN <<>> ELSE Append(f[T \ {First(T)}], First(T))]
           Done == {n \in Nat : \E f : Partial(n, f)}
<1>0. \A T \in SUBSET S : IsFiniteSet(T) /\ Cardinality(T) \in Nat /\ Cardinality(T) <= Cardinality(S)
  BY FS_Subset, FS_CardinalityType
<1>a. ASSUME NEW T \in SUBSET S, T # {}
      PROVE  T \ {First(T)} \in SUBSET S /\ Cardinality(T \ {First(T)}) = Cardinality(T) - 1
  <2>1. First(T) \in T
    BY <1>a DEF First
  <2>2. IsFiniteSet(T)
    BY <1>0
  <2> QED BY <2>1, <2>2, FS_RemoveElement
<1>1. 0 \in Done
  <2>1. Small(0) = {{}}
    <3>1. ASSUME NEW T \in Small(0) PROVE T = {}
      BY <1>0, FS_EmptySet
    <3>2. {} \in Small(0)
      BY FS_EmptySet
    <3> QED BY <3>1, <3>2
  <2> DEFINE f == [T \in Small(0) |-> <<>>]
  <2>2. f = [T \in Small(0) |-> IF T = {} THEN <<>> ELSE Append(f[T \ {First(T)}], First(T))]
    <3> HIDE DEF Small
    <3> QED BY <2>1
  <2>3. Partial(0, f)
    BY <2>2
  <2> HIDE DEF f, Partial
  <2> QED BY <2>3
<1>2. ASSUME NEW n \in Nat, n \in Done PROVE n + 1 \in Done
  <2>1. PICK f : Partial(n, f)
    BY <1>2
  <2> DEFINE Entry(T) == IF T \in Small(n) THEN f[T] ELSE Append(f[T \ {First(T)}], First(T))
             g == [T \in Small(n + 1) |-> Entry(T)]
  <2>2. ASSUME NEW T \in Small(n + 1)
        PROVE  Entry(T) = IF T = {} THEN <<>> ELSE Append(g[T \ {First(T)}], First(T))
    <3>1. T \in SUBSET S /\ Cardinality(T) \in Nat /\ Cardinality(T) <= n + 1
      BY <1>0
    <3>2. T = {} => T \in Small(n)
      BY <3>1, FS_EmptySet
    <3>3. T # {} => T \ {First(T)} \in Small(n) /\ T \ {First(T)} \in Small(n + 1)
      BY <1>a, <3>1
    <3>4. T # {} => g[T \ {First(T)}] = f[T \ {First(T)}]
      <4> HIDE DEF Small
      <4> QED BY <3>3
    <3>5. \A U \in Small(n) : f[U] = IF U = {} THEN <<>> ELSE Append(f[U \ {First(U)}], First(U))
      <4> HIDE DEF Small
      <4> QED BY <2>1
    <3>6. T \in Small(n) => Entry(T) = f[T]
      OBVIOUS
    <3>7. T \notin Small(n) => Entry(T) = Append(f[T \ {First(T)}], First(T))
      OBVIOUS
    <3> HIDE DEF Small, g, Entry
    <3> QED BY <3>2, <3>4, <3>5, <3>6, <3>7
  <2>3. g = [T \in Small(n + 1) |-> IF T = {} THEN <<>> ELSE Append(g[T \ {First(T)}], First(T))]
    <3> DEFINE G(T) == IF T = {} THEN <<>> ELSE Append(g[T \ {First(T)}], First(T))
    <3>1. \A T \in Small(n + 1) : Entry(T) = G(T)
      BY <2>2
    <3>2. [T \in Small(n + 1) |-> Entry(T)] = [T \in Small(n + 1) |-> G(T)]
      <4> HIDE DEF Entry, G, Small
      <4> QED BY <3>1
    <3> QED BY <3>2, Zenon
  <2>4. Partial(n + 1, g)
    BY <2>3, Zenon
  <2> HIDE DEF g, Partial
  <2> QED BY <2>4
<1>3. Cardinality(S) \in Done
  <2>1. Cardinality(S) \in Nat
    BY FS_CardinalityType
  <2> HIDE DEF Done
  <2> QED BY <1>1, <1>2, <2>1, AllNaturals
<1>4. Small(Cardinality(S)) = SUBSET S
  BY <1>0
<1>5. PICK f : Partial(Cardinality(S), f)
  BY <1>3
<1>6. Listing(S, f)
  <2> HIDE DEF Small
  <2> QED BY <1>4, <1>5 DEF Listing
<1> QED BY <1>6

\* What Append makes of a sequence.
LEMMA AppendIs ==
  ASSUME NEW A, NEW s \in Seq(A), NEW x \in A
  PROVE  /\ Append(s, x) \in Seq(A) /\ Len(Append(s, x)) = Len(s) + 1 /\ Len(s) \in Nat
         /\ \A i \in 1..Len(s) : Append(s, x)[i] = s[i]
         /\ Append(s, x)[Len(s) + 1] = x
OBVIOUS

LEMMA InOrderIs ==
  ASSUME NEW S, IsFiniteSet(S)
  PROVE  Enumerates(InOrder(S), S)
<1>1. PICK f : Listing(S, f) /\ InOrder(S) = f[S]
  BY ListingExists, InOrderUnfolds
<1> DEFINE Good == {n \in Nat : \A T \in SUBSET S : Cardinality(T) = n => Enumerates(f[T], T)}
<1>0. \A T \in SUBSET S : IsFiniteSet(T) /\ Cardinality(T) \in Nat
  BY FS_Subset, FS_CardinalityType
<1>2. \A T \in SUBSET S : f[T] = IF T = {} THEN <<>> ELSE Append(f[T \ {First(T)}], First(T))
  BY <1>1 DEF Listing
<1>3. 0 \in Good
  <2> SUFFICES ASSUME NEW T \in SUBSET S, Cardinality(T) = 0 PROVE Enumerates(f[T], T)
    OBVIOUS
  <2>1. T = {} /\ f[T] = <<>>
    BY <1>0, <1>2, FS_EmptySet
  <2> QED BY <2>1 DEF Enumerates
<1>4. ASSUME NEW n \in Nat, n \in Good PROVE n + 1 \in Good
  <2> SUFFICES ASSUME NEW T \in SUBSET S, Cardinality(T) = n + 1 PROVE Enumerates(f[T], T)
    OBVIOUS
  <2>1. T # {}
    BY FS_EmptySet
  <2> DEFINE x == First(T)
             U == T \ {x}
             s == f[U]
  <2>2. x \in T
    BY <2>1 DEF First
  <2>3. U \in SUBSET S /\ Cardinality(U) = n
    BY <1>0, <2>2, FS_RemoveElement
  <2>4. f[T] = Append(s, x)
    BY <1>2, <2>1
  <2>5. Enumerates(s, U)
    BY <1>4, <2>3
  <2>a. x \notin U /\ T = U \union {x}
    BY <2>2
  <2> HIDE DEF x, U, s
  <2>6. s \in Seq(U) /\ s \in Seq(T) /\ Len(s) \in Nat
    BY <2>5, <2>a DEF Enumerates
  <2> DEFINE t == Append(s, x)
  <2>7. /\ t \in Seq(T) /\ Len(t) = Len(s) + 1
        /\ \A i \in 1..Len(s) : t[i] = s[i] /\ s[i] \in U
        /\ t[Len(s) + 1] = x
    BY <2>2, <2>6, AppendIs
  <2> HIDE DEF t
  <2>8. ASSUME NEW y \in T PROVE \E i \in 1..Len(t) : t[i] = y
    <3>1. CASE y = x
      BY <2>6, <2>7, <3>1
    <3>2. CASE y \in U
      <4>1. PICK i \in 1..Len(s) : s[i] = y
        BY <2>5, <3>2 DEF Enumerates
      <4> QED BY <2>6, <2>7, <4>1
    <3> QED BY <2>a, <3>1, <3>2
  <2>9. ASSUME NEW i \in 1..Len(t), NEW j \in 1..Len(t), t[i] = t[j] PROVE i = j
    <3>1. CASE i \in 1..Len(s) /\ j \in 1..Len(s)
      BY <2>5, <2>7, <2>9, <3>1 DEF Enumerates
    <3>2. CASE i = Len(s) + 1 /\ j \in 1..Len(s)
      BY <2>7, <2>9, <2>a, <3>2
    <3>3. CASE j = Len(s) + 1 /\ i \in 1..Len(s)
      BY <2>7, <2>9, <2>a, <3>3
    <3>4. CASE i = Len(s) + 1 /\ j = Len(s) + 1
      BY <3>4
    <3> QED BY <2>6, <2>7, <3>1, <3>2, <3>3, <3>4
  <2>10. Enumerates(t, T)
    <3>1. t \in Seq(T) /\ Len(t) \in Nat
      BY <2>6, <2>7
    <3>2. \A y \in T : \E i \in 1..Len(t) : t[i] = y
      BY <2>8
    <3>3. \A i, j \in 1..Len(t) : t[i] = t[j] => i = j
      BY <2>9
    <3> QED BY <3>1, <3>2, <3>3, Zenon DEF Enumerates
  <2> QED BY <2>4, <2>10 DEF t
<1>5. Nat \subseteq Good
  <2> HIDE DEF Good
  <2> QED BY <1>3, <1>4, AllNaturals
<1>6. Enumerates(f[S], S)
  BY <1>0, <1>5
<1> QED BY <1>1, <1>6

(***************************************************************************)
(* Finite sets of matches.                                                 *)
(***************************************************************************)
Fin(U) == {X \in SUBSET U : IsFiniteSet(X)}

LEMMA FinHas ==
  ASSUME NEW U
  PROVE  /\ {} \in Fin(U) /\ \A x \in U : {x} \in Fin(U)
         /\ \A X \in Fin(U) : \A Y \in SUBSET X : Y \in Fin(U)
         /\ \A X \in Fin(U) : X \subseteq U /\ IsFiniteSet(X)
BY FS_EmptySet, FS_Singleton, FS_Subset DEF Fin

\* The union of finitely many finite sets, one for each element of a set.
LEMMA UnionIsFin ==
  ASSUME NEW U, NEW K, IsFiniteSet(K), NEW f \in [K -> Fin(U)]
  PROVE  UNION {f[k] : k \in K} \in Fin(U)
<1> DEFINE T == {f[k] : k \in K}
<1>1. f \in Surjection(K, T)
  BY DEF Surjection
<1>2. IsFiniteSet(T)
  <2> HIDE DEF T
  <2> QED BY <1>1, FS_Surjection
<1>3. \A X \in T : X \in Fin(U)
  OBVIOUS
<1> HIDE DEF T
<1>4. IsFiniteSet(UNION T)
  BY <1>2, <1>3, FS_UNION DEF Fin
<1>5. UNION T \in SUBSET U
  BY <1>3 DEF Fin
<1>6. UNION T \in Fin(U)
  BY <1>4, <1>5 DEF Fin
<1> QED BY <1>6 DEF T

\* The image of a finite set.
LEMMA ImageIsFin ==
  ASSUME NEW U, NEW K, IsFiniteSet(K), NEW f \in [K -> U]
  PROVE  {f[k] : k \in K} \in Fin(U)
<1> DEFINE T == {f[k] : k \in K}
<1>1. f \in Surjection(K, T)
  BY DEF Surjection
<1>2. IsFiniteSet(T)
  <2> HIDE DEF T
  <2> QED BY <1>1, FS_Surjection
<1>3. T \in SUBSET U
  OBVIOUS
<1> QED BY <1>2, <1>3 DEF Fin

\* Bindings of some of the variables, and matches with them.
Bound(g, vs) == UNION {[D -> Nodes(g)] : D \in SUBSET vs}
Ways(g) == Nodes(g) \union [from : Nodes(g), edges : Seq(g.edges)]
MatchSet(g, vs) == Bound(g, vs) \X (Nodes(g) \union {None}) \X Seq(Ways(g))

GraphIs(g) ==
  /\ IsFiniteSet(Nodes(g)) /\ IsFiniteSet(g.edges)
  /\ \A e \in g.edges : e.src \in Nodes(g) /\ e.dst \in Nodes(g)

PatternIs(p, vs) ==
  /\ Len(p.rels) \in Nat
  /\ \A i \in 1..(Len(p.rels) + 1) : p.nodes[i].var \in vs \union {None}
  /\ \A i \in 1..Len(p.rels) : p.rels[i].max \in Nat /\ p.rels[i].min \in Nat

LEMMA BindIs ==
  ASSUME NEW g, NEW vs, NEW b \in Bound(g, vs), NEW n \in Nodes(g), NEW var \in vs \union {None}
  PROVE  Bind(b, var, n) \in Bound(g, vs)
<1>1. CASE var = None \/ var \in DOMAIN b
  BY <1>1 DEF Bind
<1>2. CASE ~(var = None \/ var \in DOMAIN b)
  <2>1. PICK D \in SUBSET vs : b \in [D -> Nodes(g)]
    BY DEF Bound
  <2>2. Bind(b, var, n) = [x \in D \union {var} |-> IF x \in D THEN b[x] ELSE n]
    BY <1>2, <2>1 DEF Bind
  <2>3. Bind(b, var, n) \in [D \union {var} -> Nodes(g)] /\ D \union {var} \in SUBSET vs
    BY <1>2, <2>1, <2>2
  <2> QED BY <2>3 DEF Bound
<1> QED BY <1>1, <1>2

LEMMA NoMatchIs == \A g, vs : NoMatch \in MatchSet(g, vs)
<1> SUFFICES ASSUME NEW g, NEW vs PROVE NoMatch \in MatchSet(g, vs)
  OBVIOUS
<1>1. <<>> \in [{} -> Nodes(g)]
  OBVIOUS
<1>2. <<>> \in Bound(g, vs)
  BY <1>1 DEF Bound
<1>3. <<>> \in Seq(Ways(g)) /\ None \in Nodes(g) \union {None}
  OBVIOUS
<1> DEFINE e == <<>>
           t == <<>>
<1>4. e \in Bound(g, vs) /\ t \in Seq(Ways(g))
  BY <1>2, <1>3
<1> HIDE DEF e, t
<1>5. <<e, None, t>> \in Bound(g, vs) \X (Nodes(g) \union {None}) \X Seq(Ways(g))
  BY <1>3, <1>4
<1> QED BY <1>5 DEF NoMatch, MatchSet, e, t

LEMMA ReachesIs ==
  ASSUME NEW g, NEW vs, NEW np, np.var \in vs \union {None}, NEW m \in MatchSet(g, vs),
         NEW n \in Nodes(g), NEW way \in Ways(g)
  PROVE  Reaches(g, np, m, n, way) \in Fin(MatchSet(g, vs))
<1>1. m[1] \in Bound(g, vs) /\ m[3] \in Seq(Ways(g))
  BY DEF MatchSet
<1>2. Bind(m[1], np.var, n) \in Bound(g, vs)
  BY <1>1, BindIs
<1>3. Append(m[3], way) \in Seq(Ways(g))
  BY <1>1
<1>4. <<Bind(m[1], np.var, n), n, Append(m[3], way)>> \in MatchSet(g, vs)
  BY <1>2, <1>3 DEF MatchSet
<1> QED BY <1>4, FinHas DEF Reaches

LEMMA MeetsIs ==
  ASSUME NEW g, NEW vs, NEW np, np.var \in vs \union {None}, NEW m \in MatchSet(g, vs),
         NEW n \in Nodes(g), NEW way \in Ways(g)
  PROVE  Meets(g, np, m, n, way) \in Fin(MatchSet(g, vs))
BY ReachesIs, FinHas DEF Meets

LEMMA OneHopIs ==
  ASSUME NEW g, GraphIs(g), NEW n, NEW rel
  PROVE  OneHop(g, n, rel) \subseteq Nodes(g)
BY DEF OneHop, GraphIs

(***************************************************************************)
(* The closure of a rel.                                                   *)
(***************************************************************************)
HopStart(start) == [results |-> {}, frontier |-> {start}, visited |-> {start}]
Hops(g, start, rel, h) ==
  /\ DOMAIN h = 0..rel.max /\ h[0] = HopStart(start)
  /\ \A d \in 1..rel.max : h[d] = Deeper(g, rel, h[d - 1], d)
HopStates(g, start) ==
  [results : SUBSET Nodes(g), frontier : SUBSET (Nodes(g) \union {start}), visited : SUBSET (Nodes(g) \union {start})]

LEMMA DeeperIs ==
  ASSUME NEW g, GraphIs(g), NEW start, NEW rel, NEW d, NEW s \in HopStates(g, start)
  PROVE  Deeper(g, rel, s, d) \in HopStates(g, start)
<1>1. NextNodes(g, rel, s) \subseteq Nodes(g)
  BY OneHopIs DEF NextNodes
<1> QED BY <1>1 DEF Deeper, HopStates

LEMMA ReachableUnfolds ==
  ASSUME NEW g, GraphIs(g), NEW start, NEW rel, rel.max \in Nat
  PROVE  \E h : /\ Hops(g, start, rel, h) /\ Reachable(g, start, rel) = h[rel.max].results
                /\ \A d \in 0..rel.max : h[d] \in HopStates(g, start)
<1> DEFINE N == rel.max
           z == HopStart(start)
           V == HopStates(g, start)
           Is(h) == h = [d \in 0..N |-> IF d = 0 THEN z ELSE Deeper(g, rel, h[d - 1], d)]
           step == [d \in 1..N |-> [s \in V |-> Deeper(g, rel, s, d)]]
<1>1. Reachable(g, start, rel) = (CHOOSE h : Is(h))[N].results
  BY Zenon DEF Reachable, HopStart
<1>2. z \in V
  BY DEF HopStart, HopStates
<1>3. \A d \in 1..N : \A s \in V : Deeper(g, rel, s, d) \in V
  BY DeeperIs
<1> HIDE DEF z, V
<1>4. step \in [1..N -> [V -> V]]
  BY <1>3
<1>5. \A d \in 1..N : \A s \in V : step[d][s] = Deeper(g, rel, s, d)
  OBVIOUS
<1> HIDE DEF step
<1>6. PICK h : Iterates(V, z, N, step, h)
  BY <1>2, <1>4, Iteration
<1>7. ASSUME NEW d \in 0..N PROVE h[d] = IF d = 0 THEN z ELSE Deeper(g, rel, h[d - 1], d)
  <2>1. d # 0 => d \in 1..N /\ d - 1 \in 0..N
    OBVIOUS
  <2> QED BY <1>5, <1>6, <2>1 DEF Iterates
<1>8. Is(h)
  BY <1>6, <1>7 DEF Iterates
<1> DEFINE c == CHOOSE i : Is(i)
<1>9. Is(c)
  <2> HIDE DEF Is
  <2> QED BY <1>8
<1> HIDE DEF c
<1>10. DOMAIN c = 0..N /\ c[0] = z /\ \A d \in 1..N : c[d] = Deeper(g, rel, c[d - 1], d)
  BY <1>9
<1>11. \A d \in 0..N : c[d] \in V
  <2>1. c[0] \in V /\ \A d \in 1..N : c[d - 1] \in V => c[d] \in V
    BY <1>2, <1>3, <1>10
  <2> QED BY <2>1, AllAre
<1>12. Reachable(g, start, rel) = c[N].results
  BY <1>1 DEF c
<1>13. Hops(g, start, rel, c)
  BY <1>10 DEF Hops, z
<1> QED BY <1>11, <1>12, <1>13 DEF V

LEMMA ReachableIs ==
  ASSUME NEW g, GraphIs(g), NEW start, NEW rel, rel.max \in Nat
  PROVE  Reachable(g, start, rel) \in Fin(Nodes(g))
<1>1. Reachable(g, start, rel) \in SUBSET Nodes(g)
  BY ReachableUnfolds DEF HopStates
<1> QED BY <1>1, FS_Subset DEF Fin, GraphIs

(***************************************************************************)
(* The matches of a pattern that extend a match, by the interpreter.       *)
(***************************************************************************)
FirstNodes(g, np, m, cap) == IF np.var \in DOMAIN m[1] THEN {m[1][np.var]} ELSE Candidates(g, np, cap)
Starts(g, np, m, ns) == UNION {Reaches(g, np, m, n, n) : n \in ns}
Onward(g, np, rel, k) == UNION {Reaches(g, np, k, n, n) : n \in Reachable(g, k[2], rel)}
StepsOver(g, p, i, K) == UNION {Onward(g, p.nodes[i + 1], p.rels[i], k) : k \in K}
Extends(g, p, m, cap, h) ==
  /\ DOMAIN h = 0..Len(p.rels) /\ h[0] = Starts(g, p.nodes[1], m, FirstNodes(g, p.nodes[1], m, cap))
  /\ \A i \in 1..Len(p.rels) : h[i] = StepsOver(g, p, i, h[i - 1])

Labelled(g, np) == {n \in Nodes(g) : Open(np.label, g.label[n])}

LEMMA SomeOfSize ==
  ASSUME NEW S, IsFiniteSet(S), NEW k, k \in Nat, k <= Cardinality(S)
  PROVE  \E T \in SUBSET S : Cardinality(T) = k
<1> DEFINE n == Cardinality(S)
<1>1. n \in Nat /\ ExistsBijection(1..n, S)
  BY FS_CardinalityType
<1>2. PICK f \in Bijection(1..n, S) : TRUE
  BY <1>1 DEF ExistsBijection
<1> HIDE DEF n
<1> DEFINE T == {f[i] : i \in 1..k}
           h == [i \in 1..k |-> f[i]]
<1>3. 1..k \subseteq 1..n
  BY <1>1 DEF n
<1>4. f \in [1..n -> S] /\ \A i, j \in 1..n : f[i] = f[j] => i = j
  BY <1>2 DEF Bijection, Injection, IsInjective
<1>5. T \in SUBSET S
  BY <1>3, <1>4
<1>6. h \in Bijection(1..k, T)
  BY <1>3, <1>4 DEF Bijection, Injection, IsInjective, Surjection
<1>7. Cardinality(T) = k
  BY <1>6, FS_CountingElements DEF ExistsBijection
<1> QED BY <1>5, <1>7

LEMMA CandidatesAre ==
  ASSUME NEW g, GraphIs(g), NEW np, NEW cap, cap \in Nat
  PROVE  /\ Candidates(g, np, cap) \subseteq Nodes(g)
         /\ Cardinality(Labelled(g, np)) <= cap => Candidates(g, np, cap) = Labelled(g, np)
<1> DEFINE labelled == Labelled(g, np)
           some == CHOOSE T \in SUBSET labelled : Cardinality(T) = cap
<1>1. IsFiniteSet(labelled) /\ labelled \subseteq Nodes(g)
  BY FS_Subset DEF GraphIs, Labelled
<1>2. Candidates(g, np, cap) = IF Cardinality(labelled) <= cap THEN labelled ELSE some
  BY Zenon DEF Candidates, Labelled
<1>3. Cardinality(labelled) \in Nat
  BY <1>1, FS_CardinalityType
<1> HIDE DEF labelled
<1>4. CASE Cardinality(labelled) <= cap
  BY <1>1, <1>2, <1>4 DEF labelled
<1>5. CASE ~(Cardinality(labelled) <= cap)
  <2>1. \E T \in SUBSET labelled : Cardinality(T) = cap
    BY <1>1, <1>3, <1>5, SomeOfSize
  <2>2. some \in SUBSET labelled
    BY <2>1
  <2> QED BY <1>1, <1>2, <1>5, <2>2 DEF labelled
<1> QED BY <1>4, <1>5

LEMMA FirstNodesAre ==
  ASSUME NEW g, GraphIs(g), NEW vs, NEW np, NEW cap, cap \in Nat,
         NEW m \in MatchSet(g, vs)
  PROVE  FirstNodes(g, np, m, cap) \in Fin(Nodes(g))
<1>1. m[1] \in Bound(g, vs)
  BY DEF MatchSet
<1>2. PICK D \in SUBSET vs : m[1] \in [D -> Nodes(g)]
  BY <1>1 DEF Bound
<1>3. np.var \in DOMAIN m[1] => {m[1][np.var]} \in Fin(Nodes(g))
  BY <1>2, FinHas
<1>4. Candidates(g, np, cap) \in SUBSET Nodes(g)
  BY CandidatesAre
<1>5. Candidates(g, np, cap) \in Fin(Nodes(g))
  BY <1>4, FS_Subset DEF Fin, GraphIs
<1> QED BY <1>3, <1>5 DEF FirstNodes

LEMMA StartsAre ==
  ASSUME NEW g, NEW vs, NEW np, np.var \in vs \union {None}, NEW m \in MatchSet(g, vs), NEW ns \in Fin(Nodes(g))
  PROVE  Starts(g, np, m, ns) \in Fin(MatchSet(g, vs))
<1> DEFINE f == [n \in ns |-> Reaches(g, np, m, n, n)]
<1>1. \A n \in ns : n \in Nodes(g) /\ n \in Ways(g)
  BY FinHas DEF Ways
<1>2. \A n \in ns : Reaches(g, np, m, n, n) \in Fin(MatchSet(g, vs))
  BY <1>1, ReachesIs
<1>3. f \in [ns -> Fin(MatchSet(g, vs))] /\ \A n \in ns : f[n] = Reaches(g, np, m, n, n)
  BY <1>2
<1>4. IsFiniteSet(ns)
  BY DEF Fin
<1> HIDE DEF f
<1>5. UNION {f[n] : n \in ns} \in Fin(MatchSet(g, vs))
  BY <1>3, <1>4, UnionIsFin
<1>6. {f[n] : n \in ns} = {Reaches(g, np, m, n, n) : n \in ns}
  BY <1>3
<1> QED BY <1>5, <1>6 DEF Starts

LEMMA StepsOverIs ==
  ASSUME NEW g, GraphIs(g), NEW vs, NEW p, PatternIs(p, vs), NEW i \in 1..Len(p.rels), NEW K \in Fin(MatchSet(g, vs))
  PROVE  StepsOver(g, p, i, K) \in Fin(MatchSet(g, vs))
<1> DEFINE np == p.nodes[i + 1]
           rel == p.rels[i]
           f == [k \in K |-> Onward(g, np, rel, k)]
<1>1. np.var \in vs \union {None} /\ rel.max \in Nat
  BY DEF PatternIs
<1> HIDE DEF np, rel
<1>2. ASSUME NEW k \in K PROVE Onward(g, np, rel, k) \in Fin(MatchSet(g, vs))
  <2>1. k \in MatchSet(g, vs)
    BY FinHas
  <2>2. Reachable(g, k[2], rel) \in Fin(Nodes(g))
    BY <1>1, ReachableIs
  <2>3. Onward(g, np, rel, k) = Starts(g, np, k, Reachable(g, k[2], rel))
    BY Zenon DEF Onward, Starts
  <2> QED BY <1>1, <2>1, <2>2, <2>3, StartsAre
<1>3. f \in [K -> Fin(MatchSet(g, vs))] /\ \A k \in K : f[k] = Onward(g, np, rel, k)
  BY <1>2
<1>4. IsFiniteSet(K)
  BY DEF Fin
<1> HIDE DEF f
<1>5. UNION {f[k] : k \in K} \in Fin(MatchSet(g, vs))
  BY <1>3, <1>4, UnionIsFin
<1>6. {f[k] : k \in K} = {Onward(g, np, rel, k) : k \in K}
  BY <1>3
<1> QED BY <1>5, <1>6 DEF StepsOver, np, rel

LEMMA ExtendUnfolds ==
  ASSUME NEW g, GraphIs(g), NEW vs, NEW p, PatternIs(p, vs), NEW m, m \in MatchSet(g, vs),
         NEW cap, cap \in Nat
  PROVE  \E h : /\ Extends(g, p, m, cap, h) /\ ExtendPattern(g, p, m, cap) = h[Len(p.rels)]
                /\ \A i \in 0..Len(p.rels) : h[i] \in Fin(MatchSet(g, vs))
<1> DEFINE N == Len(p.rels)
           z == Starts(g, p.nodes[1], m, FirstNodes(g, p.nodes[1], m, cap))
           V == Fin(MatchSet(g, vs))
           Is(h) == h = [i \in 0..N |-> IF i = 0 THEN z ELSE StepsOver(g, p, i, h[i - 1])]
           step == [i \in 1..N |-> [K \in V |-> StepsOver(g, p, i, K)]]
<1>0. N \in Nat /\ 1 \in 1..(N + 1) /\ p.nodes[1].var \in vs \union {None}
  BY DEF PatternIs
<1>1. ExtendPattern(g, p, m, cap) = (CHOOSE h : Is(h))[N]
  BY Zenon DEF ExtendPattern, FirstNodes, Starts, StepsOver, Onward
<1>2. z \in V
  BY <1>0, FirstNodesAre, StartsAre
<1>3. \A i \in 1..N : \A K \in V : StepsOver(g, p, i, K) \in V
  BY StepsOverIs
<1> HIDE DEF z, V
<1>4. step \in [1..N -> [V -> V]]
  BY <1>3
<1>5. \A i \in 1..N : \A K \in V : step[i][K] = StepsOver(g, p, i, K)
  OBVIOUS
<1> HIDE DEF step, N
<1>6. PICK h : Iterates(V, z, N, step, h)
  BY <1>0, <1>2, <1>4, Iteration
<1>7. ASSUME NEW i \in 0..N PROVE h[i] = IF i = 0 THEN z ELSE StepsOver(g, p, i, h[i - 1])
  <2>1. i # 0 => i \in 1..N /\ i - 1 \in 0..N
    BY <1>0
  <2> QED BY <1>5, <1>6, <2>1 DEF Iterates
<1>8. Is(h)
  BY <1>6, <1>7 DEF Iterates
<1> DEFINE c == CHOOSE h_1 : Is(h_1)
<1>9. Is(c)
  <2> HIDE DEF Is
  <2> QED BY <1>8
<1> HIDE DEF c
<1>10. DOMAIN c = 0..N /\ c[0] = z /\ \A i \in 1..N : c[i] = StepsOver(g, p, i, c[i - 1])
  BY <1>0, <1>9
<1>11. \A i \in 0..N : c[i] \in V
  <2>1. c[0] \in V /\ \A i \in 1..N : c[i - 1] \in V => c[i] \in V
    BY <1>2, <1>3, <1>10
  <2> QED BY <1>0, <2>1, AllAre
<1>12. ExtendPattern(g, p, m, cap) = c[N]
  BY <1>1 DEF c
<1>13. Extends(g, p, m, cap, c)
  BY <1>10 DEF Extends, z, N
<1> QED BY <1>11, <1>12, <1>13 DEF V, N

LEMMA ExtendIs ==
  ASSUME NEW g, GraphIs(g), NEW vs, NEW p, PatternIs(p, vs), NEW m, m \in MatchSet(g, vs),
         NEW cap, cap \in Nat
  PROVE  ExtendPattern(g, p, m, cap) \in Fin(MatchSet(g, vs))
<1>1. Len(p.rels) \in 0..Len(p.rels)
  BY DEF PatternIs
<1> QED BY <1>1, ExtendUnfolds

(***************************************************************************)
(* The matches of a query, by the interpreter.                             *)
(***************************************************************************)
MatchIs(match, vs) ==
  Len(match) \in Nat /\ \A n \in 1..Len(match) : PatternIs(match[n], vs)

ExtendAll(g, p, cap, K) == UNION {ExtendPattern(g, p, m, cap) : m \in K}
Matched(q, g, cap) ==
  CHOOSE h : h = [n \in 0..Len(q.match) |-> IF n = 0 THEN {NoMatch} ELSE ExtendAll(g, q.match[n], cap, h[n - 1])]

LEMMA ExtendAllIs ==
  ASSUME NEW g, GraphIs(g), NEW vs, NEW p, PatternIs(p, vs), NEW cap, cap \in Nat,
         NEW K, K \in Fin(MatchSet(g, vs))
  PROVE  ExtendAll(g, p, cap, K) \in Fin(MatchSet(g, vs))
<1> DEFINE f == [k \in K |-> ExtendPattern(g, p, k, cap)]
<1>1. \A k \in K : ExtendPattern(g, p, k, cap) \in Fin(MatchSet(g, vs))
  BY FinHas, ExtendIs
<1>2. f \in [K -> Fin(MatchSet(g, vs))] /\ \A k \in K : f[k] = ExtendPattern(g, p, k, cap)
  BY <1>1
<1>3. IsFiniteSet(K)
  BY DEF Fin
<1> HIDE DEF f
<1>4. UNION {f[k] : k \in K} \in Fin(MatchSet(g, vs))
  BY <1>2, <1>3, UnionIsFin
<1>5. {f[k] : k \in K} = {ExtendPattern(g, p, k, cap) : k \in K}
  BY <1>2
<1> QED BY <1>4, <1>5 DEF ExtendAll

LEMMA MatchedIs ==
  ASSUME NEW q, NEW g, GraphIs(g), NEW vs, MatchIs(q.match, vs), NEW cap, cap \in Nat
  PROVE  LET h == Matched(q, g, cap)
         IN  /\ MatchAll(q, g, cap) = h[Len(q.match)] /\ h[0] = {NoMatch}
             /\ \A n \in 1..Len(q.match) : h[n] = ExtendAll(g, q.match[n], cap, h[n - 1])
             /\ \A n \in 0..Len(q.match) : h[n] \in Fin(MatchSet(g, vs))
<1> DEFINE N == Len(q.match)
           z == {NoMatch}
           V == Fin(MatchSet(g, vs))
           Is(h) == h = [n \in 0..N |-> IF n = 0 THEN z ELSE ExtendAll(g, q.match[n], cap, h[n - 1])]
           step == [n \in 1..N |-> [K \in V |-> ExtendAll(g, q.match[n], cap, K)]]
<1>0. N \in Nat
  BY DEF MatchIs
<1>1. MatchAll(q, g, cap) = Matched(q, g, cap)[N]
  BY Zenon DEF MatchAll, Matched, ExtendAll
<1>2. z \in V
  BY NoMatchIs, FinHas
<1>3. \A n \in 1..N : \A K \in V : ExtendAll(g, q.match[n], cap, K) \in V
  BY ExtendAllIs DEF MatchIs
<1> HIDE DEF z, V
<1>4. step \in [1..N -> [V -> V]]
  BY <1>3
<1>5. \A n \in 1..N : \A K \in V : step[n][K] = ExtendAll(g, q.match[n], cap, K)
  OBVIOUS
<1> HIDE DEF step, N
<1>6. PICK h : Iterates(V, z, N, step, h)
  BY <1>0, <1>2, <1>4, Iteration
<1>7. ASSUME NEW n \in 0..N PROVE h[n] = IF n = 0 THEN z ELSE ExtendAll(g, q.match[n], cap, h[n - 1])
  <2>1. n # 0 => n \in 1..N /\ n - 1 \in 0..N
    BY <1>0
  <2> QED BY <1>5, <1>6, <2>1 DEF Iterates
<1>8. Is(h)
  BY <1>6, <1>7 DEF Iterates
<1> DEFINE c == CHOOSE i : Is(i)
<1>9. Is(c)
  <2> HIDE DEF Is
  <2> QED BY <1>8
<1> HIDE DEF c
<1>10. DOMAIN c = 0..N /\ c[0] = z /\ \A n \in 1..N : c[n] = ExtendAll(g, q.match[n], cap, c[n - 1])
  BY <1>0, <1>9
<1>11. \A n \in 0..N : c[n] \in V
  <2>1. c[0] \in V /\ \A n \in 1..N : c[n - 1] \in V => c[n] \in V
    BY <1>2, <1>3, <1>10
  <2> QED BY <1>0, <2>1, AllAre
<1>12. Matched(q, g, cap) = c
  BY Zenon DEF c, Matched, N, z
<1> QED BY <1>1, <1>10, <1>11, <1>12 DEF V, N, z

(***************************************************************************)
(* The matches of the compiled statement.                                  *)
(***************************************************************************)
PathsOver(g, n) == Seq(g.edges) \X (Nodes(g) \union {n})
LongerAll(g, rel, ts) == UNION {Longer(g, rel, t) : t \in ts}

LEMMA LongerIs ==
  ASSUME NEW g, GraphIs(g), NEW n, NEW rel, NEW t, t \in PathsOver(g, n)
  PROVE  Longer(g, rel, t) \in Fin(PathsOver(g, n))
<1> DEFINE K == {f \in g.edges : EdgeFrom(f, t[2], rel) /\ (g.once => f \notin ToSet(t[1]))}
           f == [e \in K |-> <<Append(t[1], e), Opposite(e, t[2])>>]
<1>1. IsFiniteSet(K) /\ K \subseteq g.edges
  BY FS_Subset DEF GraphIs
<1>2. \A e \in K : <<Append(t[1], e), Opposite(e, t[2])>> \in PathsOver(g, n)
  <2> SUFFICES ASSUME NEW e \in K PROVE <<Append(t[1], e), Opposite(e, t[2])>> \in PathsOver(g, n)
    OBVIOUS
  <2>1. e \in g.edges /\ t[1] \in Seq(g.edges)
    BY DEF PathsOver
  <2>2. Append(t[1], e) \in Seq(g.edges)
    BY <2>1, AppendIs
  <2>3. Opposite(e, t[2]) \in Nodes(g)
    BY <2>1 DEF Opposite, GraphIs
  <2> QED BY <2>2, <2>3 DEF PathsOver
<1> HIDE DEF K
<1>3. f \in [K -> PathsOver(g, n)] /\ \A e \in K : f[e] = <<Append(t[1], e), Opposite(e, t[2])>>
  BY <1>2
<1> HIDE DEF f
<1>4. {f[e] : e \in K} \in Fin(PathsOver(g, n))
  BY <1>1, <1>3, ImageIsFin
<1>5. {f[e] : e \in K} = {<<Append(t[1], e), Opposite(e, t[2])>> : e \in K}
  BY <1>3
<1> QED BY <1>4, <1>5 DEF Longer, K

LEMMA LongerAllIs ==
  ASSUME NEW g, GraphIs(g), NEW n, NEW rel, NEW ts, ts \in Fin(PathsOver(g, n))
  PROVE  LongerAll(g, rel, ts) \in Fin(PathsOver(g, n))
<1> DEFINE f == [t \in ts |-> Longer(g, rel, t)]
<1>1. \A t \in ts : Longer(g, rel, t) \in Fin(PathsOver(g, n))
  BY FinHas, LongerIs
<1>2. f \in [ts -> Fin(PathsOver(g, n))] /\ \A t \in ts : f[t] = Longer(g, rel, t)
  BY <1>1
<1>3. IsFiniteSet(ts)
  BY DEF Fin
<1> HIDE DEF f
<1>4. UNION {f[t] : t \in ts} \in Fin(PathsOver(g, n))
  BY <1>2, <1>3, UnionIsFin
<1>5. {f[t] : t \in ts} = {Longer(g, rel, t) : t \in ts}
  BY <1>2
<1> QED BY <1>4, <1>5 DEF LongerAll

\* The trails of each length.
OfLength(g, n, rel, h) ==
  /\ DOMAIN h = 0..rel.max /\ h[0] = {<< <<>>, n>>}
  /\ \A k \in 1..rel.max : h[k] = LongerAll(g, rel, h[k - 1])

LEMMA PathsUnfold ==
  ASSUME NEW g, GraphIs(g), NEW n, NEW rel, rel.max \in Nat
  PROVE  \E h : /\ OfLength(g, n, rel, h) /\ Paths(g, n, rel) = UNION {h[k] : k \in rel.min..rel.max}
                /\ \A k \in 0..rel.max : h[k] \in Fin(PathsOver(g, n))
<1> DEFINE N == rel.max
           z == {<< <<>>, n>>}
           V == Fin(PathsOver(g, n))
           Is(h) == h = [k \in 0..N |-> IF k = 0 THEN z ELSE LongerAll(g, rel, h[k - 1])]
           step == [k \in 1..N |-> [ts \in V |-> LongerAll(g, rel, ts)]]
<1>1. Paths(g, n, rel) = UNION {(CHOOSE h : Is(h))[k] : k \in rel.min..N}
  BY Zenon DEF Paths, LongerAll
<1>2. z \in V
  <2> DEFINE e == <<>>
  <2>1. e \in Seq(g.edges)
    OBVIOUS
  <2> HIDE DEF e
  <2>2. <<e, n>> \in PathsOver(g, n)
    BY <2>1 DEF PathsOver
  <2>3. {<<e, n>>} \in V
    BY <2>2, FinHas
  <2> QED BY <2>3 DEF e
<1>3. \A ts \in V : LongerAll(g, rel, ts) \in V
  BY LongerAllIs
<1> HIDE DEF z, V
<1>4. step \in [1..N -> [V -> V]]
  BY <1>3
<1>5. \A k \in 1..N : \A ts \in V : step[k][ts] = LongerAll(g, rel, ts)
  OBVIOUS
<1> HIDE DEF step
<1>6. PICK h : Iterates(V, z, N, step, h)
  BY <1>2, <1>4, Iteration
<1>7. ASSUME NEW k \in 0..N PROVE h[k] = IF k = 0 THEN z ELSE LongerAll(g, rel, h[k - 1])
  <2>1. k # 0 => k \in 1..N /\ k - 1 \in 0..N
    OBVIOUS
  <2> QED BY <1>5, <1>6, <2>1 DEF Iterates
<1>8. Is(h)
  BY <1>6, <1>7 DEF Iterates
<1> DEFINE c == CHOOSE i : Is(i)
<1>9. Is(c)
  <2> HIDE DEF Is
  <2> QED BY <1>8
<1>a. Paths(g, n, rel) = UNION {c[k] : k \in rel.min..N}
  BY <1>1, Zenon
<1> HIDE DEF c
<1>10. DOMAIN c = 0..N /\ c[0] = z /\ \A k \in 1..N : c[k] = LongerAll(g, rel, c[k - 1])
  BY <1>9
<1>11. \A k \in 0..N : c[k] \in V
  <2>1. c[0] \in V /\ \A k \in 1..N : c[k - 1] \in V => c[k] \in V
    BY <1>2, <1>3, <1>10
  <2> QED BY <2>1, AllAre
<1>13. OfLength(g, n, rel, c)
  BY <1>10 DEF OfLength, z
<1> QED BY <1>11, <1>a, <1>13 DEF V

LEMMA PathsAre ==
  ASSUME NEW g, GraphIs(g), NEW n, NEW rel, rel.max \in Nat, rel.min \in Nat
  PROVE  Paths(g, n, rel) \in Fin(PathsOver(g, n))
<1>1. PICK h : /\ Paths(g, n, rel) = UNION {h[k] : k \in rel.min..rel.max}
               /\ \A k \in 0..rel.max : h[k] \in Fin(PathsOver(g, n))
  BY PathsUnfold
<1> DEFINE K == rel.min..rel.max
           f == [k \in K |-> h[k]]
<1>2. f \in [K -> Fin(PathsOver(g, n))] /\ \A k \in K : f[k] = h[k]
  BY <1>1
<1>3. IsFiniteSet(K)
  BY FS_Interval
<1> HIDE DEF f, K
<1>4. UNION {f[k] : k \in K} \in Fin(PathsOver(g, n))
  BY <1>2, <1>3, UnionIsFin
<1>5. {f[k] : k \in K} = {h[k] : k \in K}
  BY <1>2
<1> QED BY <1>1, <1>4, <1>5 DEF K

Anywhere(g, np, m) == UNION {Meets(g, np, m, n, Way(n, <<>>)) : n \in Nodes(g)}
AnywhereAll(g, np, K) == UNION {Anywhere(g, np, m) : m \in K}
Along(g, np, rel, m) == UNION {Meets(g, np, m, t[2], Way(m[2], t[1])) : t \in PathsOn(g, m, rel)}
AlongAll(g, p, i, K) == UNION {Along(g, p.nodes[i + 1], p.rels[i], m) : m \in K}
Follows(g, p, from, h) ==
  /\ DOMAIN h = 0..Len(p.rels) /\ h[0] = AnywhereAll(g, p.nodes[1], from)
  /\ \A i \in 1..Len(p.rels) : h[i] = AlongAll(g, p, i, h[i - 1])

LEMMA AnywhereAllIs ==
  ASSUME NEW g, GraphIs(g), NEW vs, NEW np, np.var \in vs \union {None}, NEW K, K \in Fin(MatchSet(g, vs))
  PROVE  AnywhereAll(g, np, K) \in Fin(MatchSet(g, vs))
<1> DEFINE f == [m \in K |-> Anywhere(g, np, m)]
<1>1. ASSUME NEW m \in K PROVE Anywhere(g, np, m) \in Fin(MatchSet(g, vs))
  <2>1. m \in MatchSet(g, vs)
    BY FinHas
  <2> DEFINE T == Nodes(g)
             e == [n \in T |-> Meets(g, np, m, n, Way(n, <<>>))]
  <2>2. \A n \in T : Way(n, <<>>) \in Ways(g)
    BY DEF Way, Ways
  <2>3. \A n \in T : Meets(g, np, m, n, Way(n, <<>>)) \in Fin(MatchSet(g, vs))
    BY <2>1, <2>2, MeetsIs
  <2>4. e \in [T -> Fin(MatchSet(g, vs))] /\ \A n \in T : e[n] = Meets(g, np, m, n, Way(n, <<>>))
    BY <2>3
  <2>5. IsFiniteSet(T)
    BY DEF GraphIs
  <2> HIDE DEF e
  <2>6. UNION {e[n] : n \in T} \in Fin(MatchSet(g, vs))
    BY <2>4, <2>5, UnionIsFin
  <2>7. {e[n] : n \in T} = {Meets(g, np, m, n, Way(n, <<>>)) : n \in T}
    BY <2>4
  <2> QED BY <2>6, <2>7 DEF Anywhere
<1>2. f \in [K -> Fin(MatchSet(g, vs))] /\ \A m \in K : f[m] = Anywhere(g, np, m)
  BY <1>1
<1>3. IsFiniteSet(K)
  BY DEF Fin
<1> HIDE DEF f
<1>4. UNION {f[m] : m \in K} \in Fin(MatchSet(g, vs))
  BY <1>2, <1>3, UnionIsFin
<1>5. {f[m] : m \in K} = {Anywhere(g, np, m) : m \in K}
  BY <1>2
<1> QED BY <1>4, <1>5 DEF AnywhereAll

LEMMA AlongIs ==
  ASSUME NEW g, GraphIs(g), NEW vs, NEW np, np.var \in vs \union {None}, NEW rel, rel.max \in Nat, rel.min \in Nat,
         NEW m, m \in MatchSet(g, vs), m[2] \in Nodes(g)
  PROVE  Along(g, np, rel, m) \in Fin(MatchSet(g, vs))
<1> DEFINE T == PathsOn(g, m, rel)
           f == [t \in T |-> Meets(g, np, m, t[2], Way(m[2], t[1]))]
<1>0. T \in Fin(PathsOver(g, m[2]))
  BY PathsAre, FinHas DEF PathsOn
<1> HIDE DEF T
<1>1. ASSUME NEW t \in T PROVE Meets(g, np, m, t[2], Way(m[2], t[1])) \in Fin(MatchSet(g, vs))
  <2>1. t \in PathsOver(g, m[2])
    BY <1>0, FinHas
  <2>2. Way(m[2], t[1]) \in Ways(g) /\ t[2] \in Nodes(g)
    BY <2>1 DEF PathsOver, Ways, Way
  <2> QED BY <2>2, MeetsIs
<1>2. f \in [T -> Fin(MatchSet(g, vs))] /\ \A t \in T : f[t] = Meets(g, np, m, t[2], Way(m[2], t[1]))
  BY <1>1
<1>3. IsFiniteSet(T)
  BY <1>0 DEF Fin
<1> HIDE DEF f
<1>4. UNION {f[t] : t \in T} \in Fin(MatchSet(g, vs))
  BY <1>2, <1>3, UnionIsFin
<1>5. {f[t] : t \in T} = {Meets(g, np, m, t[2], Way(m[2], t[1])) : t \in T}
  BY <1>2
<1> QED BY <1>4, <1>5 DEF Along, T

\* Matches that have reached a node.
Reached(g, vs) == {m \in MatchSet(g, vs) : m[2] \in Nodes(g)}

LEMMA ReachesANode ==
  ASSUME NEW g, NEW np, NEW m, NEW n \in Nodes(g), NEW way, NEW k \in Meets(g, np, m, n, way)
  PROVE  k[2] \in Nodes(g)
BY DEF Meets, Reaches

LEMMA AlongAllIs ==
  ASSUME NEW g, GraphIs(g), NEW vs, NEW p, PatternIs(p, vs), NEW i \in 1..Len(p.rels), NEW K, K \in Fin(Reached(g, vs))
  PROVE  AlongAll(g, p, i, K) \in Fin(Reached(g, vs))
<1> DEFINE np == p.nodes[i + 1]
           rel == p.rels[i]
           f == [m \in K |-> Along(g, np, rel, m)]
<1>0. np.var \in vs \union {None} /\ rel.max \in Nat /\ rel.min \in Nat
  BY DEF PatternIs
<1> HIDE DEF np, rel
<1>1. ASSUME NEW m \in K PROVE Along(g, np, rel, m) \in Fin(Reached(g, vs))
  <2>1. m \in MatchSet(g, vs) /\ m[2] \in Nodes(g)
    BY FinHas DEF Reached
  <2>2. Along(g, np, rel, m) \in Fin(MatchSet(g, vs))
    BY <1>0, <2>1, AlongIs
  <2>3. ASSUME NEW k \in Along(g, np, rel, m) PROVE k[2] \in Nodes(g)
    <3>1. PICK t \in Paths(g, m[2], rel) : k \in Meets(g, np, m, t[2], Way(m[2], t[1]))
      BY DEF Along, PathsOn
    <3>2. t \in PathsOver(g, m[2])
      BY <1>0, PathsAre, FinHas
    <3>3. t[2] \in Nodes(g)
      BY <2>1, <3>2 DEF PathsOver
    <3> QED BY <3>1, <3>3, ReachesANode
  <2> QED BY <2>2, <2>3 DEF Fin, Reached
<1>2. f \in [K -> Fin(Reached(g, vs))] /\ \A m \in K : f[m] = Along(g, np, rel, m)
  BY <1>1
<1>3. IsFiniteSet(K)
  BY DEF Fin
<1> HIDE DEF f
<1>4. UNION {f[m] : m \in K} \in Fin(Reached(g, vs))
  BY <1>2, <1>3, UnionIsFin
<1>5. {f[m] : m \in K} = {Along(g, np, rel, m) : m \in K}
  BY <1>2
<1> QED BY <1>4, <1>5 DEF AlongAll, np, rel

LEMMA FollowUnfolds ==
  ASSUME NEW g, GraphIs(g), NEW vs, NEW p, PatternIs(p, vs), NEW from, from \in Fin(MatchSet(g, vs))
  PROVE  \E h : /\ Follows(g, p, from, h) /\ MatchesFrom(g, p, from) = h[Len(p.rels)]
                /\ \A i \in 0..Len(p.rels) : h[i] \in Fin(Reached(g, vs))
<1> DEFINE N == Len(p.rels)
           z == AnywhereAll(g, p.nodes[1], from)
           V == Fin(Reached(g, vs))
           Is(h) == h = [i \in 0..N |-> IF i = 0 THEN z ELSE AlongAll(g, p, i, h[i - 1])]
           step == [i \in 1..N |-> [K \in V |-> AlongAll(g, p, i, K)]]
<1>0. N \in Nat /\ 1 \in 1..(N + 1) /\ p.nodes[1].var \in vs \union {None}
  BY DEF PatternIs
<1>1. MatchesFrom(g, p, from) = (CHOOSE h : Is(h))[N]
  BY Zenon DEF MatchesFrom, AnywhereAll, Anywhere, AlongAll, Along
<1>2. z \in V
  <2>1. z \in Fin(MatchSet(g, vs))
    BY <1>0, AnywhereAllIs
  <2>2. ASSUME NEW k \in z PROVE k[2] \in Nodes(g)
    <3>1. PICK m \in from : \E n \in Nodes(g) : k \in Meets(g, p.nodes[1], m, n, Way(n, <<>>))
      BY DEF AnywhereAll, Anywhere
    <3> QED BY <3>1, ReachesANode
  <2> HIDE DEF z
  <2> QED BY <2>1, <2>2 DEF Fin, Reached
<1>3. \A i \in 1..N : \A K \in V : AlongAll(g, p, i, K) \in V
  BY AlongAllIs
<1> HIDE DEF z, V
<1>4. step \in [1..N -> [V -> V]]
  BY <1>3
<1>5. \A i \in 1..N : \A K \in V : step[i][K] = AlongAll(g, p, i, K)
  OBVIOUS
<1> HIDE DEF step, N
<1>6. PICK h : Iterates(V, z, N, step, h)
  BY <1>0, <1>2, <1>4, Iteration
<1>7. ASSUME NEW i \in 0..N PROVE h[i] = IF i = 0 THEN z ELSE AlongAll(g, p, i, h[i - 1])
  <2>1. i # 0 => i \in 1..N /\ i - 1 \in 0..N
    BY <1>0
  <2> QED BY <1>5, <1>6, <2>1 DEF Iterates
<1>8. Is(h)
  BY <1>6, <1>7 DEF Iterates
<1> DEFINE c == CHOOSE h_1 : Is(h_1)
<1>9. Is(c)
  <2> HIDE DEF Is
  <2> QED BY <1>8
<1> HIDE DEF c
<1>10. DOMAIN c = 0..N /\ c[0] = z /\ \A i \in 1..N : c[i] = AlongAll(g, p, i, c[i - 1])
  BY <1>0, <1>9
<1>11. \A i \in 0..N : c[i] \in V
  <2>1. c[0] \in V /\ \A i \in 1..N : c[i - 1] \in V => c[i] \in V
    BY <1>2, <1>3, <1>10
  <2> QED BY <1>0, <2>1, AllAre
<1>12. MatchesFrom(g, p, from) = c[N]
  BY <1>1 DEF c
<1>13. Follows(g, p, from, c)
  BY <1>10 DEF Follows, z, N
<1> QED BY <1>11, <1>12, <1>13 DEF V, N

LEMMA FollowedIs ==
  ASSUME NEW g, GraphIs(g), NEW vs, NEW p, PatternIs(p, vs), NEW from, from \in Fin(MatchSet(g, vs))
  PROVE  MatchesFrom(g, p, from) \in Fin(MatchSet(g, vs))
<1>1. MatchesFrom(g, p, from) \in Fin(Reached(g, vs))
  <2>1. Len(p.rels) \in 0..Len(p.rels)
    BY DEF PatternIs
  <2> QED BY <2>1, FollowUnfolds
<1> QED BY <1>1 DEF Fin, Reached

CypherMatched(g, match, h) ==
  /\ DOMAIN h = 0..Len(match) /\ h[0] = {NoMatch}
  /\ \A n \in 1..Len(match) : h[n] = MatchesFrom(g, match[n], h[n - 1])

LEMMA CypherUnfolds ==
  ASSUME NEW g, GraphIs(g), NEW vs, NEW match, MatchIs(match, vs)
  PROVE  \E h : /\ CypherMatched(g, match, h) /\ CypherMatches(g, match) = h[Len(match)]
                /\ \A n \in 0..Len(match) : h[n] \in Fin(MatchSet(g, vs))
<1> DEFINE N == Len(match)
           z == {NoMatch}
           V == Fin(MatchSet(g, vs))
           Is(h) == h = [n \in 0..N |-> IF n = 0 THEN z ELSE MatchesFrom(g, match[n], h[n - 1])]
           step == [n \in 1..N |-> [K \in V |-> MatchesFrom(g, match[n], K)]]
<1>0. N \in Nat
  BY DEF MatchIs
<1>1. CypherMatches(g, match) = (CHOOSE h : Is(h))[N]
  BY Zenon DEF CypherMatches
<1>2. z \in V
  BY NoMatchIs, FinHas
<1>3. \A n \in 1..N : \A K \in V : MatchesFrom(g, match[n], K) \in V
  BY FollowedIs DEF MatchIs
<1> HIDE DEF z, V
<1>4. step \in [1..N -> [V -> V]]
  BY <1>3
<1>5. \A n \in 1..N : \A K \in V : step[n][K] = MatchesFrom(g, match[n], K)
  OBVIOUS
<1> HIDE DEF step, N
<1>6. PICK h : Iterates(V, z, N, step, h)
  BY <1>0, <1>2, <1>4, Iteration
<1>7. ASSUME NEW n \in 0..N PROVE h[n] = IF n = 0 THEN z ELSE MatchesFrom(g, match[n], h[n - 1])
  <2>1. n # 0 => n \in 1..N /\ n - 1 \in 0..N
    BY <1>0
  <2> QED BY <1>5, <1>6, <2>1 DEF Iterates
<1>8. Is(h)
  BY <1>6, <1>7 DEF Iterates
<1> DEFINE c == CHOOSE i : Is(i)
<1>9. Is(c)
  <2> HIDE DEF Is
  <2> QED BY <1>8
<1> HIDE DEF c
<1>10. DOMAIN c = 0..N /\ c[0] = z /\ \A n \in 1..N : c[n] = MatchesFrom(g, match[n], c[n - 1])
  BY <1>0, <1>9
<1>11. \A n \in 0..N : c[n] \in V
  <2>1. c[0] \in V /\ \A n \in 1..N : c[n - 1] \in V => c[n] \in V
    BY <1>2, <1>3, <1>10
  <2> QED BY <1>0, <2>1, AllAre
<1>12. CypherMatches(g, match) = c[N]
  BY <1>1 DEF c
<1>13. CypherMatched(g, match, c)
  BY <1>10 DEF CypherMatched, z, N
<1> QED BY <1>11, <1>12, <1>13 DEF V, N

LEMMA CypherIs ==
  ASSUME NEW g, GraphIs(g), NEW vs, NEW match, MatchIs(match, vs)
  PROVE  CypherMatches(g, match) \in Fin(MatchSet(g, vs))
<1>1. Len(match) \in 0..Len(match)
  BY DEF MatchIs
<1> QED BY <1>1, CypherUnfolds

(***************************************************************************)
(* Rows.                                                                   *)
(***************************************************************************)
Rows(s) == Len(s) \in Nat /\ s = [i \in 1..Len(s) |-> s[i]]

LEMMA RowsAreASequence ==
  ASSUME NEW s, Rows(s)
  PROVE  s \in Seq({s[i] : i \in 1..Len(s)}) /\ DOMAIN s = 1..Len(s)
BY DEF Rows

\* u is what s holds from place a to place b.
IsPart(u, s, a, b) ==
  /\ Rows(u) /\ Len(u) = IF a <= b THEN (b - a) + 1 ELSE 0
  /\ \A i \in 1..Len(u) : u[i] = s[(a + i) - 1] /\ (a + i) - 1 \in 1..Len(s)

LEMMA SubSeqIs ==
  ASSUME NEW s, Rows(s), NEW a, a \in Nat \ {0}, NEW b, b \in Nat, b <= Len(s)
  PROVE  IsPart(SubSeq(s, a, b), s, a, b)
<1> DEFINE T == {s[i] : i \in 1..Len(s)}
<1>1. s \in Seq(T) /\ Len(s) \in Nat
  BY RowsAreASequence DEF Rows
<1> HIDE DEF T
<1> DEFINE n == IF a <= b THEN (b - a) + 1 ELSE 0
           u == [i \in 1..n |-> s[(a + i) - 1]]
<1>2. SubSeq(s, a, b) = u
  BY <1>1
<1>3. n \in Nat /\ \A i \in 1..n : (a + i) - 1 \in 1..Len(s)
  BY <1>1
<1> HIDE DEF n
<1>4. Len(u) = n /\ \A i \in 1..n : u[i] = s[(a + i) - 1]
  BY <1>3
<1>5. u = [i \in 1..Len(u) |-> u[i]]
  BY <1>4
<1> HIDE DEF u
<1>6. Rows(u)
  BY <1>3, <1>4, <1>5 DEF Rows
<1> QED BY <1>2, <1>3, <1>4, <1>6 DEF n, IsPart

LEMMA MinOfTwo ==
  ASSUME NEW a, NEW b, a \in Nat, b \in Nat
  PROVE  /\ Min({a, b}) \in Nat /\ Min({a, b}) <= a /\ Min({a, b}) <= b
         /\ Min({a, b}) \in {a, b}
         /\ a <= b => Min({a, b}) = a
         /\ b <= a => Min({a, b}) = b
<1> DEFINE M == {a, b}
           P(x) == x \in M /\ \A y \in M : x <= y
<1>1. \E x : P(x)
  BY DEF P
<1>2. Min({a, b}) = CHOOSE x : P(x)
  BY DEF Min
<1>3. P(Min({a, b}))
  BY <1>1, <1>2
<1> QED BY <1>3

LEMMA MaxOfTwo ==
  ASSUME NEW a, NEW b, a \in Nat, b \in Nat
  PROVE  Max({a, b}) \in Nat /\ Max({a, b}) >= a
<1> DEFINE M == {a, b}
           P(x) == x \in M /\ \A y \in M : x >= y
<1>1. \E x : P(x)
  BY DEF P
<1>2. Max({a, b}) = CHOOSE x : P(x)
  BY DEF Max
<1>3. P(Max({a, b}))
  BY <1>1, <1>2
<1> QED BY <1>3

(***************************************************************************)
(* Some rows are of others, each as often at most.                         *)
(***************************************************************************)
Embeds(f, s, t) ==
  /\ \A i \in DOMAIN s : f[i] \in DOMAIN t /\ t[f[i]] = s[i]
  /\ \A i, j \in DOMAIN s : f[i] = f[j] => i = j
NoMoreOften(s, t) == \A r : Copies(s, r) <= Copies(t, r)

LEMMA CopiesAre ==
  ASSUME NEW s, Rows(s), NEW r
  PROVE  IsFiniteSet({i \in DOMAIN s : s[i] = r}) /\ Copies(s, r) \in Nat
<1>1. IsFiniteSet(1..Len(s)) /\ DOMAIN s = 1..Len(s)
  BY FS_Interval, RowsAreASequence DEF Rows
<1>2. IsFiniteSet({i \in DOMAIN s : s[i] = r})
  BY <1>1, FS_Subset
<1> QED BY <1>2, FS_CardinalityType DEF Copies

LEMMA EmbeddedAre ==
  ASSUME NEW s, NEW t, Rows(t), NEW f, Embeds(f, s, t)
  PROVE  NoMoreOften(s, t)
<1> SUFFICES ASSUME NEW r PROVE Copies(s, r) <= Copies(t, r)
  BY DEF NoMoreOften
<1> DEFINE A == {i \in DOMAIN s : s[i] = r}
           B == {i \in DOMAIN t : t[i] = r}
           k == [i \in A |-> f[i]]
<1>1. k \in [A -> B] /\ \A i, j \in A : k[i] = k[j] => i = j
  BY DEF Embeds
<1>2. k \in Injection(A, B)
  BY <1>1 DEF Injection, IsInjective
<1>3. IsFiniteSet(B)
  BY CopiesAre
<1> HIDE DEF A, B, k
<1>4. Cardinality(A) <= Cardinality(B)
  BY <1>2, <1>3, FS_Injection
<1> QED BY <1>4 DEF Copies, A, B

LEMMA OftenIsTransitive ==
  ASSUME NEW s, NEW t, NEW u, Rows(s), Rows(t), Rows(u), NoMoreOften(s, t), NoMoreOften(t, u)
  PROVE  NoMoreOften(s, u)
<1> SUFFICES ASSUME NEW r PROVE Copies(s, r) <= Copies(u, r)
  BY DEF NoMoreOften
<1>1. Copies(s, r) \in Nat /\ Copies(t, r) \in Nat /\ Copies(u, r) \in Nat
  BY CopiesAre
<1>2. Copies(s, r) <= Copies(t, r) /\ Copies(t, r) <= Copies(u, r)
  BY DEF NoMoreOften
<1> QED BY <1>1, <1>2

LEMMA PartsAreRows ==
  ASSUME NEW s, Rows(s), NEW a, a \in Nat \ {0}, NEW b, b \in Nat, b <= Len(s)
  PROVE  NoMoreOften(SubSeq(s, a, b), s)
<1> DEFINE u == SubSeq(s, a, b)
           f == [i \in 1..Len(u) |-> (a + i) - 1]
<1>0. IsPart(u, s, a, b)
  BY SubSeqIs
<1>1. Rows(u) /\ \A i \in 1..Len(u) : u[i] = s[(a + i) - 1] /\ (a + i) - 1 \in 1..Len(s)
  BY <1>0 DEF IsPart
<1>2. DOMAIN u = 1..Len(u) /\ DOMAIN s = 1..Len(s) /\ Len(u) \in Nat
  BY <1>1, RowsAreASequence DEF Rows
<1> HIDE DEF u
<1>3. \A i \in 1..Len(u) : f[i] = (a + i) - 1
  OBVIOUS
<1> HIDE DEF f
<1>4. Embeds(f, u, s)
  <2>1. \A i \in DOMAIN u : f[i] \in DOMAIN s /\ s[f[i]] = u[i]
    BY <1>1, <1>2, <1>3
  <2>2. \A i, j \in DOMAIN u : f[i] = f[j] => i = j
    BY <1>2, <1>3
  <2> QED BY <2>1, <2>2 DEF Embeds
<1>5. NoMoreOften(u, s)
  BY <1>4, EmbeddedAre
<1> QED BY <1>5 DEF u

LEMMA EnumeratedAreRows ==
  ASSUME NEW s, NEW S, Enumerates(s, S)
  PROVE  Rows(s) /\ DOMAIN s = 1..Len(s) /\ \A i \in 1..Len(s) : s[i] \in S
BY DEF Enumerates, Rows

\* Where each element of a smaller set is in the listing of a larger one.
LEMMA Places ==
  ASSUME NEW s, NEW S, Enumerates(s, S), NEW t, NEW T, Enumerates(t, T), S \subseteq T
  PROVE  \E f : Embeds(f, s, t)
<1> DEFINE f == [i \in 1..Len(s) |-> CHOOSE j \in 1..Len(t) : t[j] = s[i]]
<1>0. DOMAIN s = 1..Len(s) /\ DOMAIN t = 1..Len(t)
  BY EnumeratedAreRows
<1>1. ASSUME NEW i \in 1..Len(s) PROVE f[i] \in 1..Len(t) /\ t[f[i]] = s[i]
  <2>1. s[i] \in T
    BY EnumeratedAreRows
  <2>2. \E j \in 1..Len(t) : t[j] = s[i]
    BY <2>1 DEF Enumerates
  <2> QED BY <2>2
<1>2. \A i, j \in 1..Len(s) : s[i] = s[j] => i = j
  BY DEF Enumerates
<1> HIDE DEF f
<1>3. Embeds(f, s, t)
  BY <1>0, <1>1, <1>2 DEF Embeds
<1> QED BY <1>3

(***************************************************************************)
(* The rows of some matches.                                               *)
(***************************************************************************)
Groups(q, g, ms) == {Group(q, g, m[1]) : m \in ms}

LEMMA GroupsAreFinite ==
  ASSUME NEW q, NEW g, NEW ms, IsFiniteSet(ms)
  PROVE  IsFiniteSet(Groups(q, g, ms))
<1> DEFINE U == Groups(q, g, ms)
           f == [m \in ms |-> Group(q, g, m[1])]
<1>1. f \in [ms -> U] /\ \A m \in ms : f[m] = Group(q, g, m[1])
  BY DEF Groups
<1> HIDE DEF f
<1>2. {f[m] : m \in ms} \in Fin(U)
  BY <1>1, ImageIsFin
<1>3. {f[m] : m \in ms} = U
  BY <1>1 DEF Groups
<1> QED BY <1>2, <1>3 DEF Fin

LEMMA LinesAre ==
  ASSUME NEW q, NEW g, NEW s, Rows(s)
  PROVE  /\ Rows(Lines(q, g, s)) /\ Len(Lines(q, g, s)) = Len(s)
         /\ \A i \in 1..Len(s) : Lines(q, g, s)[i] = Group(q, g, s[i][1])
<1> DEFINE n == Len(s)
           u == [i \in 1..n |-> Group(q, g, s[i][1])]
<1>1. n \in Nat
  BY DEF Rows
<1> HIDE DEF n
<1>2. Len(u) = n /\ \A i \in 1..n : u[i] = Group(q, g, s[i][1])
  BY <1>1
<1>3. u = [i \in 1..Len(u) |-> u[i]]
  BY <1>2
<1>4. Lines(q, g, s) = u
  BY DEF Lines, n
<1> HIDE DEF u
<1>5. Rows(u)
  BY <1>1, <1>2, <1>3 DEF Rows
<1> QED BY <1>2, <1>4, <1>5 DEF n

LEMMA RowsOfAreRows ==
  ASSUME NEW q, NEW g, NEW ms, IsFiniteSet(ms)
  PROVE  Rows(RowsOf(q, g, ms))
<1>1. IsFiniteSet(Groups(q, g, ms))
  BY GroupsAreFinite
<1>2. CASE Counts(q)
  <2> DEFINE row(k) == [i \in 1..Len(k) |-> IF IsCount(q.returns[i])
                          THEN Cardinality({m \in ms : Group(q, g, m[1]) = k}) ELSE k[i]]
             K == Groups(q, g, ms)
             T == {row(k) : k \in K}
             f == [k \in K |-> row(k)]
  <2>1. f \in [K -> T] /\ \A k \in K : f[k] = row(k)
    OBVIOUS
  <2>2. RowsOf(q, g, ms) = InOrder(T)
    BY <1>2, Zenon DEF RowsOf, GroupedRows, Groups
  <2>3. T = {f[k] : k \in K}
    <3> HIDE DEF row
    <3> QED BY <2>1
  <2> HIDE DEF f, T, K
  <2>4. T \in Fin(T)
    BY <1>1, <2>1, <2>3, ImageIsFin DEF K
  <2>5. Enumerates(InOrder(T), T)
    BY <2>4, InOrderIs DEF Fin
  <2> QED BY <2>2, <2>5, EnumeratedAreRows
<1>3. CASE ~Counts(q) /\ q.distinct
  <2>1. RowsOf(q, g, ms) = InOrder(Groups(q, g, ms))
    BY <1>3, Zenon DEF RowsOf, PlainRows, Groups
  <2>2. Enumerates(InOrder(Groups(q, g, ms)), Groups(q, g, ms))
    BY <1>1, InOrderIs
  <2> QED BY <2>1, <2>2, EnumeratedAreRows
<1>4. CASE ~Counts(q) /\ ~q.distinct
  <2>1. RowsOf(q, g, ms) = Lines(q, g, InOrder(ms))
    BY <1>4, Zenon DEF RowsOf, PlainRows
  <2>2. Enumerates(InOrder(ms), ms)
    BY InOrderIs
  <2> QED BY <2>1, <2>2, EnumeratedAreRows, LinesAre
<1> QED BY <1>2, <1>3, <1>4

\* Fewer matches have no other rows, unless the rows count.
LEMMA FewerRows ==
  ASSUME NEW q, NEW g, NEW ms, NEW all, IsFiniteSet(all), ms \subseteq all, ~Counts(q)
  PROVE  NoMoreOften(RowsOf(q, g, ms), RowsOf(q, g, all))
<1>0. IsFiniteSet(ms)
  BY FS_Subset
<1>1. Rows(RowsOf(q, g, all))
  BY RowsOfAreRows
<1>2. CASE q.distinct
  <2>1. /\ RowsOf(q, g, ms) = InOrder(Groups(q, g, ms))
        /\ RowsOf(q, g, all) = InOrder(Groups(q, g, all))
    BY <1>2, Zenon DEF RowsOf, PlainRows, Groups
  <2>2. /\ Enumerates(InOrder(Groups(q, g, ms)), Groups(q, g, ms))
        /\ Enumerates(InOrder(Groups(q, g, all)), Groups(q, g, all))
    BY <1>0, GroupsAreFinite, InOrderIs
  <2>3. Groups(q, g, ms) \subseteq Groups(q, g, all)
    BY DEF Groups
  <2>4. \E f : Embeds(f, InOrder(Groups(q, g, ms)), InOrder(Groups(q, g, all)))
    BY <2>2, <2>3, Places
  <2> QED BY <1>1, <2>1, <2>4, EmbeddedAre
<1>3. CASE ~q.distinct
  <2> DEFINE s == InOrder(ms)
             t == InOrder(all)
  <2>1. RowsOf(q, g, ms) = Lines(q, g, s) /\ RowsOf(q, g, all) = Lines(q, g, t)
    BY <1>3, Zenon DEF RowsOf, PlainRows
  <2>2. Enumerates(s, ms) /\ Enumerates(t, all)
    BY <1>0, InOrderIs
  <2> HIDE DEF s, t
  <2>3. PICK f : Embeds(f, s, t)
    BY <2>2, Places
  <2>4. Rows(s) /\ Rows(t) /\ DOMAIN s = 1..Len(s) /\ DOMAIN t = 1..Len(t)
    BY <2>2, EnumeratedAreRows
  <2>5. /\ DOMAIN Lines(q, g, s) = 1..Len(s) /\ DOMAIN Lines(q, g, t) = 1..Len(t)
        /\ \A i \in 1..Len(s) : Lines(q, g, s)[i] = Group(q, g, s[i][1])
        /\ \A i \in 1..Len(t) : Lines(q, g, t)[i] = Group(q, g, t[i][1])
    BY <2>4, LinesAre, RowsAreASequence
  <2>6. Embeds(f, Lines(q, g, s), Lines(q, g, t))
    BY <2>3, <2>4, <2>5 DEF Embeds
  <2> QED BY <1>1, <2>1, <2>6, EmbeddedAre
<1> QED BY <1>2, <1>3

(***************************************************************************)
(* What holds of a query in the course of its execution.                   *)
(***************************************************************************)
VarsIn(match) == UNION {{match[n].nodes[i].var : i \in 1..(Len(match[n].rels) + 1)} : n \in 1..Len(match)}
MatchedHere == Matched(query, store, Asked)
MatchedRows == RowsOf(query, store, Held)
Pulling == Fetched(CypherRows(query, store))
PatternCount == Len(query.match)

PhaseInv ==
  /\ query \in Queries /\ store \in Stores
  /\ phase \in {"validate", "match", "rows", "answered", "refused", "crashed", "stuck", "compiled"}
  /\ pattern \in 1..PatternCount
  /\ phase \in {"match", "rows", "answered", "compiled"} => Valid(query)
  /\ phase = "validate" => pattern = 1 /\ waiting = {NoMatch} /\ bindings = {} /\ stopped = None
  /\ phase # "answered" => table = NoTable

\* What is still waiting will complete what was bound.
MatchInv ==
  /\ phase = "match" =>
       /\ stopped = None
       /\ bindings \union ExtendAll(store, query.match[pattern], Asked, waiting) = MatchedHere[pattern]
  /\ phase \in {"rows", "answered"} =>
       /\ bindings \subseteq MatchedHere[pattern]
       /\ stopped = None => pattern = PatternCount /\ bindings = MatchedHere[PatternCount]
  /\ phase = "answered" => table = Answer(MatchedRows)

\* What was pulled and what the engine has still to give are what the statement asked for.
DriverInv ==
  /\ pulling \in {"idle", "off", "running", "hung", "answered", "failed"}
  /\ pulling \in {"idle", "off"} => cursor = <<>> /\ got = <<>>
  /\ pulling # "answered" => pulled = NoTable
  /\ pulling \in {"running", "hung", "answered"} =>
       /\ phase = "compiled"
       /\ Rows(got) /\ Rows(cursor) /\ Len(got) + Len(cursor) = Len(Pulling)
       /\ \A i \in 1..Len(got) : got[i] = Pulling[i]
       /\ \A i \in 1..Len(cursor) : cursor[i] = Pulling[Len(got) + i]
  /\ pulling \in {"running", "hung"} => Len(got) <= EffectiveLimit(query)
  /\ pulling = "answered" =>
       /\ pulled.rows = Upto(EffectiveLimit(query), got)
       /\ pulled.reason = None => cursor = <<>> /\ Len(got) <= EffectiveLimit(query)

QueryInv == PhaseInv /\ MatchInv /\ DriverInv

LEMMA StoreIs ==
  ASSUME NEW g \in Stores
  PROVE  GraphIs(g)
BY StoresAssumption DEF GraphIs

LEMMA ElementOfSequence ==
  ASSUME NEW s, s \in Seq(ToSet(s)), NEW i, i \in 1..Len(s)
  PROVE  s[i] \in ToSet(s)
BY DEF ToSet

LEMMA SequenceOf ==
  ASSUME NEW S, NEW n \in Nat, NEW s \in [1..n -> S]
  PROVE  s \in Seq(S)
OBVIOUS

LEMMA ValidMatchIs ==
  ASSUME NEW q \in Queries, Valid(q)
  PROVE  /\ MatchIs(q.match, VarsIn(q.match)) /\ MatchIs(CompiledMatch(q), VarsIn(q.match))
         /\ Len(q.match) \in Nat /\ Len(q.match) >= 1
<1>0. q.match \in Seq(ToSet(q.match)) /\ Len(q.match) > 0 /\ Len(q.match) \in Nat
  BY QueriesAssumption
<1> DEFINE match == q.match
           vs == VarsIn(match)
<1>1. ASSUME NEW n \in 1..Len(match)
      PROVE  /\ match[n] \in AllPatterns(q) /\ Len(match[n].rels) \in Nat /\ Len(match[n].nodes) = Len(match[n].rels) + 1
             /\ \A i \in 1..(Len(match[n].rels) + 1) : match[n].nodes[i].var \in vs
             /\ \A i \in 1..Len(match[n].rels) : match[n].rels[i].max \in Nat /\ match[n].rels[i].min \in Nat
  <2>1. match[n] \in AllPatterns(q)
    BY <1>0, ElementOfSequence DEF AllPatterns
  <2> DEFINE p == match[n]
  <2> HIDE DEF p
  <2>2. p \in AllPatterns(q)
    BY <2>1 DEF p
  <2>3. /\ p.rels \in Seq(ToSet(p.rels)) /\ Len(p.nodes) = Len(p.rels) + 1 /\ Len(p.rels) \in Nat
        /\ \A r \in ToSet(p.rels) : r.min \in Nat /\ r.max \in Nat \union {Unbounded}
    BY <2>2, QueriesAssumption
  <2>4. \A r \in ToSet(p.rels) : r.max # Unbounded
    BY <2>2 DEF Valid, Lengths
  <2>5. \A i \in 1..Len(p.rels) : p.rels[i].max \in Nat /\ p.rels[i].min \in Nat
    BY <2>3, <2>4, ElementOfSequence
  <2>6. \A i \in 1..(Len(p.rels) + 1) : p.nodes[i].var \in vs
    BY DEF VarsIn, p
  <2> QED BY <2>2, <2>3, <2>5, <2>6 DEF p
<1> HIDE DEF vs
<1>2. MatchIs(match, vs)
  BY <1>0, <1>1 DEF MatchIs, PatternIs
<1>3. MatchIs(CompiledMatch(q), vs)
  <2> DEFINE c == CompiledMatch(q)
             texts == Texts(q)
  <2>1. Len(c) = Len(match) /\ Len(c) \in Nat /\ \A n \in 1..Len(match) : c[n] = CompiledText(texts, n)
    BY <1>0 DEF CompiledMatch
  <2>2. \A n \in 1..Len(match) : texts[n] = match[n]
    <3> DEFINE conditions == [i \in 1..Len(q.where) |-> IF q.where[i].op = "exists" THEN q.where[i].pattern ELSE NoPattern]
    <3>1. q.where \in Seq(ToSet(q.where)) /\ Len(q.where) \in Nat
      BY QueriesAssumption
    <3> DEFINE T == {conditions[i] : i \in 1..Len(q.where)} \union ToSet(match)
    <3>2. \A i \in 1..Len(q.where) : conditions[i] \in T
      OBVIOUS
    <3>3. \A n \in 1..Len(match) : match[n] \in T
      BY <1>0, ElementOfSequence
    <3>4. texts = match \o conditions
      BY Zenon DEF Texts
    <3>5. conditions \in [1..Len(q.where) -> T]
      OBVIOUS
    <3> HIDE DEF conditions, T, texts
    <3>6. match \in [1..Len(match) -> T]
      BY <1>0, <3>3
    <3>7. conditions \in Seq(T)
      BY <3>1, <3>5, SequenceOf
    <3>8. match \in Seq(T)
      BY <1>0, <3>6, SequenceOf
    <3> QED BY <1>0, <3>4, <3>7, <3>8
  <2> HIDE DEF texts
  <2>3. ASSUME NEW n \in 1..Len(match) PROVE PatternIs(c[n], vs)
    <3> DEFINE node(j) == LET np == texts[n].nodes[j]
                          IN IF Declares(texts, <<n, j>>) THEN np ELSE [var |-> np.var, label |-> None, val |-> None]
               ns == [j \in 1..Len(texts[n].nodes) |-> node(j)]
    <3>1. CompiledText(texts, n) = [nodes |-> ns, rels |-> texts[n].rels]
      BY Zenon DEF CompiledText
    <3>2. \A j : node(j).var = texts[n].nodes[j].var
      OBVIOUS
    <3> HIDE DEF node
    <3>3. \A j \in 1..(Len(match[n].rels) + 1) : ns[j].var = match[n].nodes[j].var
      BY <1>1, <2>2, <3>2
    <3> HIDE DEF ns
    <3>4. c[n].rels = match[n].rels /\ c[n].nodes = ns
      BY <2>1, <2>2, <3>1
    <3> HIDE DEF c
    <3> QED BY <1>1, <3>3, <3>4 DEF PatternIs
  <2> HIDE DEF c
  <2> QED BY <2>1, <2>3 DEF MatchIs, c
<1> QED BY <1>0, <1>2, <1>3 DEF vs

LEMMA AskedIs == Asked \in Nat /\ Asked > 0 /\ MaxExpansions \in Nat
BY CapsAssumption DEF Asked

LEMMA MatchedHereIs ==
  ASSUME PhaseInv, Valid(query)
  PROVE  /\ MatchAll(query, store, Asked) = MatchedHere[PatternCount] /\ MatchedHere[0] = {NoMatch}
         /\ \A n \in 1..PatternCount : MatchedHere[n] = ExtendAll(store, query.match[n], Asked, MatchedHere[n - 1])
         /\ \A n \in 0..PatternCount : IsFiniteSet(MatchedHere[n])
         /\ PatternCount \in Nat /\ PatternCount >= 1
<1> DEFINE vs == VarsIn(query.match)
<1>1. MatchIs(query.match, vs) /\ GraphIs(store) /\ PatternCount \in Nat /\ PatternCount >= 1
  BY ValidMatchIs, StoreIs DEF PhaseInv, PatternCount
<1> HIDE DEF vs
<1>2. LET h == Matched(query, store, Asked)
      IN  /\ MatchAll(query, store, Asked) = h[Len(query.match)] /\ h[0] = {NoMatch}
          /\ \A n \in 1..Len(query.match) : h[n] = ExtendAll(store, query.match[n], Asked, h[n - 1])
          /\ \A n \in 0..Len(query.match) : h[n] \in Fin(MatchSet(store, vs))
  BY <1>1, AskedIs, MatchedIs
<1> QED BY <1>1, <1>2 DEF MatchedHere, PatternCount, Fin

LEMMA LimitIs ==
  ASSUME NEW q \in Queries
  PROVE  /\ EffectiveLimit(q) \in Nat /\ EffectiveLimit(q) <= MaxRows /\ q.skip \in Nat /\ MaxRows \in Nat
         /\ q.limit # None => EffectiveLimit(q) <= q.limit
<1>1. MaxRows \in Nat /\ q.limit \in Nat \union {None} /\ q.skip \in Nat
  BY CapsAssumption, QueriesAssumption
<1>2. CASE q.limit = None
  BY <1>1, <1>2 DEF EffectiveLimit
<1>3. CASE q.limit # None
  BY <1>1, <1>3, MinOfTwo DEF EffectiveLimit
<1> QED BY <1>1, <1>2, <1>3

LEMMA UptoIs ==
  ASSUME NEW n, n \in Nat, NEW s, Rows(s)
  PROVE  /\ Rows(Upto(n, s)) /\ Len(Upto(n, s)) <= n
         /\ Len(Upto(n, s)) = IF Len(s) <= n THEN Len(s) ELSE n
         /\ \A i \in 1..Len(Upto(n, s)) : Upto(n, s)[i] = s[i] /\ i \in 1..Len(s)
         /\ NoMoreOften(Upto(n, s), s)
<1> DEFINE b == Min({n, Len(s)})
<1>1. Len(s) \in Nat
  BY DEF Rows
<1>2. b \in Nat /\ b <= Len(s) /\ b <= n /\ b = IF Len(s) <= n THEN Len(s) ELSE n
  <2> DEFINE l == Len(s)
  <2>1. l \in Nat
    BY <1>1
  <2> HIDE DEF l
  <2>2. /\ Min({n, l}) \in Nat /\ Min({n, l}) <= n /\ Min({n, l}) <= l
        /\ n <= l => Min({n, l}) = n
        /\ l <= n => Min({n, l}) = l
    BY <2>1, MinOfTwo
  <2>3. b = Min({n, l})
    BY DEF l
  <2> HIDE DEF b
  <2>4. b = IF l <= n THEN l ELSE n
    BY <2>1, <2>2, <2>3
  <2> QED BY <2>2, <2>3, <2>4 DEF l
<1> HIDE DEF b
<1> DEFINE u == SubSeq(s, 1, b)
<1>3. /\ Rows(u) /\ Len(u) = IF 1 <= b THEN (b - 1) + 1 ELSE 0
      /\ \A i \in 1..Len(u) : u[i] = s[(1 + i) - 1] /\ (1 + i) - 1 \in 1..Len(s)
  <2>1. 1 \in Nat \ {0}
    OBVIOUS
  <2>2. IsPart(u, s, 1, b)
    BY <1>2, <2>1, SubSeqIs
  <2> QED BY <2>2 DEF IsPart
<1>4. NoMoreOften(u, s)
  <2>1. 1 \in Nat \ {0}
    OBVIOUS
  <2> QED BY <1>2, <2>1, PartsAreRows
<1>5. u = Upto(n, s)
  BY DEF Upto, b
<1> HIDE DEF u
<1>6. Len(u) = b /\ \A i \in 1..Len(u) : (1 + i) - 1 = i
  BY <1>2, <1>3
<1>7. \A i \in 1..Len(u) : u[i] = s[i] /\ i \in 1..Len(s)
  BY <1>3, <1>6
<1> QED BY <1>2, <1>3, <1>4, <1>5, <1>6, <1>7

LEMMA SkippedIs ==
  ASSUME NEW q \in Queries, NEW s, Rows(s)
  PROVE  Rows(Skipped(q, s)) /\ NoMoreOften(Skipped(q, s), s)
<1>1. q.skip + 1 \in Nat \ {0} /\ Len(s) \in Nat
  BY LimitIs DEF Rows
<1>2. IsPart(Skipped(q, s), s, q.skip + 1, Len(s))
  BY <1>1, SubSeqIs DEF Skipped
<1>3. NoMoreOften(Skipped(q, s), s)
  BY <1>1, PartsAreRows DEF Skipped
<1> QED BY <1>2, <1>3 DEF IsPart

LEMMA CypherRowsAre ==
  ASSUME NEW q \in Queries, NEW g \in Stores, Valid(q)
  PROVE  Rows(CypherRows(q, g))
<1> DEFINE vs == VarsIn(q.match)
           all == CypherMatches(g, CompiledMatch(q))
           where == CompiledWhere(q)
           kept == {m \in all : where = <<>> \/ Truth3(g, where, m[1]) = "yes"}
<1>1. GraphIs(g) /\ MatchIs(CompiledMatch(q), vs)
  BY StoreIs, ValidMatchIs
<1> HIDE DEF vs
<1>2. all \in Fin(MatchSet(g, vs))
  BY <1>1, CypherIs
<1>3. CypherRows(q, g) = EngineRows(q, g, kept)
  BY DEF CypherRows
<1> HIDE DEF all, where
<1>4. IsFiniteSet(kept)
  BY <1>2, FS_Subset DEF Fin
<1> HIDE DEF kept
<1>5. Rows(RowsOf(q, g, kept))
  BY <1>4, RowsOfAreRows
<1>6. \A r : Rows(<<r>>)
  <2> SUFFICES ASSUME NEW r PROVE Rows(<<r>>)
    OBVIOUS
  <2>1. <<r>> \in Seq({r})
    OBVIOUS
  <2> QED BY <2>1 DEF Rows
<1> DEFINE zeros == [i \in 1..Len(q.returns) |-> 0]
<1>7. EngineRows(q, g, kept) = IF Keyless(q) /\ kept = {} THEN <<zeros>> ELSE RowsOf(q, g, kept)
  BY DEF EngineRows
<1> HIDE DEF zeros
<1> QED BY <1>3, <1>5, <1>6, <1>7

LEMMA PullingIs ==
  ASSUME PhaseInv, Valid(query)
  PROVE  LET s == CypherRows(query, store)
         IN  /\ Rows(Pulling) /\ NoMoreOften(Pulling, s) /\ Rows(s)
             /\ Len(Pulling) <= EffectiveLimit(query) => Len(Pulling) = Len(Skipped(query, s))
<1> DEFINE s == CypherRows(query, store)
           left == Skipped(query, s)
           n == EffectiveLimit(query) + 1
<1>1. query \in Queries /\ store \in Stores
  BY DEF PhaseInv
<1>2. Rows(s)
  BY <1>1, CypherRowsAre
<1> HIDE DEF s
<1>3. Rows(left) /\ NoMoreOften(left, s)
  BY <1>1, <1>2, SkippedIs
<1>4. EffectiveLimit(query) \in Nat
  BY <1>1, LimitIs
<1>5. Pulling = Upto(n, left)
  BY DEF Pulling, Fetched, s
<1> HIDE DEF left
<1>6. n \in Nat
  BY <1>4
<1>7. /\ Rows(Upto(n, left)) /\ NoMoreOften(Upto(n, left), left)
      /\ Len(Upto(n, left)) = IF Len(left) <= n THEN Len(left) ELSE n
  BY <1>3, <1>6, UptoIs
<1>8. NoMoreOften(Pulling, s)
  BY <1>2, <1>3, <1>5, <1>7, OftenIsTransitive
<1>9. Len(Pulling) <= EffectiveLimit(query) => Len(Pulling) = Len(left)
  BY <1>4, <1>5, <1>7
<1> QED BY <1>2, <1>5, <1>7, <1>8, <1>9 DEF s, left

LEMMA InitQuery ==
  ASSUME QueryInit PROVE QueryInv
<1>1. query \in Queries /\ Len(query.match) \in Nat /\ Len(query.match) > 0
  BY QueriesAssumption DEF QueryInit
<1>2. PhaseInv
  BY <1>1 DEF QueryInit, PhaseInv, PatternCount
<1>3. MatchInv
  BY DEF QueryInit, MatchInv
<1>4. DriverInv
  BY DEF QueryInit, DriverInv
<1> QED BY <1>2, <1>3, <1>4 DEF QueryInv

\* What the interpreter leaves alone of the driver, and the driver of the interpreter.
LEMMA DriverStays ==
  ASSUME DriverInv, UNCHANGED <<query, store, driver>>,
         pulling \in {"running", "hung", "answered"} => phase' = "compiled"
  PROVE  DriverInv'
<1>1. Pulling' = Pulling
  BY DEF Pulling, Fetched, CypherRows
<1>2. UNCHANGED <<query, pulling, cursor, got, pulled>>
  BY DEF driver
<1> QED BY <1>1, <1>2 DEF DriverInv

LEMMA InterpreterStays ==
  ASSUME PhaseInv, MatchInv, UNCHANGED <<query, store, interpreter>>
  PROVE  PhaseInv' /\ MatchInv'
<1>1. UNCHANGED <<phase, pattern, waiting, bindings, stopped, table>>
  BY DEF interpreter
<1>2. MatchedHere' = MatchedHere /\ MatchedRows' = MatchedRows /\ PatternCount' = PatternCount
  BY <1>1 DEF MatchedHere, MatchedRows, Held, PatternCount
<1>3. Answer(MatchedRows)' = Answer(MatchedRows)
  BY <1>1, <1>2 DEF Answer
<1>4. PhaseInv'
  BY <1>1, <1>2 DEF PhaseInv
<1>5. MatchInv'
  BY <1>1, <1>2, <1>3 DEF MatchInv
<1> QED BY <1>4, <1>5

LEMMA ValidateSteps ==
  ASSUME QueryInv, Validate
  PROVE  QueryInv'
<1>1. /\ phase = "validate" /\ pattern = 1 /\ waiting = {NoMatch} /\ bindings = {} /\ stopped = None
      /\ UNCHANGED <<query, store, pattern, waiting, bindings, stopped, table, driver>>
      /\ phase' \in {"refused", "match", "compiled"} /\ (phase' # "refused" => Valid(query))
  BY DEF Validate, QueryInv, PhaseInv
<1>2. PhaseInv'
  BY <1>1 DEF QueryInv, PhaseInv, PatternCount
<1>3. MatchedHere' = MatchedHere
  BY <1>1 DEF MatchedHere
<1>4. MatchInv'
  <2>1. CASE phase' = "match"
    <3>1. Valid(query) /\ PhaseInv
      BY <1>1, <2>1 DEF QueryInv
    <3>2. MatchedHere[0] = {NoMatch} /\ 1 \in 1..PatternCount /\ MatchedHere[1] = ExtendAll(store, query.match[1], Asked, MatchedHere[1 - 1])
      BY <3>1, MatchedHereIs
    <3>3. MatchedHere[1] = ExtendAll(store, query.match[1], Asked, waiting)
      BY <1>1, <3>2
    <3> QED BY <1>1, <1>3, <2>1, <3>3 DEF MatchInv
  <2>2. CASE phase' # "match"
    BY <1>1, <2>2 DEF MatchInv
  <2> QED BY <2>1, <2>2
<1>5. DriverInv'
  BY <1>1, DriverStays DEF QueryInv, DriverInv
<1> QED BY <1>2, <1>4, <1>5 DEF QueryInv

LEMMA ExtendBindingSteps ==
  ASSUME QueryInv, ExtendBinding
  PROVE  QueryInv'
<1> DEFINE b == CHOOSE m \in waiting : TRUE
           found == ExtendPattern(store, query.match[pattern], b, Asked)
           Rest(K) == ExtendAll(store, query.match[pattern], Asked, K)
<1>1. /\ phase = "match" /\ b \in waiting /\ stopped = None /\ table = NoTable
      /\ UNCHANGED <<query, store, pattern, table, driver>>
      /\ bindings \union Rest(waiting) = MatchedHere[pattern]
  BY DEF ExtendBinding, QueryInv, PhaseInv, MatchInv
<1>2. Rest(waiting) = found \union Rest(waiting \ {b})
  BY <1>1 DEF ExtendAll
<1>3. \/ bindings' = bindings \union found /\ waiting' = waiting \ {b} /\ UNCHANGED <<stopped, phase>>
      \/ /\ \E some \in SUBSET found : bindings' = bindings \union some
         /\ stopped' \in {"expansion_cap", "timeout"} /\ phase' = "rows" /\ UNCHANGED waiting
  BY DEF ExtendBinding, kSubset
<1> HIDE DEF b, found
<1>4. MatchedHere' = MatchedHere
  BY <1>1 DEF MatchedHere
<1>5. PhaseInv'
  BY <1>1, <1>3 DEF QueryInv, PhaseInv, PatternCount
<1>6. MatchInv'
  <2>1. CASE bindings' = bindings \union found /\ waiting' = waiting \ {b} /\ UNCHANGED <<stopped, phase>>
    <3>1. bindings' \union Rest(waiting') = MatchedHere[pattern]
      BY <1>1, <1>2, <2>1
    <3> HIDE DEF Rest
    <3>2. ExtendAll(store, query.match[pattern], Asked, waiting)' = Rest(waiting')
      BY <1>1 DEF Rest
    <3> QED BY <1>1, <1>4, <2>1, <3>1, <3>2 DEF MatchInv
  <2>2. CASE /\ \E some \in SUBSET found : bindings' = bindings \union some
             /\ stopped' \in {"expansion_cap", "timeout"} /\ phase' = "rows" /\ UNCHANGED waiting
    <3>1. bindings' \subseteq MatchedHere[pattern]
      BY <1>1, <1>2, <2>2
    <3>2. stopped' # None
      BY <2>2, CapsAssumption
    <3> QED BY <1>1, <1>4, <2>2, <3>1, <3>2 DEF MatchInv
  <2> QED BY <1>3, <2>1, <2>2
<1>7. DriverInv'
  BY <1>1, DriverStays DEF QueryInv, DriverInv
<1> QED BY <1>5, <1>6, <1>7 DEF QueryInv

LEMMA NextPatternSteps ==
  ASSUME QueryInv, NextPattern
  PROVE  QueryInv'
<1>1. /\ phase = "match" /\ waiting = {} /\ Valid(query) /\ PhaseInv
      /\ UNCHANGED <<query, store, stopped, table, driver>>
      /\ bindings \union ExtendAll(store, query.match[pattern], Asked, waiting) = MatchedHere[pattern]
      /\ pattern \in 1..PatternCount
  BY DEF NextPattern, QueryInv, PhaseInv, MatchInv
<1>2. bindings = MatchedHere[pattern]
  BY <1>1 DEF ExtendAll
<1>3. MatchedHere' = MatchedHere /\ PatternCount' = PatternCount
  BY <1>1 DEF MatchedHere, PatternCount
<1>4. PatternCount \in Nat /\ \A n \in 1..PatternCount : MatchedHere[n] = ExtendAll(store, query.match[n], Asked, MatchedHere[n - 1])
  BY <1>1, MatchedHereIs
<1>5. CASE pattern < PatternCount
  <2>1. pattern' = pattern + 1 /\ waiting' = bindings /\ bindings' = {} /\ UNCHANGED phase
    BY <1>5 DEF NextPattern, PatternCount
  <2>2. pattern' \in 1..PatternCount /\ pattern' - 1 = pattern
    BY <1>1, <1>4, <1>5, <2>1
  <2>3. PhaseInv'
    BY <1>1, <1>3, <2>1, <2>2 DEF PhaseInv
  <2>4. MatchedHere[pattern'] = ExtendAll(store', query'.match[pattern'], Asked, waiting')
    BY <1>1, <1>2, <1>4, <2>1, <2>2
  <2>5. MatchInv'
    BY <1>1, <1>3, <2>1, <2>4 DEF MatchInv, QueryInv
  <2>6. DriverInv'
    BY <1>1, DriverStays DEF QueryInv, DriverInv
  <2> QED BY <2>3, <2>5, <2>6 DEF QueryInv
<1>6. CASE ~(pattern < PatternCount)
  <2>1. phase' = "rows" /\ UNCHANGED <<pattern, waiting, bindings>>
    BY <1>6 DEF NextPattern, PatternCount
  <2>2. pattern = PatternCount
    BY <1>1, <1>4, <1>6
  <2>3. PhaseInv'
    BY <1>1, <1>3, <2>1 DEF PhaseInv
  <2>4. MatchInv'
    BY <1>2, <1>3, <2>1, <2>2 DEF MatchInv
  <2>5. DriverInv'
    BY <1>1, DriverStays DEF QueryInv, DriverInv
  <2> QED BY <2>3, <2>4, <2>5 DEF QueryInv
<1> QED BY <1>5, <1>6

LEMMA InterpretSteps ==
  ASSUME QueryInv, Interpret
  PROVE  QueryInv'
<1>1. /\ phase = "rows" /\ phase' \in {"crashed", "answered"}
      /\ UNCHANGED <<query, store, pattern, waiting, bindings, stopped, driver>>
      /\ phase' = "crashed" => UNCHANGED table
      /\ phase' = "answered" => table' = Answer(MatchedRows)
  BY DEF Interpret, MatchedRows
<1>2. MatchedHere' = MatchedHere /\ MatchedRows' = MatchedRows /\ PatternCount' = PatternCount
  BY <1>1 DEF MatchedHere, MatchedRows, Held, PatternCount
<1>3. Answer(MatchedRows)' = Answer(MatchedRows)
  BY <1>1, <1>2 DEF Answer
<1>4. PhaseInv'
  BY <1>1, <1>2 DEF QueryInv, PhaseInv
<1>5. MatchInv'
  BY <1>1, <1>2, <1>3 DEF QueryInv, MatchInv
<1>6. DriverInv'
  BY <1>1, DriverStays DEF QueryInv, DriverInv
<1> QED BY <1>4, <1>5, <1>6 DEF QueryInv

LEMMA RunSteps ==
  ASSUME QueryInv, Run
  PROVE  QueryInv'
<1>1. /\ phase = "compiled" /\ got = <<>> /\ pulled = NoTable
      /\ cursor' = Pulling /\ pulling' = "running"
      /\ UNCHANGED <<query, store, interpreter, got, pulled>>
      /\ Valid(query) /\ PhaseInv /\ query \in Queries
  BY DEF Run, QueryInv, DriverInv, PhaseInv, Pulling
<1>2. Rows(Pulling)
  BY <1>1, PullingIs
<1>3. Pulling' = Pulling /\ phase' = phase
  BY <1>1 DEF Pulling, Fetched, CypherRows, interpreter
<1>4. Rows(got') /\ Len(got') = 0
  BY <1>1 DEF Rows
<1>5. EffectiveLimit(query)' = EffectiveLimit(query) /\ EffectiveLimit(query) \in Nat
  BY <1>1, LimitIs
<1>6. Len(Pulling) \in Nat
  BY <1>2 DEF Rows
<1>7. DriverInv'
  BY <1>1, <1>2, <1>3, <1>4, <1>5, <1>6 DEF DriverInv
<1> QED BY <1>1, <1>7, InterpreterStays DEF QueryInv

\* One row moves from the cursor to what was pulled.
LEMMA PulledOne ==
  ASSUME NEW c, Rows(c), c # <<>>, NEW s, Rows(s)
  PROVE  /\ Len(c) >= 1 /\ Rows(Tail(c)) /\ Len(Tail(c)) = Len(c) - 1
         /\ \A i \in 1..Len(Tail(c)) : Tail(c)[i] = c[i + 1] /\ i + 1 \in 1..Len(c)
         /\ Rows(Append(s, c[1])) /\ Len(Append(s, c[1])) = Len(s) + 1
         /\ \A i \in 1..Len(s) : Append(s, c[1])[i] = s[i]
         /\ Append(s, c[1])[Len(s) + 1] = c[1]
<1> DEFINE T == {c[i] : i \in 1..Len(c)} \union {s[i] : i \in 1..Len(s)}
<1>1. c \in Seq(T) /\ s \in Seq(T) /\ Len(c) \in Nat /\ Len(s) \in Nat
  BY RowsAreASequence DEF Rows
<1> HIDE DEF T
<1>2. Len(c) >= 1 /\ c[1] \in T
  BY <1>1
<1>3. /\ Tail(c) \in Seq(T) /\ Len(Tail(c)) = Len(c) - 1
      /\ \A i \in 1..Len(Tail(c)) : Tail(c)[i] = c[i + 1] /\ i + 1 \in 1..Len(c)
  BY <1>1, <1>2
<1>4. /\ Append(s, c[1]) \in Seq(T) /\ Len(Append(s, c[1])) = Len(s) + 1
      /\ \A i \in 1..Len(s) : Append(s, c[1])[i] = s[i]
      /\ Append(s, c[1])[Len(s) + 1] = c[1]
  BY <1>1, <1>2, AppendIs
<1>5. \A u : u \in Seq(T) => Rows(u)
  BY DEF Rows
<1> QED BY <1>2, <1>3, <1>4, <1>5

LEMMA UptoAll ==
  ASSUME NEW n, n \in Nat, NEW s, Rows(s), Len(s) <= n
  PROVE  Upto(n, s) = s
<1> DEFINE u == Upto(n, s)
<1>1. Rows(u) /\ Len(u) = Len(s) /\ \A i \in 1..Len(u) : u[i] = s[i]
  BY UptoIs
<1> HIDE DEF u
<1>2. u = s
  BY <1>1 DEF Rows
<1> QED BY <1>2 DEF u

LEMMA PullSteps ==
  ASSUME QueryInv, Pull
  PROVE  QueryInv'
<1> DEFINE limit == EffectiveLimit(query)
<1>1. /\ pulling = "running" /\ phase = "compiled" /\ UNCHANGED <<query, store, interpreter>> /\ pulled = NoTable
      /\ Rows(got) /\ Rows(cursor) /\ Len(got) + Len(cursor) = Len(Pulling)
      /\ \A i \in 1..Len(got) : got[i] = Pulling[i]
      /\ \A i \in 1..Len(cursor) : cursor[i] = Pulling[Len(got) + i]
      /\ Len(got) <= limit /\ limit \in Nat
  BY LimitIs DEF Pull, QueryInv, DriverInv, PhaseInv
<1>2. Pulling' = Pulling /\ phase' = phase /\ EffectiveLimit(query)' = limit
  BY <1>1 DEF Pulling, Fetched, CypherRows, interpreter
<1>3. PhaseInv' /\ MatchInv'
  BY <1>1, InterpreterStays DEF QueryInv
<1>4. Upto(limit, got) = got
  BY <1>1, UptoAll
<1>5. CASE \E why \in {"timeout", "expansion_cap", None} :
             Finish(got, why) /\ UNCHANGED <<cursor, got>> /\ (why = None => cursor = <<>>)
  <2>1. /\ pulling' = "answered" /\ pulled'.rows = got /\ UNCHANGED <<cursor, got>>
        /\ pulled'.reason = None => cursor = <<>>
    <3>1. PICK why \in {"timeout", "expansion_cap", None} :
            /\ pulling' = "answered" /\ pulled' = [rows |-> got, reason |-> why]
            /\ UNCHANGED <<cursor, got>> /\ (why = None => cursor = <<>>)
      BY <1>5 DEF Finish
    <3>2. pulling' = "answered" /\ pulled' = [rows |-> got, reason |-> why]
      BY <3>1
    <3>3. pulled'.rows = got /\ pulled'.reason = why
      BY <3>2
    <3> QED BY <3>1, <3>2, <3>3
  <2>2. DriverInv'
    <3> HIDE DEF limit
    <3> QED BY <1>1, <1>2, <1>4, <2>1 DEF DriverInv
  <2> QED BY <1>3, <2>2 DEF QueryInv
<1>6. CASE /\ cursor # <<>> /\ cursor' = Tail(cursor) /\ got' = Append(got, cursor[1])
           /\ IF Len(got') > limit THEN Finish(Upto(limit, got'), "row_cap") ELSE UNCHANGED <<pulling, pulled>>
  <2>1. /\ Len(cursor) >= 1 /\ Rows(Tail(cursor)) /\ Len(Tail(cursor)) = Len(cursor) - 1
        /\ \A i \in 1..Len(Tail(cursor)) : Tail(cursor)[i] = cursor[i + 1] /\ i + 1 \in 1..Len(cursor)
        /\ Rows(Append(got, cursor[1])) /\ Len(Append(got, cursor[1])) = Len(got) + 1
        /\ \A i \in 1..Len(got) : Append(got, cursor[1])[i] = got[i]
        /\ Append(got, cursor[1])[Len(got) + 1] = cursor[1]
    BY <1>1, <1>6, PulledOne
  <2>2. Len(got) \in Nat /\ Len(cursor) \in Nat
    BY <1>1 DEF Rows
  <2>3. Rows(got') /\ Rows(cursor') /\ Len(got') + Len(cursor') = Len(Pulling) /\ Len(got') = Len(got) + 1
    BY <1>1, <1>6, <2>1, <2>2
  <2>4. ASSUME NEW i \in 1..Len(got') PROVE got'[i] = Pulling[i]
    <3>1. CASE i \in 1..Len(got)
      BY <1>1, <1>6, <2>1, <3>1
    <3>2. CASE i = Len(got) + 1
      <4>1. cursor[1] = Pulling[Len(got) + 1]
        BY <1>1, <2>1, <2>2
      <4> QED BY <1>6, <2>1, <3>2, <4>1
    <3> QED BY <2>2, <2>3, <3>1, <3>2
  <2>5. ASSUME NEW i \in 1..Len(cursor') PROVE cursor'[i] = Pulling[Len(got') + i]
    <3>1. cursor'[i] = cursor[i + 1] /\ i + 1 \in 1..Len(cursor)
      BY <1>6, <2>1
    <3>2. cursor[i + 1] = Pulling[Len(got) + (i + 1)]
      BY <1>1, <3>1
    <3>3. Len(got) + (i + 1) = Len(got') + i
      BY <2>2, <2>3
    <3> QED BY <3>1, <3>2, <3>3
  <2>6. CASE Len(got') > limit
    <3>1. pulling' = "answered" /\ pulled'.rows = Upto(limit, got') /\ pulled'.reason = "row_cap"
      BY <1>6, <2>6 DEF Finish
    <3>2. DriverInv'
      <4> HIDE DEF limit
      <4> QED BY <1>1, <1>2, <2>3, <2>4, <2>5, <3>1, CapsAssumption DEF DriverInv
    <3> QED BY <1>3, <3>2 DEF QueryInv
  <2>7. CASE ~(Len(got') > limit)
    <3>1. UNCHANGED <<pulling, pulled>> /\ Len(got') <= limit
      BY <1>1, <1>6, <2>2, <2>3, <2>7
    <3>2. DriverInv'
      <4> HIDE DEF limit
      <4> QED BY <1>1, <1>2, <2>3, <2>4, <2>5, <3>1 DEF DriverInv
    <3> QED BY <1>3, <3>2 DEF QueryInv
  <2> QED BY <2>6, <2>7
<1>7. CASE Finish(got, "timeout") /\ UNCHANGED <<cursor, got>>
  <2>1. "timeout" # None
    BY CapsAssumption
  <2> QED BY <1>5, <1>7, <2>1
<1>8. CASE Finish(got, "expansion_cap") /\ UNCHANGED <<cursor, got>>
  <2>1. "expansion_cap" # None
    BY CapsAssumption
  <2> QED BY <1>5, <1>8, <2>1
<1>9. CASE cursor = <<>> /\ Finish(got, None) /\ UNCHANGED <<cursor, got>>
  BY <1>5, <1>9
<1> QED BY <1>6, <1>7, <1>8, <1>9 DEF Pull

LEMMA HangSteps ==
  ASSUME QueryInv, Hang \/ HardTimeout
  PROVE  QueryInv'
<1>1. /\ UNCHANGED <<query, store, interpreter, cursor, got, pulled>>
      /\ \/ pulling = "running" /\ pulling' = "hung"
         \/ pulling = "hung" /\ pulling' = "failed"
  BY DEF Hang, HardTimeout
<1>2. Pulling' = Pulling /\ phase' = phase /\ EffectiveLimit(query)' = EffectiveLimit(query)
  BY <1>1 DEF Pulling, Fetched, CypherRows, interpreter
<1>3. PhaseInv' /\ MatchInv'
  BY <1>1, InterpreterStays DEF QueryInv
<1>4. DriverInv'
  BY <1>1, <1>2 DEF QueryInv, DriverInv
<1> QED BY <1>3, <1>4 DEF QueryInv

LEMMA ReadHangsSteps ==
  ASSUME QueryInv, ReadHangs
  PROVE  QueryInv'
<1>1. /\ phase \in {"match", "rows"} /\ phase' = "stuck"
      /\ UNCHANGED <<query, store, pattern, waiting, bindings, stopped, table, driver>>
  BY DEF ReadHangs
<1>2. PhaseInv'
  BY <1>1 DEF QueryInv, PhaseInv, PatternCount
<1>3. MatchInv'
  BY <1>1 DEF MatchInv
<1>4. DriverInv'
  BY <1>1, DriverStays DEF QueryInv, DriverInv
<1> QED BY <1>2, <1>3, <1>4 DEF QueryInv

LEMMA QueryInvHolds ==
  QuerySpec => []QueryInv
<1>1. ASSUME QueryInv, [QueryNext]_queryVars PROVE QueryInv'
  <2>1. CASE UNCHANGED queryVars
    <3>1. UNCHANGED <<query, store, interpreter>> /\ UNCHANGED <<query, store, driver>> /\ phase' = phase
      BY <2>1 DEF queryVars, interpreter
    <3>2. pulling \in {"running", "hung", "answered"} => phase' = "compiled"
      BY <1>1, <3>1 DEF QueryInv, DriverInv
    <3> QED BY <1>1, <3>1, <3>2, InterpreterStays, DriverStays DEF QueryInv
  <2>2. CASE QueryNext
    BY <1>1, <2>2, ValidateSteps, ExtendBindingSteps, NextPatternSteps, InterpretSteps, RunSteps, PullSteps, HangSteps, ReadHangsSteps
       DEF QueryNext, InterpreterStep, DriverStep
  <2> QED BY <1>1, <2>1, <2>2
<1> QED BY <1>1, InitQuery, PTL DEF QuerySpec

(***************************************************************************)
(* Why nothing is left out silently, and partial answers are of the full   *)
(* ones.                                                                   *)
(***************************************************************************)
\* No pattern starts from a label of which a store holds more nodes than are asked of it.
CandidatesFit ==
  \A q \in Queries : \A g \in Stores : \A p \in AllPatterns(q) :
    Cardinality(Labelled(g, p.nodes[1])) <= Asked

FitsIn(g, p, cap) == Cardinality(Labelled(g, p.nodes[1])) <= cap

\* Where the candidates fit, asking for more of them changes nothing.
LEMMA SameExtensions ==
  ASSUME NEW g, GraphIs(g), NEW p, NEW m, NEW few, few \in Nat, NEW more, more \in Nat,
         FitsIn(g, p, few), FitsIn(g, p, more)
  PROVE  ExtendPattern(g, p, m, few) = ExtendPattern(g, p, m, more)
<1> DEFINE np == p.nodes[1]
           From(ns) == LET over[i \in 0..Len(p.rels)] ==
                             IF i = 0 THEN Starts(g, np, m, ns) ELSE StepsOver(g, p, i, over[i - 1])
                       IN over[Len(p.rels)]
<1>1. Candidates(g, np, few) = Candidates(g, np, more)
  BY CandidatesAre DEF FitsIn
<1>2. FirstNodes(g, np, m, few) = FirstNodes(g, np, m, more)
  BY <1>1 DEF FirstNodes
<1>3. \A cap : ExtendPattern(g, p, m, cap) = From(FirstNodes(g, np, m, cap))
  BY Zenon DEF ExtendPattern, FirstNodes, Starts, StepsOver, Onward
<1> HIDE DEF From
<1> QED BY <1>2, <1>3

LEMMA SameMatches ==
  ASSUME NEW q, NEW g, GraphIs(g), NEW few, few \in Nat, NEW more, more \in Nat, Len(q.match) \in Nat,
         \A n \in 1..Len(q.match) : FitsIn(g, q.match[n], few) /\ FitsIn(g, q.match[n], more)
  PROVE  MatchAll(q, g, few) = MatchAll(q, g, more)
<1> DEFINE N == Len(q.match)
           F(h, cap) == [n \in 0..N |-> IF n = 0 THEN {NoMatch} ELSE ExtendAll(g, q.match[n], cap, h[n - 1])]
<1>1. ASSUME NEW n \in 1..N, NEW K PROVE ExtendAll(g, q.match[n], few, K) = ExtendAll(g, q.match[n], more, K)
  <2>1. \A m \in K : ExtendPattern(g, q.match[n], m, few) = ExtendPattern(g, q.match[n], m, more)
    BY SameExtensions
  <2> QED BY <2>1 DEF ExtendAll
<1>2. ASSUME NEW h PROVE F(h, few) = F(h, more)
  <2>1. \A n \in 0..N : n # 0 => n \in 1..N
    OBVIOUS
  <2> QED BY <1>1, <2>1
<1>3. \A cap : MatchAll(q, g, cap) = (CHOOSE h : h = F(h, cap))[N]
  BY Zenon DEF MatchAll, ExtendAll
<1> HIDE DEF F
<1>4. (CHOOSE h : h = F(h, few)) = (CHOOSE h : h = F(h, more))
  BY <1>2
<1> QED BY <1>3, <1>4

LEMMA SameTruth ==
  ASSUME NEW g, GraphIs(g), NEW where, NEW b, NEW few, few \in Nat, NEW more, more \in Nat, Len(where) \in Nat,
         \A n \in 1..Len(where) : where[n].op = "exists" => FitsIn(g, where[n].pattern, few) /\ FitsIn(g, where[n].pattern, more)
  PROVE  Truth(g, where, b, few) = Truth(g, where, b, more)
<1> DEFINE N == Len(where)
           F(h, cap) == [n \in 0..N |-> IF n = 0 THEN <<>> ELSE LET before == h[n - 1] IN Append(before, Holds(g, where[n], b, before, cap))]
<1>1. ASSUME NEW n \in 1..N, NEW before PROVE Holds(g, where[n], b, before, few) = Holds(g, where[n], b, before, more)
  <2>1. CASE where[n].op = "exists"
    <3>1. ExtendPattern(g, where[n].pattern, <<b, None, <<>>>>, few) = ExtendPattern(g, where[n].pattern, <<b, None, <<>>>>, more)
      BY <2>1, SameExtensions
    <3> QED BY <2>1, <3>1 DEF Holds
  <2>2. CASE where[n].op # "exists"
    BY <2>2 DEF Holds
  <2> QED BY <2>1, <2>2
<1>2. ASSUME NEW h PROVE F(h, few) = F(h, more)
  <2>1. \A n \in 0..N : n # 0 => n \in 1..N
    OBVIOUS
  <2> QED BY <1>1, <2>1
<1>3. \A cap : Truth(g, where, b, cap) = (CHOOSE h : h = F(h, cap))[N][N]
  BY Zenon DEF Truth
<1> HIDE DEF F
<1>4. (CHOOSE h : h = F(h, few)) = (CHOOSE h : h = F(h, more))
  BY <1>2
<1> QED BY <1>3, <1>4

LEMMA InterpretedIs ==
  ASSUME CandidatesFit, QueryInv, phase \in {"rows", "answered"}
  PROVE  /\ InterpretedRows = RowsOf(query, store, Filtered(query, store, MatchedHere[PatternCount], Asked))
         /\ IsFiniteSet(MatchedHere[PatternCount]) /\ IsFiniteSet(MatchedHere[pattern])
<1> DEFINE all == Max({Asked, Cardinality(Nodes(store))})
<1>1. PhaseInv /\ Valid(query) /\ query \in Queries /\ store \in Stores /\ pattern \in 1..PatternCount
  BY DEF QueryInv, PhaseInv
<1>2. /\ MatchAll(query, store, Asked) = MatchedHere[PatternCount]
      /\ IsFiniteSet(MatchedHere[PatternCount]) /\ IsFiniteSet(MatchedHere[pattern])
  BY <1>1, MatchedHereIs
<1>3. GraphIs(store) /\ Cardinality(Nodes(store)) \in Nat /\ Asked \in Nat
  BY <1>1, StoreIs, FS_CardinalityType, AskedIs DEF GraphIs
<1>4. all \in Nat /\ all >= Asked
  BY <1>3, MaxOfTwo
<1>5. /\ query.match \in Seq(ToSet(query.match)) /\ query.where \in Seq(ToSet(query.where))
      /\ Len(query.match) \in Nat /\ Len(query.where) \in Nat
  BY <1>1, QueriesAssumption
<1>6. \A p \in AllPatterns(query) : FitsIn(store, p, Asked)
  BY <1>1 DEF CandidatesFit, FitsIn
<1> HIDE DEF all
<1>7. \A p \in AllPatterns(query) : FitsIn(store, p, all)
  <2> SUFFICES ASSUME NEW p \in AllPatterns(query) PROVE FitsIn(store, p, all)
    OBVIOUS
  <2>1. IsFiniteSet(Labelled(store, p.nodes[1]))
    BY <1>3, FS_Subset DEF GraphIs, Labelled
  <2>2. Cardinality(Labelled(store, p.nodes[1])) \in Nat
    BY <2>1, FS_CardinalityType
  <2> QED BY <1>3, <1>4, <1>6, <2>2 DEF FitsIn
<1>8. \A n \in 1..Len(query.match) : query.match[n] \in AllPatterns(query)
  BY <1>5 DEF AllPatterns, ToSet
<1>9. \A n \in 1..Len(query.where) : query.where[n].op = "exists" => query.where[n].pattern \in AllPatterns(query)
  BY <1>5 DEF AllPatterns, WherePatterns, WhereParts, ToSet
<1>10. MatchAll(query, store, Asked) = MatchAll(query, store, all)
  BY <1>3, <1>4, <1>5, <1>6, <1>7, <1>8, SameMatches
<1>11. \A b : Truth(store, query.where, b, Asked) = Truth(store, query.where, b, all)
  BY <1>3, <1>4, <1>5, <1>6, <1>7, <1>9, SameTruth
<1>12. \A ms : Filtered(query, store, ms, Asked) = Filtered(query, store, ms, all)
  BY <1>11 DEF Filtered
<1>13. InterpretedRows = RowsOf(query, store, Filtered(query, store, MatchAll(query, store, Asked), Asked))
  BY <1>10, <1>12 DEF InterpretedRows, InterpretedMatches, all
<1> QED BY <1>2, <1>13

LEMMA HeldIs ==
  ASSUME CandidatesFit, QueryInv, phase = "answered"
  PROVE  LET full == Filtered(query, store, MatchedHere[pattern], Asked)
         IN  /\ IsFiniteSet(Held) /\ IsFiniteSet(full) /\ Held \subseteq full
             /\ stopped = None => pattern = PatternCount /\ Held = full
<1>1. bindings \subseteq MatchedHere[pattern] /\ IsFiniteSet(MatchedHere[pattern])
  BY InterpretedIs DEF QueryInv, MatchInv
<1>2. IsFiniteSet(bindings)
  BY <1>1, FS_Subset
<1>3. Held \subseteq bindings /\ Held \subseteq Filtered(query, store, MatchedHere[pattern], Asked)
  BY <1>1 DEF Held, Filtered
<1>4. Filtered(query, store, MatchedHere[pattern], Asked) \subseteq MatchedHere[pattern]
  BY DEF Filtered
<1>5. stopped = None => pattern = PatternCount /\ bindings = MatchedHere[pattern]
  BY DEF QueryInv, MatchInv
<1>6. stopped = None => Held = Filtered(query, store, MatchedHere[pattern], Asked)
  BY <1>5 DEF Held
<1>7. IsFiniteSet(Held) /\ IsFiniteSet(Filtered(query, store, MatchedHere[pattern], Asked))
  BY <1>1, <1>2, <1>3, <1>4, FS_Subset
<1> QED BY <1>3, <1>5, <1>6, <1>7

LEMMA AnswerIs ==
  ASSUME NEW rows, Rows(rows), query \in Queries
  PROVE  LET t == Answer(rows) IN
         /\ Rows(t.rows) /\ Len(t.rows) <= EffectiveLimit(query) /\ NoMoreOften(t.rows, rows)
         /\ t.reason = None => stopped = None /\ Len(t.rows) = Len(Skipped(query, rows))
<1> DEFINE left == Skipped(query, rows)
           limit == EffectiveLimit(query)
<1>1. Rows(left) /\ NoMoreOften(left, rows) /\ limit \in Nat /\ Len(left) \in Nat
  BY SkippedIs, LimitIs DEF Rows
<1>2. Answer(rows) = [rows |-> Upto(limit, left),
                      reason |-> IF stopped = None /\ Len(left) > limit THEN "row_cap" ELSE stopped]
  BY DEF Answer
<1> HIDE DEF left, limit
<1>3. /\ Rows(Upto(limit, left)) /\ Len(Upto(limit, left)) <= limit
      /\ Len(Upto(limit, left)) = IF Len(left) <= limit THEN Len(left) ELSE limit
      /\ NoMoreOften(Upto(limit, left), left)
  BY <1>1, UptoIs
<1>4. NoMoreOften(Upto(limit, left), rows)
  BY <1>1, <1>3, OftenIsTransitive
<1>5. Answer(rows).reason = None => stopped = None /\ Len(left) <= limit
  BY <1>1, <1>2, CapsAssumption
<1>6. Answer(rows).rows = Upto(limit, left)
  BY <1>2
<1> QED BY <1>3, <1>4, <1>5, <1>6 DEF left, limit

LEMMA AnsweredIs ==
  ASSUME CandidatesFit, QueryInv
  PROVE  /\ pulling = "answered" =>
              /\ Len(pulled.rows) <= EffectiveLimit(query) /\ NoMoreOften(pulled.rows, CypherRows(query, store))
              /\ pulled.reason = None => Len(pulled.rows) = Len(Skipped(query, CypherRows(query, store)))
<1> SUFFICES ASSUME pulling = "answered" PROVE
       /\ Len(pulled.rows) <= EffectiveLimit(query) /\ NoMoreOften(pulled.rows, CypherRows(query, store))
       /\ pulled.reason = None => Len(pulled.rows) = Len(Skipped(query, CypherRows(query, store)))
  OBVIOUS
<1> DEFINE s == CypherRows(query, store)
           limit == EffectiveLimit(query)
<1>1. /\ phase = "compiled" /\ Rows(got) /\ Rows(cursor) /\ Len(got) + Len(cursor) = Len(Pulling)
      /\ \A i \in 1..Len(got) : got[i] = Pulling[i]
      /\ pulled.rows = Upto(limit, got)
      /\ pulled.reason = None => cursor = <<>> /\ Len(got) <= limit
  BY DEF QueryInv, DriverInv
<1>2. PhaseInv /\ Valid(query) /\ query \in Queries
  BY <1>1 DEF QueryInv, PhaseInv
<1>3. /\ Rows(Pulling) /\ NoMoreOften(Pulling, s) /\ Rows(s)
      /\ Len(Pulling) <= limit => Len(Pulling) = Len(Skipped(query, s))
  BY <1>2, PullingIs
<1>4. limit \in Nat
  BY <1>2, LimitIs
<1> HIDE DEF s, limit
<1>5. Len(got) \in Nat /\ Len(cursor) \in Nat /\ DOMAIN got = 1..Len(got) /\ DOMAIN Pulling = 1..Len(Pulling)
  BY <1>1, <1>3, RowsAreASequence DEF Rows
<1>6. Embeds([i \in 1..Len(got) |-> i], got, Pulling)
  BY <1>1, <1>5 DEF Embeds
<1>7. NoMoreOften(got, Pulling)
  BY <1>3, <1>6, EmbeddedAre
<1>8. /\ Rows(Upto(limit, got)) /\ Len(Upto(limit, got)) <= limit /\ NoMoreOften(Upto(limit, got), got)
      /\ Len(Upto(limit, got)) = IF Len(got) <= limit THEN Len(got) ELSE limit
  BY <1>1, <1>4, UptoIs
<1>9. NoMoreOften(Upto(limit, got), s)
  BY <1>1, <1>3, <1>7, <1>8, OftenIsTransitive
<1>10. pulled.reason = None => Len(pulled.rows) = Len(Pulling) /\ Len(Pulling) <= limit
  <2>1. cursor = <<>> => Len(cursor) = 0
    OBVIOUS
  <2> QED BY <1>1, <1>5, <1>8, <2>1
<1> QED BY <1>1, <1>3, <1>8, <1>9, <1>10 DEF s, limit

\* "No silent caps": an answer that names no bound holds every row that was asked for, by either
\* way, where no store holds more nodes than the interpreter asks it for as candidates.
THEOREM NoSilentCaps ==
  ASSUME CandidatesFit
  PROVE  QuerySpec => []NothingLeftOutSilently
<1>1. ASSUME QueryInv PROVE NothingLeftOutSilently
  <2>1. ASSUME phase = "answered", table.reason = None
        PROVE  Len(table.rows) = Len(Skipped(query, InterpretedRows))
    <3>1. table = Answer(MatchedRows) /\ query \in Queries
      BY <1>1, <2>1 DEF QueryInv, MatchInv, PhaseInv
    <3>2. IsFiniteSet(Held)
      BY <1>1, <2>1, HeldIs
    <3>3. Rows(MatchedRows)
      BY <3>2, RowsOfAreRows DEF MatchedRows
    <3>4. stopped = None /\ Len(table.rows) = Len(Skipped(query, MatchedRows))
      BY <2>1, <3>1, <3>3, AnswerIs
    <3>5. pattern = PatternCount /\ Held = Filtered(query, store, MatchedHere[pattern], Asked)
      BY <1>1, <2>1, <3>4, HeldIs
    <3>6. InterpretedRows = MatchedRows
      BY <1>1, <2>1, <3>5, InterpretedIs DEF MatchedRows
    <3> QED BY <3>4, <3>6
  <2>2. pulling = "answered" /\ pulled.reason = None => Len(pulled.rows) = Len(Skipped(query, CypherRows(query, store)))
    BY <1>1, AnsweredIs
  <2> QED BY <2>1, <2>2 DEF NothingLeftOutSilently
<1>2. QuerySpec => []QueryInv
  BY QueryInvHolds
<1> QED BY <1>1, <1>2, PTL

LEMMA NoMoreIsAmong ==
  ASSUME NEW s, NEW t, NoMoreOften(s, t)
  PROVE  Among(s, t)
BY DEF NoMoreOften, Among

\* A partial answer holds only rows of the full one, and no more than the caller and the server
\* allow, under the same condition.
THEOREM PartialAnswersAreHonest ==
  ASSUME CandidatesFit
  PROVE  QuerySpec => []PartialRowsAreRows
<1>1. ASSUME QueryInv PROVE PartialRowsAreRows
  <2>0. query \in Queries /\ EffectiveLimit(query) \in Nat /\ EffectiveLimit(query) <= MaxRows /\ MaxRows \in Nat
        /\ (query.limit # None => EffectiveLimit(query) <= query.limit /\ query.limit \in Nat)
    BY <1>1, LimitIs, QueriesAssumption DEF QueryInv, PhaseInv
  <2>a. ASSUME NEW t, Len(t.rows) \in Nat, Len(t.rows) <= EffectiveLimit(query) PROVE WithinLimit(t)
    BY <2>0, <2>a DEF WithinLimit
  <2>b. WithinLimit(NoTable)
    <3>1. Len(NoTable.rows) = 0
      BY DEF NoTable
    <3> QED BY <2>0, <2>a, <3>1
  <2>1. ASSUME phase = "answered"
        PROVE  WithinLimit(table) /\ (~Counts(query) /\ Len(query.match) = 1 => Among(table.rows, InterpretedRows))
    <3>1. table = Answer(MatchedRows)
      BY <1>1, <2>1 DEF QueryInv, MatchInv
    <3> DEFINE full == Filtered(query, store, MatchedHere[pattern], Asked)
    <3>2. IsFiniteSet(Held) /\ IsFiniteSet(full) /\ Held \subseteq full
      BY <1>1, <2>1, HeldIs
    <3>3. Rows(MatchedRows) /\ Rows(RowsOf(query, store, full))
      BY <3>2, RowsOfAreRows DEF MatchedRows
    <3>4. Rows(table.rows) /\ Len(table.rows) <= EffectiveLimit(query) /\ NoMoreOften(table.rows, MatchedRows)
      BY <2>0, <3>1, <3>3, AnswerIs
    <3>5. WithinLimit(table)
      BY <2>a, <3>4 DEF Rows
    <3>6. ASSUME ~Counts(query), Len(query.match) = 1 PROVE Among(table.rows, InterpretedRows)
      <4>1. pattern = PatternCount
        BY <1>1, <3>6 DEF QueryInv, PhaseInv, PatternCount
      <4>2. InterpretedRows = RowsOf(query, store, full)
        BY <1>1, <2>1, <4>1, InterpretedIs
      <4> HIDE DEF full
      <4>3. NoMoreOften(MatchedRows, RowsOf(query, store, full))
        BY <3>2, <3>6, FewerRows DEF MatchedRows
      <4>4. NoMoreOften(table.rows, RowsOf(query, store, full))
        BY <3>3, <3>4, <4>3, OftenIsTransitive
      <4> QED BY <4>2, <4>4, NoMoreIsAmong
    <3> QED BY <3>5, <3>6
  <2>2. phase # "answered" => WithinLimit(table)
    BY <1>1, <2>b DEF QueryInv, PhaseInv
  <2>3. ASSUME pulling = "answered" PROVE WithinLimit(pulled) /\ Among(pulled.rows, CypherRows(query, store))
    <3>1. Len(pulled.rows) <= EffectiveLimit(query) /\ NoMoreOften(pulled.rows, CypherRows(query, store))
      BY <1>1, <2>3, AnsweredIs
    <3>2. pulled.rows = Upto(EffectiveLimit(query), got) /\ Rows(got)
      BY <1>1, <2>3 DEF QueryInv, DriverInv
    <3>3. Len(pulled.rows) \in Nat
      BY <2>0, <3>2, UptoIs DEF Rows
    <3> QED BY <2>a, <3>1, <3>3, NoMoreIsAmong
  <2>4. pulling # "answered" => WithinLimit(pulled)
    BY <1>1, <2>b DEF QueryInv, DriverInv
  <2> QED BY <2>1, <2>2, <2>3, <2>4 DEF PartialRowsAreRows
<1>2. QuerySpec => []QueryInv
  BY QueryInvHolds
<1> QED BY <1>1, <1>2, PTL

(***************************************************************************)
(* The two ways of a query.  What the closure of a rel reaches, its paths   *)
(* reach, and the other way about.                                         *)
(***************************************************************************)
OneDirection(rel) == rel.dir \in {"in", "out"} /\ rel.min = 1 /\ rel.max \in Nat

\* Where the edge is left from along the rel.
Origin(rel, e) == IF rel.dir = "out" THEN e.src ELSE e.dst

LEMMA HopIs ==
  ASSUME NEW g, NEW rel, OneDirection(rel)
  PROVE  /\ \A e, n : EdgeFrom(e, n, rel) <=> Open(rel.kind, e.kind) /\ Origin(rel, e) = n
         /\ \A n : OneHop(g, n, rel) = {Opposite(e, n) : e \in {f \in g.edges : EdgeFrom(f, n, rel)}}
<1>1. ASSUME NEW e, NEW n PROVE EdgeFrom(e, n, rel) <=> Open(rel.kind, e.kind) /\ Origin(rel, e) = n
  BY DEF EdgeFrom, Origin, OneDirection
<1>2. ASSUME NEW n PROVE OneHop(g, n, rel) = {Opposite(e, n) : e \in {f \in g.edges : EdgeFrom(f, n, rel)}}
  <2>1. CASE rel.dir = "out"
    BY <2>1 DEF EdgeFrom, OneHop, Opposite
  <2>2. CASE rel.dir = "in"
    <3>1. OneHop(g, n, rel) = {e.src : e \in {x \in {e \in g.edges : Open(rel.kind, e.kind)} : x.dst = n}}
      BY <2>2 DEF OneHop
    <3>2. \A e : EdgeFrom(e, n, rel) <=> Open(rel.kind, e.kind) /\ e.dst = n
      BY <2>2 DEF EdgeFrom
    <3>3. \A e : e.dst = n => Opposite(e, n) = e.src
      BY DEF Opposite
    <3> QED BY <3>1, <3>2, <3>3
  <2> QED BY <2>1, <2>2 DEF OneDirection
<1> QED BY <1>1, <1>2

\* What the closure has seen after some hops, and what the paths of so many edges reach.
ClosureInv(g, rel, s, d, P) ==
  /\ s.visited = {t[2] : t \in P[0]} \union s.results /\ s.frontier \subseteq s.visited
  /\ \A x \in s.visited \ s.frontier : OneHop(g, x, rel) \subseteq s.results
  /\ \A k \in 1..d : \A t \in P[k] : t[2] \in s.results
  /\ \A x \in s.results : \E k \in 1..d : \E t \in P[k] : t[2] = x
  /\ \A x \in s.frontier : \E t \in P[d] :
       t[2] = x /\ \A e \in ToSet(t[1]) : Origin(rel, e) \in s.visited \ s.frontier

LEMMA AppendHas ==
  ASSUME NEW A, NEW s \in Seq(A), NEW x \in A
  PROVE  ToSet(Append(s, x)) = ToSet(s) \union {x}
<1> DEFINE t == Append(s, x)
<1>1. /\ t \in Seq(A) /\ Len(t) = Len(s) + 1 /\ Len(s) \in Nat /\ \A i \in 1..Len(s) : t[i] = s[i]
      /\ t[Len(s) + 1] = x
  BY AppendIs
<1> HIDE DEF t
<1>2. DOMAIN t = 1..(Len(s) + 1) /\ DOMAIN s = 1..Len(s)
  BY <1>1
<1>3. ASSUME NEW y \in ToSet(t) PROVE y \in ToSet(s) \union {x}
  <2>1. PICK i \in 1..(Len(s) + 1) : t[i] = y
    BY <1>2 DEF ToSet
  <2>2. i = Len(s) + 1 \/ i \in 1..Len(s)
    BY <1>1
  <2> QED BY <1>1, <1>2, <2>1, <2>2 DEF ToSet
<1>4. ASSUME NEW y \in ToSet(s) \union {x} PROVE y \in ToSet(t)
  <2>1. CASE y = x
    <3>1. Len(s) + 1 \in DOMAIN t
      BY <1>1, <1>2
    <3> QED BY <1>1, <2>1, <3>1 DEF ToSet
  <2>2. CASE y \in ToSet(s)
    <3>1. PICK i \in 1..Len(s) : s[i] = y
      BY <1>2, <2>2 DEF ToSet
    <3>2. i \in DOMAIN t
      BY <1>1, <1>2
    <3> QED BY <1>1, <3>1, <3>2 DEF ToSet
  <2> QED BY <2>1, <2>2
<1> QED BY <1>3, <1>4 DEF t

LEMMA LongerHas ==
  ASSUME NEW g, NEW rel, OneDirection(rel), NEW t, NEW e \in g.edges, EdgeFrom(e, t[2], rel), e \notin ToSet(t[1])
  PROVE  <<Append(t[1], e), Opposite(e, t[2])>> \in Longer(g, rel, t)
BY DEF Longer

LEMMA LongerReaches ==
  ASSUME NEW g, NEW rel, OneDirection(rel), NEW t, NEW u \in Longer(g, rel, t)
  PROVE  u[2] \in OneHop(g, t[2], rel)
<1>1. PICK e \in g.edges : EdgeFrom(e, t[2], rel) /\ u = <<Append(t[1], e), Opposite(e, t[2])>>
  BY DEF Longer
<1> QED BY <1>1, HopIs

\* One hop more.
LEMMA ClosureStep ==
  ASSUME NEW g, GraphIs(g), NEW rel, OneDirection(rel), NEW n, NEW s, NEW P, NEW d, d \in Nat,
         P[d + 1] = LongerAll(g, rel, P[d]), \A k \in 0..d : P[k] \subseteq PathsOver(g, n),
         P[0] = {<< <<>>, n>>}, ClosureInv(g, rel, s, d, P)
  PROVE  ClosureInv(g, rel, Deeper(g, rel, s, d + 1), d + 1, P)
<1> DEFINE nxt == NextNodes(g, rel, s)
           r == Deeper(g, rel, s, d + 1)
<1>0. r.results = s.results \union nxt /\ r.frontier = nxt \ s.visited /\ r.visited = s.visited \union nxt
  BY DEF Deeper, OneDirection
<1>1. \A y : y \in nxt <=> \E x \in s.frontier : y \in OneHop(g, x, rel)
  BY DEF NextNodes
<1> HIDE DEF nxt, r
<1>2. s.visited = {t[2] : t \in P[0]} \union s.results /\ s.frontier \subseteq s.visited
  BY DEF ClosureInv
<1>3. r.visited = {t[2] : t \in P[0]} \union r.results /\ r.frontier \subseteq r.visited
  BY <1>0, <1>2
<1>4. ASSUME NEW x \in r.visited \ r.frontier PROVE OneHop(g, x, rel) \subseteq r.results
  <2>1. x \in s.visited
    BY <1>0, <1>4
  <2>2. CASE x \in s.frontier
    BY <1>0, <1>1, <2>2
  <2>3. CASE x \notin s.frontier
    BY <1>0, <2>1, <2>3 DEF ClosureInv
  <2> QED BY <2>2, <2>3
<1>5. ASSUME NEW k \in 1..(d + 1), NEW u \in P[k] PROVE u[2] \in r.results
  <2>1. CASE k \in 1..d
    BY <1>0, <1>5, <2>1 DEF ClosureInv
  <2>2. CASE k = d + 1
    <3>1. PICK t \in P[d] : u \in Longer(g, rel, t)
      BY <2>2, <1>5 DEF LongerAll
    <3>2. u[2] \in OneHop(g, t[2], rel)
      BY <3>1, LongerReaches
    <3>3. t[2] \in s.visited
      <4>1. CASE d = 0
        BY <1>2, <3>1, <4>1
      <4>2. CASE d \in 1..d
        BY <1>2, <3>1, <4>2 DEF ClosureInv
      <4> QED BY <4>1, <4>2
    <3>4. CASE t[2] \in s.frontier
      BY <1>0, <1>1, <3>2, <3>4
    <3>5. CASE t[2] \notin s.frontier
      BY <1>0, <3>2, <3>3, <3>5 DEF ClosureInv
    <3> QED BY <3>4, <3>5
  <2> QED BY <2>1, <2>2
<1>6. ASSUME NEW y \in nxt
      PROVE  \E u \in P[d + 1] : u[2] = y /\ \A e \in ToSet(u[1]) : Origin(rel, e) \in s.visited
  <2>1. PICK x \in s.frontier : y \in OneHop(g, x, rel)
    BY <1>1
  <2>0. \A z : OneHop(g, z, rel) = {Opposite(e, z) : e \in {f \in g.edges : EdgeFrom(f, z, rel)}}
    BY Zenon, HopIs
  <2>a. OneHop(g, x, rel) = {Opposite(e, x) : e \in {f \in g.edges : EdgeFrom(f, x, rel)}}
    BY Zenon, <2>0
  <2>2. PICK e \in g.edges : EdgeFrom(e, x, rel) /\ y = Opposite(e, x)
    BY <2>1, <2>a
  <2>3. PICK t \in P[d] : t[2] = x /\ \A f \in ToSet(t[1]) : Origin(rel, f) \in s.visited \ s.frontier
    BY DEF ClosureInv
  <2>4. Origin(rel, e) = x
    BY <2>2, HopIs
  <2>5. e \notin ToSet(t[1])
    BY <2>3, <2>4
  <2> DEFINE u == <<Append(t[1], e), Opposite(e, t[2])>>
  <2>6. u \in Longer(g, rel, t)
    BY <2>2, <2>3, <2>5, LongerHas
  <2>7. u \in P[d + 1]
    BY <2>3, <2>6 DEF LongerAll
  <2>8. t[1] \in Seq(g.edges)
    BY <2>3 DEF PathsOver
  <2>9. ToSet(Append(t[1], e)) = ToSet(t[1]) \union {e}
    BY <2>8, AppendHas
  <2>10. \A f \in ToSet(u[1]) : Origin(rel, f) \in s.visited
    BY <1>2, <2>3, <2>4, <2>9
  <2> QED BY <2>2, <2>3, <2>7, <2>10
<1>7. ASSUME NEW x \in r.results PROVE \E k \in 1..(d + 1) : \E t \in P[k] : t[2] = x
  <2>1. CASE x \in s.results
    <3>1. PICK k \in 1..d : \E t \in P[k] : t[2] = x
      BY <2>1 DEF ClosureInv
    <3> QED BY <3>1
  <2>2. CASE x \in nxt
    BY <1>6, <2>2
  <2> QED BY <1>0, <2>1, <2>2
<1>8. ASSUME NEW x \in r.frontier
      PROVE  \E t \in P[d + 1] : t[2] = x /\ \A e \in ToSet(t[1]) : Origin(rel, e) \in r.visited \ r.frontier
  BY <1>0, <1>6
<1>9. ClosureInv(g, rel, r, d + 1, P)
  BY <1>3, <1>4, <1>5, <1>7, <1>8 DEF ClosureInv
<1> QED BY <1>9 DEF r

\* The breadth-first closure reaches what the trails of the rel reach, its start included
\* where a cycle comes back to it.
LEMMA ClosureIsPaths ==
  ASSUME NEW g, GraphIs(g), NEW n, NEW rel, OneDirection(rel)
  PROVE  Reachable(g, n, rel) = {t[2] : t \in Paths(g, n, rel)}
<1> DEFINE N == rel.max
<1>0. N \in Nat
  BY DEF OneDirection
<1>1. PICK h : Hops(g, n, rel, h) /\ Reachable(g, n, rel) = h[N].results
  BY <1>0, ReachableUnfolds
<1>2. PICK P : /\ OfLength(g, n, rel, P) /\ Paths(g, n, rel) = UNION {P[k] : k \in 1..N}
               /\ \A k \in 0..N : P[k] \in Fin(PathsOver(g, n))
  BY <1>0, PathsUnfold DEF OneDirection
<1> DEFINE Good == {d \in Nat : d <= N => ClosureInv(g, rel, h[d], d, P)}
<1>3. 0 \in Good
  <2>1. h[0] = HopStart(n) /\ P[0] = {<< <<>>, n>>}
    BY <1>1, <1>2 DEF Hops, OfLength
  <2>2. ToSet(<<>>) = {}
    BY DEF ToSet
  <2>3. ClosureInv(g, rel, h[0], 0, P)
    BY <2>1, <2>2 DEF ClosureInv, HopStart
  <2> QED BY <2>3
<1>4. ASSUME NEW d \in Nat, d \in Good PROVE d + 1 \in Good
  <2> SUFFICES ASSUME d + 1 <= N PROVE ClosureInv(g, rel, h[d + 1], d + 1, P)
    OBVIOUS
  <2>1. d + 1 \in 1..N /\ (d + 1) - 1 = d
    BY <1>0
  <2>2. h[d + 1] = Deeper(g, rel, h[d], d + 1) /\ P[d + 1] = LongerAll(g, rel, P[d]) /\ P[0] = {<< <<>>, n>>}
    BY <1>1, <1>2, <2>1 DEF Hops, OfLength
  <2>3. ASSUME NEW k \in 0..d PROVE P[k] \subseteq PathsOver(g, n)
    <3>1. k \in 0..N
      BY <1>0
    <3>2. P[k] \in Fin(PathsOver(g, n))
      BY <1>2, <3>1
    <3> QED BY <3>2, FinHas
  <2>a. d <= N
    BY <1>0
  <2>4. ClosureInv(g, rel, h[d], d, P)
    BY <1>4, <2>a
  <2> QED BY <2>2, <2>3, <2>4, ClosureStep
<1>5. ClosureInv(g, rel, h[N], N, P)
  <2> HIDE DEF Good
  <2>1. N \in Good
    BY <1>0, <1>3, <1>4, AllNaturals
  <2> QED BY <1>0, <2>1 DEF Good
<1> QED BY <1>1, <1>2, <1>5 DEF ClosureInv

\* The edges of a path are of the rel's kind.
LEMMA PathKinds ==
  ASSUME NEW g, GraphIs(g), NEW n, NEW rel, OneDirection(rel), NEW t \in Paths(g, n, rel)
  PROVE  t \in PathsOver(g, n) /\ \A e \in ToSet(t[1]) : Open(rel.kind, e.kind)
<1> DEFINE N == rel.max
           Fine(u) == \A e \in ToSet(u[1]) : Open(rel.kind, e.kind)
<1>0. N \in Nat
  BY DEF OneDirection
<1>1. PICK P : /\ OfLength(g, n, rel, P) /\ Paths(g, n, rel) = UNION {P[k] : k \in 1..N}
               /\ \A k \in 0..N : P[k] \in Fin(PathsOver(g, n))
  BY <1>0, PathsUnfold DEF OneDirection
<1> DEFINE Good == {k \in Nat : k <= N => \A u \in P[k] : Fine(u)}
<1>2. 0 \in Good
  <2>1. P[0] = {<< <<>>, n>>} /\ ToSet(<<>>) = {}
    BY <1>1 DEF OfLength, ToSet
  <2> QED BY <2>1
<1>3. ASSUME NEW k \in Nat, k \in Good PROVE k + 1 \in Good
  <2> SUFFICES ASSUME k + 1 <= N, NEW u \in P[k + 1] PROVE Fine(u)
    OBVIOUS
  <2>1. k <= N /\ k \in 0..N /\ k + 1 \in 1..N /\ (k + 1) - 1 = k
    BY <1>0
  <2>2. P[k + 1] = LongerAll(g, rel, P[k])
    BY <1>1, <2>1 DEF OfLength
  <2>3. PICK v \in P[k] : u \in Longer(g, rel, v)
    BY <2>2 DEF LongerAll
  <2>4. PICK e \in g.edges : EdgeFrom(e, v[2], rel) /\ u = <<Append(v[1], e), Opposite(e, v[2])>>
    BY <2>3 DEF Longer
  <2>5. v \in PathsOver(g, n)
    BY <1>1, <2>1, FinHas
  <2>6. v[1] \in Seq(g.edges)
    BY <2>5 DEF PathsOver
  <2>7. ToSet(u[1]) = ToSet(v[1]) \union {e}
    BY <2>4, <2>6, AppendHas
  <2>8. Fine(v)
    BY <1>3, <2>1
  <2> QED BY <2>4, <2>7, <2>8, HopIs
<1>4. PICK k \in 1..N : t \in P[k]
  BY <1>1
<1>5. k \in Good
  <2> HIDE DEF Good
  <2> QED BY <1>2, <1>3, AllNaturals
<1>6. t \in PathsOver(g, n)
  BY <1>0, <1>1, <1>4, FinHas
<1> QED BY <1>4, <1>5, <1>6

\* The paths of a single hop.
LEMMA SinglePaths ==
  ASSUME NEW g, GraphIs(g), NEW n, NEW rel, OneDirection(rel), rel.max = 1
  PROVE  Paths(g, n, rel) = {<< <<e>>, Opposite(e, n)>> : e \in {f \in g.edges : EdgeFrom(f, n, rel)}}
<1>1. PICK P : OfLength(g, n, rel, P) /\ Paths(g, n, rel) = UNION {P[k] : k \in 1..1}
  BY PathsUnfold DEF OneDirection
<1>2. P[0] = {<< <<>>, n>>} /\ P[1] = LongerAll(g, rel, P[0])
  BY <1>1 DEF OfLength
<1>3. Paths(g, n, rel) = Longer(g, rel, << <<>>, n>>)
  BY <1>1, <1>2 DEF LongerAll
<1>4. \A f : f \notin ToSet(<<>>)
  BY DEF ToSet
<1>5. \A e \in g.edges : Append(<<>>, e) = <<e>>
  OBVIOUS
<1> QED BY <1>3, <1>4, <1>5 DEF Longer

(***************************************************************************)
(* Matches of the two ways that go together: they bind alike and have      *)
(* reached the same node, and where every match counts, one of the one way *)
(* goes with one of the other.                                             *)
(***************************************************************************)
End(w) == IF w.edges = <<>> THEN w.from ELSE Opposite(w.edges[1], w.from)
EndsOf(c) == [j \in 1..Len(c[3]) |-> End(c[3][j])]
Twin(c) == <<c[1], c[2], EndsOf(c)>>

Pairs(K) == {<<m[1], m[2]>> : m \in K}
Twins(K, L) == K = {Twin(c) : c \in L} /\ \A c, d \in L : EndsOf(c) = EndsOf(d) => c = d

\* Each match extended by some nodes, and by some nodes each with the way there.
Spread(g, np, K, N) == UNION {UNION {Reaches(g, np, m, n, n) : n \in N[m]} : m \in K}
SpreadOver(g, np, L, W) == UNION {UNION {Meets(g, np, c, w[1], w[2]) : w \in W[c]} : c \in L}

\* A match extended by a node, reached by a way.
Becomes(k, m, var, n, way) == k = <<Bind(m[1], var, n), n, Append(m[3], way)>>
Fit(g, np, b, n) == Fits(g, np, n) /\ Binds(b, np.var, n)
\* What a match of the one way is extended by, it is in the other.
SameNodes(g, np, K, L, N, W) ==
  \A m \in K : \A c \in L : m[1] = c[1] /\ m[2] = c[2] =>
    \A n : (n \in N[m] /\ Fit(g, np, m[1], n)) <=> (Fit(g, np, m[1], n) /\ \E w \in W[c] : w[1] = n)

LEMMA SpreadHas ==
  ASSUME NEW g, NEW np, NEW K, NEW N, NEW m \in K, NEW n \in N[m], Fit(g, np, m[1], n)
  PROVE  \E k \in Spread(g, np, K, N) : Becomes(k, m, np.var, n, n)
<1>1. <<Bind(m[1], np.var, n), n, Append(m[3], n)>> \in Reaches(g, np, m, n, n)
  BY DEF Reaches, Fit
<1> QED BY <1>1 DEF Spread, Becomes

LEMMA SpreadFrom ==
  ASSUME NEW g, NEW np, NEW K, NEW N, NEW k \in Spread(g, np, K, N)
  PROVE  \E m \in K : \E n \in N[m] : Fit(g, np, m[1], n) /\ Becomes(k, m, np.var, n, n)
<1>1. PICK m \in K : \E n \in N[m] : k \in Reaches(g, np, m, n, n)
  BY DEF Spread
<1>2. PICK n \in N[m] : k \in Reaches(g, np, m, n, n)
  BY <1>1
<1>3. Fit(g, np, m[1], n) /\ Becomes(k, m, np.var, n, n)
  BY <1>2 DEF Reaches, Fit, Becomes
<1> QED BY <1>3

LEMMA SpreadOverHas ==
  ASSUME NEW g, NEW np, NEW L, NEW W, NEW c \in L, NEW w \in W[c], Fit(g, np, c[1], w[1]), np.val # Null
  PROVE  \E k \in SpreadOver(g, np, L, W) : Becomes(k, c, np.var, w[1], w[2])
<1>1. <<Bind(c[1], np.var, w[1]), w[1], Append(c[3], w[2])>> \in Meets(g, np, c, w[1], w[2])
  BY DEF Meets, Reaches, Fit
<1> QED BY <1>1 DEF SpreadOver, Becomes

LEMMA SpreadOverFrom ==
  ASSUME NEW g, NEW np, NEW L, NEW W, NEW k \in SpreadOver(g, np, L, W)
  PROVE  \E c \in L : \E w \in W[c] : Fit(g, np, c[1], w[1]) /\ Becomes(k, c, np.var, w[1], w[2])
<1>1. PICK c \in L : \E w \in W[c] : k \in Meets(g, np, c, w[1], w[2])
  BY DEF SpreadOver
<1>2. PICK w \in W[c] : k \in Meets(g, np, c, w[1], w[2])
  BY <1>1
<1>3. Fit(g, np, c[1], w[1]) /\ Becomes(k, c, np.var, w[1], w[2])
  BY <1>2 DEF Meets, Reaches, Fit, Becomes
<1> QED BY <1>3

LEMMA PairHas ==
  ASSUME NEW K, NEW L, Pairs(K) = Pairs(L), NEW m \in K
  PROVE  \E c \in L : m[1] = c[1] /\ m[2] = c[2]
<1>1. <<m[1], m[2]>> \in Pairs(L)
  BY DEF Pairs
<1> QED BY <1>1 DEF Pairs

LEMMA SpreadPairs ==
  ASSUME NEW g, NEW np, np.val # Null, NEW K, NEW L, NEW N, NEW W, SameNodes(g, np, K, L, N, W), Pairs(K) = Pairs(L)
  PROVE  Pairs(Spread(g, np, K, N)) = Pairs(SpreadOver(g, np, L, W))
<1> DEFINE A == Spread(g, np, K, N)
           B == SpreadOver(g, np, L, W)
<1>1. ASSUME NEW k \in A PROVE \E e \in B : k[1] = e[1] /\ k[2] = e[2]
  <2>1. PICK m \in K : \E n \in N[m] : Fit(g, np, m[1], n) /\ Becomes(k, m, np.var, n, n)
    BY SpreadFrom
  <2>2. PICK n \in N[m] : Fit(g, np, m[1], n) /\ Becomes(k, m, np.var, n, n)
    BY <2>1
  <2>3. PICK c \in L : m[1] = c[1] /\ m[2] = c[2]
    BY PairHas
  <2>4. PICK w \in W[c] : w[1] = n
    BY <2>2, <2>3 DEF SameNodes
  <2>5. PICK e \in B : Becomes(e, c, np.var, w[1], w[2])
    BY <2>2, <2>3, <2>4, SpreadOverHas
  <2>6. k[1] = e[1] /\ k[2] = e[2]
    BY <2>2, <2>3, <2>4, <2>5 DEF Becomes
  <2> QED BY <2>5, <2>6
<1>2. ASSUME NEW e \in B PROVE \E k \in A : k[1] = e[1] /\ k[2] = e[2]
  <2>1. PICK c \in L : \E w \in W[c] : Fit(g, np, c[1], w[1]) /\ Becomes(e, c, np.var, w[1], w[2])
    BY SpreadOverFrom
  <2>2. PICK w \in W[c] : Fit(g, np, c[1], w[1]) /\ Becomes(e, c, np.var, w[1], w[2])
    BY <2>1
  <2>3. PICK m \in K : c[1] = m[1] /\ c[2] = m[2]
    BY PairHas
  <2>4. w[1] \in N[m]
    BY <2>2, <2>3 DEF SameNodes
  <2>5. PICK k \in A : Becomes(k, m, np.var, w[1], w[1])
    BY <2>2, <2>3, <2>4, SpreadHas
  <2>6. k[1] = e[1] /\ k[2] = e[2]
    BY <2>2, <2>3, <2>5 DEF Becomes
  <2> QED BY <2>5, <2>6
<1> HIDE DEF A, B
<1>3. \A p : p \in Pairs(A) <=> p \in Pairs(B)
  BY <1>1, <1>2 DEF Pairs
<1> QED BY <1>3 DEF A, B

\* One way more has one end more.
LEMMA EndsGrow ==
  ASSUME NEW A, NEW E, \A v \in A : End(v) \in E, NEW c, c[3] \in Seq(A), NEW w \in A, NEW d, d[3] = Append(c[3], w)
  PROVE  EndsOf(d) = Append(EndsOf(c), End(w)) /\ EndsOf(c) \in Seq(E)
<1> DEFINE s == c[3]
           t == Append(s, w)
           u == [j \in 1..Len(s) |-> End(s[j])]
           v == [j \in 1..(Len(s) + 1) |-> End(t[j])]
<1>1. /\ t \in Seq(A) /\ Len(t) = Len(s) + 1 /\ Len(s) \in Nat /\ \A i \in 1..Len(s) : t[i] = s[i]
      /\ t[Len(s) + 1] = w /\ \A i \in 1..Len(s) : s[i] \in A
  BY AppendIs
<1>a. d[3] = t
  OBVIOUS
<1> HIDE DEF t
<1>2. EndsOf(c) = u /\ EndsOf(d) = v
  BY <1>1, <1>a DEF EndsOf
<1>3. u \in Seq(E) /\ Len(u) = Len(s) /\ End(w) \in E /\ \A j \in 1..Len(s) : u[j] = End(s[j])
  BY <1>1
<1> HIDE DEF u, s
<1>4. Append(u, End(w)) = v
  <2> DEFINE a == Append(u, End(w))
  <2>1. /\ a \in Seq(E) /\ Len(a) = Len(u) + 1 /\ \A i \in 1..Len(u) : a[i] = u[i]
        /\ a[Len(u) + 1] = End(w)
    BY <1>3, AppendIs
  <2> HIDE DEF a
  <2>2. a = [j \in 1..(Len(s) + 1) |-> a[j]]
    BY <1>1, <1>3, <2>1
  <2>3. ASSUME NEW j \in 1..(Len(s) + 1) PROVE a[j] = End(t[j])
    <3>1. CASE j = Len(s) + 1
      BY <1>1, <1>3, <2>1, <3>1
    <3>2. CASE j \in 1..Len(s)
      BY <1>1, <1>3, <2>1, <3>2
    <3> QED BY <1>1, <3>1, <3>2
  <2>4. a = v
    BY <2>2, <2>3
  <2> QED BY <2>4 DEF a
<1> QED BY <1>2, <1>3, <1>4

LEMMA AppendApart ==
  ASSUME NEW A, NEW s \in Seq(A), NEW t \in Seq(A), NEW x \in A, NEW y \in A, Append(s, x) = Append(t, y)
  PROVE  s = t /\ x = y
<1> DEFINE u == Append(s, x)
           v == Append(t, y)
<1>1. /\ Len(u) = Len(s) + 1 /\ Len(s) \in Nat /\ \A i \in 1..Len(s) : u[i] = s[i]
      /\ u[Len(s) + 1] = x
  BY AppendIs
<1>2. /\ Len(v) = Len(t) + 1 /\ Len(t) \in Nat /\ \A i \in 1..Len(t) : v[i] = t[i]
      /\ v[Len(t) + 1] = y
  BY AppendIs
<1>3. u = v
  OBVIOUS
<1> HIDE DEF u, v
<1>4. Len(s) = Len(t) /\ x = y /\ \A i \in 1..Len(s) : s[i] = t[i]
  BY <1>1, <1>2, <1>3
<1>5. s = [i \in 1..Len(s) |-> s[i]] /\ t = [i \in 1..Len(t) |-> t[i]]
  OBVIOUS
<1> QED BY <1>4, <1>5

LEMMA SpreadTwins ==
  ASSUME NEW g, NEW np, np.val # Null, NEW K, NEW L, NEW N, NEW W, SameNodes(g, np, K, L, N, W), Twins(K, L),
         NEW A, \A c \in L : c[3] \in Seq(A),
         \A c \in L : \A w \in W[c] : w[2] \in A /\ End(w[2]) = w[1],
         \A c \in L : \A w, v \in W[c] : w[1] = v[1] => w = v
  PROVE  Twins(Spread(g, np, K, N), SpreadOver(g, np, L, W))
<1> DEFINE S == Spread(g, np, K, N)
           T == SpreadOver(g, np, L, W)
           E == {End(v) : v \in A}
<1>1. ASSUME NEW c \in L, NEW w \in W[c], NEW e, Becomes(e, c, np.var, w[1], w[2])
      PROVE  /\ EndsOf(e) = Append(EndsOf(c), w[1]) /\ EndsOf(c) \in Seq(E) /\ w[1] \in E
             /\ Twin(e) = <<Bind(c[1], np.var, w[1]), w[1], Append(EndsOf(c), w[1])>>
  <2>1. c[3] \in Seq(A) /\ w[2] \in A /\ End(w[2]) = w[1]
    OBVIOUS
  <2>2. e = <<Bind(c[1], np.var, w[1]), w[1], Append(c[3], w[2])>>
    BY <1>1 DEF Becomes
  <2>3. EndsOf(e) = Append(EndsOf(c), End(w[2])) /\ EndsOf(c) \in Seq(E)
    <3>1. \A v \in A : End(v) \in E
      OBVIOUS
    <3>2. e[3] = Append(c[3], w[2])
      BY <2>2
    <3> HIDE DEF E
    <3> QED BY <2>1, <3>1, <3>2, EndsGrow
  <2>4. End(w[2]) \in E
    BY <2>1
  <2> QED BY <2>1, <2>2, <2>3, <2>4 DEF Twin
<1>2. ASSUME NEW c \in L, NEW m, m = Twin(c)
      PROVE  m[1] = c[1] /\ m[2] = c[2] /\ m[3] = EndsOf(c)
  BY <1>2 DEF Twin
<1>3. K = {Twin(c) : c \in L} /\ \A c, d \in L : EndsOf(c) = EndsOf(d) => c = d
  BY DEF Twins
<1>4. ASSUME NEW e \in T PROVE Twin(e) \in S
  <2>1. PICK c \in L : \E w \in W[c] : Fit(g, np, c[1], w[1]) /\ Becomes(e, c, np.var, w[1], w[2])
    BY SpreadOverFrom
  <2>2. PICK w \in W[c] : Fit(g, np, c[1], w[1]) /\ Becomes(e, c, np.var, w[1], w[2])
    BY <2>1
  <2> DEFINE m == Twin(c)
  <2>3. m \in K
    BY <1>3
  <2>4. m[1] = c[1] /\ m[2] = c[2] /\ m[3] = EndsOf(c)
    BY <1>2
  <2> HIDE DEF m
  <2>5. w[1] \in N[m]
    BY <2>2, <2>3, <2>4 DEF SameNodes
  <2>6. PICK k \in S : Becomes(k, m, np.var, w[1], w[1])
    BY <2>2, <2>3, <2>4, <2>5, SpreadHas
  <2>7. k = <<Bind(c[1], np.var, w[1]), w[1], Append(EndsOf(c), w[1])>>
    BY <2>4, <2>6 DEF Becomes
  <2>8. Twin(e) = <<Bind(c[1], np.var, w[1]), w[1], Append(EndsOf(c), w[1])>>
    BY <1>1, <2>2
  <2> QED BY <2>7, <2>8
<1>5. ASSUME NEW k \in S PROVE \E e \in T : k = Twin(e)
  <2>1. PICK m \in K : \E n \in N[m] : Fit(g, np, m[1], n) /\ Becomes(k, m, np.var, n, n)
    BY SpreadFrom
  <2>2. PICK n \in N[m] : Fit(g, np, m[1], n) /\ Becomes(k, m, np.var, n, n)
    BY <2>1
  <2>3. PICK c \in L : m = Twin(c)
    BY <1>3
  <2>4. m[1] = c[1] /\ m[2] = c[2] /\ m[3] = EndsOf(c)
    BY <1>2, <2>3
  <2>5. PICK w \in W[c] : w[1] = n
    BY <2>2, <2>4 DEF SameNodes
  <2>6. PICK e \in T : Becomes(e, c, np.var, w[1], w[2])
    BY <2>2, <2>4, <2>5, SpreadOverHas
  <2>7. Twin(e) = <<Bind(c[1], np.var, w[1]), w[1], Append(EndsOf(c), w[1])>>
    BY <1>1, <2>6
  <2>8. k = <<Bind(c[1], np.var, w[1]), w[1], Append(EndsOf(c), w[1])>>
    BY <2>2, <2>4, <2>5 DEF Becomes
  <2> QED BY <2>7, <2>8
<1>6. ASSUME NEW e \in T, NEW f \in T, EndsOf(e) = EndsOf(f) PROVE e = f
  <2>1. PICK c \in L : \E w \in W[c] : Fit(g, np, c[1], w[1]) /\ Becomes(e, c, np.var, w[1], w[2])
    BY SpreadOverFrom
  <2>2. PICK w \in W[c] : Becomes(e, c, np.var, w[1], w[2])
    BY <2>1
  <2>3. PICK d \in L : \E v \in W[d] : Fit(g, np, d[1], v[1]) /\ Becomes(f, d, np.var, v[1], v[2])
    BY SpreadOverFrom
  <2>4. PICK v \in W[d] : Becomes(f, d, np.var, v[1], v[2])
    BY <2>3
  <2>5. EndsOf(e) = Append(EndsOf(c), w[1]) /\ EndsOf(c) \in Seq(E) /\ w[1] \in E
    BY <1>1, <2>2
  <2>6. EndsOf(f) = Append(EndsOf(d), v[1]) /\ EndsOf(d) \in Seq(E) /\ v[1] \in E
    BY <1>1, <2>4
  <2> HIDE DEF E
  <2>7. EndsOf(c) = EndsOf(d) /\ w[1] = v[1]
    <3> DEFINE p == EndsOf(c)
               q == EndsOf(d)
               x == w[1]
               y == v[1]
    <3>1. p \in Seq(E) /\ q \in Seq(E) /\ x \in E /\ y \in E /\ Append(p, x) = Append(q, y)
      BY <1>6, <2>5, <2>6
    <3> HIDE DEF p, q, x, y
    <3>2. p = q /\ x = y
      BY <3>1, AppendApart
    <3> QED BY <3>2 DEF p, q, x, y
  <2>8. c = d
    BY <1>3, <2>7
  <2>9. w = v
    BY <2>7, <2>8
  <2> QED BY <2>2, <2>4, <2>8, <2>9 DEF Becomes
<1> HIDE DEF S, T
<1>7. S = {Twin(e) : e \in T}
  BY <1>4, <1>5
<1> QED BY <1>6, <1>7 DEF Twins, S, T

(***************************************************************************)
(* A stage of the two ways: so far they agree, these variables are bound    *)
(* and no edge of another kind than these has been used.                   *)
(***************************************************************************)
Stage(K, L, exact, named, kinds) ==
  /\ Pairs(K) = Pairs(L)
  /\ exact => Twins(K, L)
  /\ \A m \in K : named \subseteq DOMAIN m[1]
  /\ \A c \in L : \A e \in Used(c) : \E k \in kinds : Open(k, e.kind)

LEMMA BoundAfter ==
  ASSUME NEW g, NEW np, NEW K, NEW N, NEW named, \A m \in K : named \subseteq DOMAIN m[1],
         NEW k \in Spread(g, np, K, N)
  PROVE  named \union ({np.var} \ {None}) \subseteq DOMAIN k[1]
<1>1. PICK m \in K : \E n \in N[m] : Fit(g, np, m[1], n) /\ Becomes(k, m, np.var, n, n)
  BY SpreadFrom
<1>2. PICK n \in N[m] : Becomes(k, m, np.var, n, n)
  BY <1>1
<1>3. k[1] = Bind(m[1], np.var, n)
  BY <1>2 DEF Becomes
<1>4. DOMAIN m[1] \subseteq DOMAIN Bind(m[1], np.var, n) /\ (np.var # None => np.var \in DOMAIN Bind(m[1], np.var, n))
  BY DEF Bind
<1> QED BY <1>3, <1>4

LEMMA UsedAfter ==
  ASSUME NEW g, NEW np, NEW L, NEW W, NEW A, \A c \in L : c[3] \in Seq(A),
         \A c \in L : \A w \in W[c] : w[2] \in A,
         NEW d \in SpreadOver(g, np, L, W), NEW e \in Used(d)
  PROVE  \E c \in L : e \in Used(c) \/ \E w \in W[c] : e \in ToSet(w[2].edges)
<1>1. PICK c \in L : \E w \in W[c] : Fit(g, np, c[1], w[1]) /\ Becomes(d, c, np.var, w[1], w[2])
  BY SpreadOverFrom
<1>2. PICK w \in W[c] : Becomes(d, c, np.var, w[1], w[2])
  BY <1>1
<1> DEFINE s == c[3]
           t == Append(s, w[2])
<1>3. s \in Seq(A) /\ w[2] \in A /\ d[3] = t
  BY <1>2 DEF Becomes
<1> HIDE DEF s
<1>4. /\ Len(t) = Len(s) + 1 /\ Len(s) \in Nat /\ \A i \in 1..Len(s) : t[i] = s[i]
      /\ t[Len(s) + 1] = w[2]
  BY <1>3, AppendIs
<1> HIDE DEF t
<1>5. PICK i \in 1..Len(t) : e \in ToSet(t[i].edges)
  BY <1>3 DEF Used
<1>6. CASE i \in 1..Len(s)
  BY <1>4, <1>5, <1>6 DEF Used, s
<1>7. CASE i = Len(s) + 1
  BY <1>4, <1>5, <1>7
<1> QED BY <1>4, <1>6, <1>7

SpreadBinds(np, named) == named \union ({np.var} \ {None})

\* From stage to stage.
LEMMA NextStage ==
  ASSUME NEW g, NEW vs, NEW np, np.val # Null, NEW K, NEW L, L \subseteq MatchSet(g, vs), NEW N, NEW W,
         NEW exact, NEW named, NEW kinds, NEW more, kinds \subseteq more,
         Stage(K, L, exact, named, kinds), SameNodes(g, np, K, L, N, W),
         \A c \in L : \A w \in W[c] : w[2] \in Ways(g),
         \A c \in L : \A w \in W[c] : \A e \in ToSet(w[2].edges) : \E k \in more : Open(k, e.kind),
         exact => \A c \in L : /\ \A w \in W[c] : End(w[2]) = w[1]
                               /\ \A w, v \in W[c] : w[1] = v[1] => w = v
  PROVE  Stage(Spread(g, np, K, N), SpreadOver(g, np, L, W), exact, SpreadBinds(np, named), more)
<1> DEFINE A == Spread(g, np, K, N)
           B == SpreadOver(g, np, L, W)
<1>0. \A c \in L : c[3] \in Seq(Ways(g))
  BY DEF MatchSet
<1>1. Pairs(A) = Pairs(B)
  BY SpreadPairs DEF Stage
<1>2. ASSUME exact PROVE Twins(A, B)
  <2>1. Twins(K, L)
    BY <1>2 DEF Stage
  <2>2. \A c \in L : \A w \in W[c] : w[2] \in Ways(g) /\ End(w[2]) = w[1]
    BY <1>2
  <2>3. \A c \in L : \A w, v \in W[c] : w[1] = v[1] => w = v
    BY <1>2
  <2> QED BY <1>0, <2>1, <2>2, <2>3, SpreadTwins
<1>3. ASSUME NEW m \in A PROVE SpreadBinds(np, named) \subseteq DOMAIN m[1]
  BY BoundAfter DEF Stage, SpreadBinds
<1>4. ASSUME NEW d \in B, NEW e \in Used(d) PROVE \E k \in more : Open(k, e.kind)
  <2>1. PICK c \in L : e \in Used(c) \/ \E w \in W[c] : e \in ToSet(w[2].edges)
    BY <1>0, UsedAfter
  <2>2. CASE e \in Used(c)
    BY <2>2 DEF Stage
  <2>3. CASE \E w \in W[c] : e \in ToSet(w[2].edges)
    BY <2>3
  <2> QED BY <2>1, <2>2, <2>3
<1> QED BY <1>1, <1>2, <1>3, <1>4 DEF Stage

\* The first node of a pattern.
Begun(g, np, K, cap) == UNION {Starts(g, np, m, FirstNodes(g, np, m, cap)) : m \in K}

LEMMA StartStage ==
  ASSUME NEW g, GraphIs(g), NEW vs, NEW np, np.val # Null, NEW cap, cap \in Nat, Cardinality(Labelled(g, np)) <= cap,
         NEW K, K \subseteq MatchSet(g, vs), NEW L, L \subseteq MatchSet(g, vs),
         NEW exact, NEW named, NEW kinds, Stage(K, L, exact, named, kinds)
  PROVE  Stage(Begun(g, np, K, cap), AnywhereAll(g, np, L), exact, SpreadBinds(np, named), kinds)
<1> DEFINE N == [m \in K |-> FirstNodes(g, np, m, cap)]
           V == {<<n, Way(n, <<>>)>> : n \in Nodes(g)}
           W == [c \in L |-> V]
<1>1. \A m \in K : N[m] = FirstNodes(g, np, m, cap)
  OBVIOUS
<1>2. \A c \in L : W[c] = V
  OBVIOUS
<1>3. \A w \in V : \E n \in Nodes(g) : w = <<n, Way(n, <<>>)>>
  OBVIOUS
<1>4. \A n \in Nodes(g) : <<n, Way(n, <<>>)>> \in V
  OBVIOUS
<1> HIDE DEF N, V, W
<1>5. Begun(g, np, K, cap) = Spread(g, np, K, N)
  BY <1>1 DEF Begun, Starts, Spread
<1>6. AnywhereAll(g, np, L) = SpreadOver(g, np, L, W)
  <2>1. ASSUME NEW c \in L
        PROVE  Anywhere(g, np, c) = UNION {Meets(g, np, c, w[1], w[2]) : w \in W[c]}
    <3>1. ASSUME NEW k \in Anywhere(g, np, c) PROVE \E w \in W[c] : k \in Meets(g, np, c, w[1], w[2])
      <4>1. PICK n \in Nodes(g) : k \in Meets(g, np, c, n, Way(n, <<>>))
        BY DEF Anywhere
      <4> DEFINE w == <<n, Way(n, <<>>)>>
      <4>2. w \in W[c] /\ w[1] = n /\ w[2] = Way(n, <<>>)
        BY <1>2, <1>4
      <4> HIDE DEF w
      <4> QED BY <4>1, <4>2
    <3>2. ASSUME NEW w \in W[c], NEW k \in Meets(g, np, c, w[1], w[2]) PROVE k \in Anywhere(g, np, c)
      <4>1. PICK n \in Nodes(g) : w = <<n, Way(n, <<>>)>>
        BY <1>2, <1>3
      <4>2. w[1] = n /\ w[2] = Way(n, <<>>)
        BY <4>1
      <4> QED BY <4>2 DEF Anywhere
    <3> QED BY <3>1, <3>2
  <2> QED BY <2>1 DEF AnywhereAll, SpreadOver
<1>7. SameNodes(g, np, K, L, N, W)
  <2> SUFFICES ASSUME NEW m \in K, NEW c \in L, m[1] = c[1], NEW n, Fit(g, np, m[1], n)
               PROVE  n \in N[m] <=> \E w \in W[c] : w[1] = n
    BY DEF SameNodes
  <2>1. m[1] \in Bound(g, vs)
    BY DEF MatchSet
  <2>2. PICK D \in SUBSET vs : m[1] \in [D -> Nodes(g)]
    BY <2>1 DEF Bound
  <2>a. ASSUME NEW w \in W[c], w[1] = n PROVE n \in Nodes(g)
    <3>1. PICK o \in Nodes(g) : w = <<o, Way(o, <<>>)>>
      BY <1>2, <1>3
    <3> QED BY <2>a, <3>1
  <2>b. ASSUME n \in Nodes(g) PROVE \E w \in W[c] : w[1] = n
    <3> DEFINE w == <<n, Way(n, <<>>)>>
    <3>1. w \in W[c] /\ w[1] = n
      BY <1>2, <1>4, <2>b
    <3> HIDE DEF w
    <3> QED BY <3>1
  <2>3. (\E w \in W[c] : w[1] = n) <=> n \in Nodes(g)
    BY <2>a, <2>b
  <2>4. n \in N[m] <=> n \in Nodes(g)
    <3>1. CASE np.var \in DOMAIN m[1]
      <4>1. N[m] = {m[1][np.var]} /\ m[1][np.var] = n
        BY <1>1, <3>1 DEF FirstNodes, Fit, Binds
      <4>2. m[1][np.var] \in Nodes(g)
        BY <2>2, <3>1
      <4> QED BY <4>1, <4>2
    <3>2. CASE np.var \notin DOMAIN m[1]
      <4>1. N[m] = Labelled(g, np)
        BY <1>1, <3>2, CandidatesAre DEF FirstNodes
      <4> QED BY <4>1 DEF Labelled, Fit, Fits
    <3> QED BY <3>1, <3>2
  <2> QED BY <2>3, <2>4
<1>8. ASSUME NEW c \in L, NEW w \in W[c]
      PROVE  w[2] \in Ways(g) /\ ToSet(w[2].edges) = {} /\ End(w[2]) = w[1]
  <2>1. PICK n \in Nodes(g) : w = <<n, Way(n, <<>>)>>
    BY <1>2, <1>3
  <2>2. w[1] = n /\ w[2] = Way(n, <<>>)
    BY <2>1
  <2>3. Way(n, <<>>).edges = <<>> /\ Way(n, <<>>).from = n /\ Way(n, <<>>) \in Ways(g)
    BY DEF Way, Ways
  <2>4. ToSet(<<>>) = {}
    BY DEF ToSet
  <2> QED BY <2>2, <2>3, <2>4 DEF End
<1>9. ASSUME NEW c \in L, NEW w \in W[c], NEW v \in W[c], w[1] = v[1] PROVE w = v
  <2>1. PICK n \in Nodes(g) : w = <<n, Way(n, <<>>)>>
    BY <1>2, <1>3
  <2>2. PICK o \in Nodes(g) : v = <<o, Way(o, <<>>)>>
    BY <1>2, <1>3
  <2> QED BY <1>9, <2>1, <2>2
<1>10. Stage(Spread(g, np, K, N), SpreadOver(g, np, L, W), exact, SpreadBinds(np, named), kinds)
  <2>1. \A c \in L : \A w \in W[c] : w[2] \in Ways(g)
    BY <1>8
  <2>2. \A c \in L : \A w \in W[c] : \A e \in ToSet(w[2].edges) : \E k \in kinds : Open(k, e.kind)
    BY <1>8
  <2>3. exact => \A c \in L : /\ \A w \in W[c] : End(w[2]) = w[1]
                              /\ \A w, v \in W[c] : w[1] = v[1] => w = v
    BY <1>8, <1>9
  <2> QED BY <1>7, <2>1, <2>2, <2>3, NextStage
<1> QED BY <1>5, <1>6, <1>10

\* Parallel edges differ in their kind.
Simple(g) == \A e, f \in g.edges : <<e.src, e.dst, e.kind>> = <<f.src, f.dst, f.kind>> => e = f
\* A rel that no match of these kinds has taken an edge of.
Apart(rel, kinds) == \A k \in kinds : None \notin {k, rel.kind} /\ k # rel.kind

LEMMA AllPathsOn ==
  ASSUME NEW g, GraphIs(g), NEW rel, OneDirection(rel), NEW c, NEW kinds, g.once => Apart(rel, kinds),
         \A e \in Used(c) : \E k \in kinds : Open(k, e.kind)
  PROVE  PathsOn(g, c, rel) = Paths(g, c[2], rel)
<1>1. ASSUME NEW t \in Paths(g, c[2], rel), g.once PROVE Used(c) \intersect ToSet(t[1]) = {}
  <2>1. SUFFICES ASSUME NEW e \in Used(c), e \in ToSet(t[1]) PROVE FALSE
    OBVIOUS
  <2>2. Open(rel.kind, e.kind)
    BY <2>1, PathKinds
  <2>3. PICK k \in kinds : Open(k, e.kind)
    BY <2>1
  <2>4. k # None /\ rel.kind # None /\ k # rel.kind
    BY <1>1, <2>3 DEF Apart
  <2> QED BY <2>2, <2>3, <2>4 DEF Open
<1> QED BY <1>1 DEF PathsOn

\* A rel and the node it leads to.
Exact(g, rel) == rel.max = 1 /\ rel.kind # None /\ Simple(g)

LEMMA HopStage ==
  ASSUME NEW g, GraphIs(g), NEW vs, NEW np, np.val # Null, NEW rel, OneDirection(rel),
         NEW K, K \subseteq MatchSet(g, vs), NEW L, L \subseteq Reached(g, vs),
         NEW exact, exact => Exact(g, rel), NEW named, NEW kinds, g.once => Apart(rel, kinds),
         Stage(K, L, exact, named, kinds)
  PROVE  Stage(UNION {Onward(g, np, rel, m) : m \in K}, UNION {Along(g, np, rel, c) : c \in L}, exact,
               SpreadBinds(np, named), kinds \union {rel.kind})
<1> DEFINE N == [m \in K |-> Reachable(g, m[2], rel)]
           V(c) == {<<t[2], Way(c[2], t[1])>> : t \in Paths(g, c[2], rel)}
           W == [c \in L |-> V(c)]
           A == UNION {Onward(g, np, rel, m) : m \in K}
           B == UNION {Along(g, np, rel, c) : c \in L}
           more == kinds \union {rel.kind}
<1>1. \A m \in K : N[m] = Reachable(g, m[2], rel)
  OBVIOUS
<1>2. \A c \in L : W[c] = V(c)
  OBVIOUS
<1>3. ASSUME NEW c \in L, NEW w \in W[c] PROVE \E t \in Paths(g, c[2], rel) : w = <<t[2], Way(c[2], t[1])>>
  OBVIOUS
<1>4. \A c \in L : \A t \in Paths(g, c[2], rel) : <<t[2], Way(c[2], t[1])>> \in W[c]
  OBVIOUS
<1> HIDE DEF N, V, W
<1>5. A = Spread(g, np, K, N)
  BY <1>1 DEF Onward, Spread
<1>6. B = SpreadOver(g, np, L, W)
  <2>1. ASSUME NEW c \in L
        PROVE  Along(g, np, rel, c) = UNION {Meets(g, np, c, w[1], w[2]) : w \in W[c]}
    <3>0. PathsOn(g, c, rel) = Paths(g, c[2], rel)
      BY AllPathsOn DEF Stage
    <3>1. ASSUME NEW k \in Along(g, np, rel, c) PROVE \E w \in W[c] : k \in Meets(g, np, c, w[1], w[2])
      <4>1. PICK t \in Paths(g, c[2], rel) : k \in Meets(g, np, c, t[2], Way(c[2], t[1]))
        BY <3>0 DEF Along
      <4> DEFINE w == <<t[2], Way(c[2], t[1])>>
      <4>2. w \in W[c] /\ w[1] = t[2] /\ w[2] = Way(c[2], t[1])
        BY <1>4
      <4> HIDE DEF w
      <4> QED BY <4>1, <4>2
    <3>2. ASSUME NEW w \in W[c], NEW k \in Meets(g, np, c, w[1], w[2]) PROVE k \in Along(g, np, rel, c)
      <4>1. PICK t \in Paths(g, c[2], rel) : w = <<t[2], Way(c[2], t[1])>>
        BY <1>3
      <4>2. w[1] = t[2] /\ w[2] = Way(c[2], t[1])
        BY <4>1
      <4> QED BY <3>0, <4>2 DEF Along
    <3> QED BY <3>1, <3>2
  <2> QED BY <2>1 DEF SpreadOver
<1>7. SameNodes(g, np, K, L, N, W)
  <2> SUFFICES ASSUME NEW m \in K, NEW c \in L, m[2] = c[2], NEW n
               PROVE  n \in N[m] <=> \E w \in W[c] : w[1] = n
    BY DEF SameNodes
  <2>1. N[m] = {t[2] : t \in Paths(g, c[2], rel)}
    BY <1>1, ClosureIsPaths
  <2>2. ASSUME NEW w \in W[c], w[1] = n PROVE n \in N[m]
    <3>1. PICK t \in Paths(g, c[2], rel) : w = <<t[2], Way(c[2], t[1])>>
      BY <1>3
    <3> QED BY <2>1, <2>2, <3>1
  <2>3. ASSUME n \in N[m] PROVE \E w \in W[c] : w[1] = n
    <3>1. PICK t \in Paths(g, c[2], rel) : t[2] = n
      BY <2>1, <2>3
    <3> DEFINE w == <<t[2], Way(c[2], t[1])>>
    <3>2. w \in W[c] /\ w[1] = n
      BY <1>4, <3>1
    <3> HIDE DEF w
    <3> QED BY <3>2
  <2> QED BY <2>2, <2>3
<1>8. ASSUME NEW c \in L, NEW w \in W[c]
      PROVE  w[2] \in Ways(g) /\ \A e \in ToSet(w[2].edges) : \E k \in more : Open(k, e.kind)
  <2>1. PICK t \in Paths(g, c[2], rel) : w = <<t[2], Way(c[2], t[1])>>
    BY <1>3
  <2>2. t \in PathsOver(g, c[2]) /\ \A e \in ToSet(t[1]) : Open(rel.kind, e.kind)
    BY PathKinds
  <2>3. w[2] = Way(c[2], t[1])
    BY <2>1
  <2>4. w[2].edges = t[1] /\ w[2] \in Ways(g)
    BY <2>2, <2>3 DEF Way, Ways, PathsOver, Reached
  <2> QED BY <2>2, <2>4
<1>9. ASSUME exact, NEW c \in L, NEW w \in W[c]
      PROVE  \E e \in g.edges : EdgeFrom(e, c[2], rel) /\ w = <<Opposite(e, c[2]), Way(c[2], <<e>>)>>
  <2>1. PICK t \in Paths(g, c[2], rel) : w = <<t[2], Way(c[2], t[1])>>
    BY <1>3
  <2>2. Paths(g, c[2], rel) = {<< <<e>>, Opposite(e, c[2])>> : e \in {f \in g.edges : EdgeFrom(f, c[2], rel)}}
    BY <1>9, SinglePaths DEF Exact
  <2>3. PICK e \in g.edges : EdgeFrom(e, c[2], rel) /\ t = << <<e>>, Opposite(e, c[2])>>
    BY <2>2
  <2>4. t[1] = <<e>> /\ t[2] = Opposite(e, c[2])
    BY <2>3
  <2> QED BY <2>1, <2>3, <2>4
<1>10. ASSUME exact, NEW c \in L
       PROVE  /\ \A w \in W[c] : End(w[2]) = w[1]
              /\ \A w, v \in W[c] : w[1] = v[1] => w = v
  <2>1. ASSUME NEW w \in W[c] PROVE End(w[2]) = w[1]
    <3>1. PICK e \in g.edges : w = <<Opposite(e, c[2]), Way(c[2], <<e>>)>>
      BY <1>9, <1>10
    <3> DEFINE y == Way(c[2], <<e>>)
    <3>2. y.edges = <<e>> /\ y.from = c[2]
      BY DEF Way
    <3>3. w[1] = Opposite(e, c[2]) /\ w[2] = y
      BY <3>1
    <3>4. <<e>> # <<>> /\ <<e>>[1] = e
      OBVIOUS
    <3> HIDE DEF y
    <3> QED BY <3>2, <3>3, <3>4 DEF End
  <2>2. ASSUME NEW w \in W[c], NEW v \in W[c], w[1] = v[1] PROVE w = v
    <3>1. PICK e \in g.edges : EdgeFrom(e, c[2], rel) /\ w = <<Opposite(e, c[2]), Way(c[2], <<e>>)>>
      BY <1>9, <1>10
    <3>2. PICK f \in g.edges : EdgeFrom(f, c[2], rel) /\ v = <<Opposite(f, c[2]), Way(c[2], <<f>>)>>
      BY <1>9, <1>10
    <3>3. Opposite(e, c[2]) = Opposite(f, c[2])
      BY <2>2, <3>1, <3>2
    <3>4. Origin(rel, e) = c[2] /\ Origin(rel, f) = c[2] /\ Open(rel.kind, e.kind) /\ Open(rel.kind, f.kind)
      BY <3>1, <3>2, HopIs
    <3>5. e.src = f.src /\ e.dst = f.dst
      BY <3>3, <3>4 DEF Origin, Opposite, OneDirection
    <3>6. e.kind = f.kind
      BY <1>10, <3>4 DEF Exact, Open
    <3>7. e = f
      BY <1>10, <3>5, <3>6 DEF Exact, Simple
    <3> QED BY <3>1, <3>2, <3>7
  <2> QED BY <2>1, <2>2
<1>11. Stage(Spread(g, np, K, N), SpreadOver(g, np, L, W), exact, SpreadBinds(np, named), more)
  <2>1. \A c \in L : \A w \in W[c] : w[2] \in Ways(g)
    BY <1>8
  <2>2. \A c \in L : \A w \in W[c] : \A e \in ToSet(w[2].edges) : \E k \in more : Open(k, e.kind)
    BY <1>8
  <2>3. exact => \A c \in L : /\ \A w \in W[c] : End(w[2]) = w[1]
                              /\ \A w, v \in W[c] : w[1] = v[1] => w = v
    BY <1>10
  <2>4. L \subseteq MatchSet(g, vs) /\ kinds \subseteq more
    BY DEF Reached
  <2> HIDE DEF more
  <2> QED BY <1>7, <2>1, <2>2, <2>3, <2>4, NextStage
<1> QED BY <1>5, <1>6, <1>11

(***************************************************************************)
(* A whole pattern, and a whole query.                                     *)
(***************************************************************************)
\* Pattern by pattern and binding by binding, or all bindings together: the same.
ExtendsAll(g, p, K, cap, h) ==
  /\ h[0] = Begun(g, p.nodes[1], K, cap)
  /\ \A i \in 1..Len(p.rels) : h[i] = StepsOver(g, p, i, h[i - 1])

LEMMA ExtendAllUnfolds ==
  ASSUME NEW g, GraphIs(g), NEW vs, NEW p, PatternIs(p, vs), NEW K, K \subseteq MatchSet(g, vs), NEW cap, cap \in Nat
  PROVE  \E h : /\ ExtendsAll(g, p, K, cap, h) /\ ExtendAll(g, p, cap, K) = h[Len(p.rels)]
                /\ \A i \in 0..Len(p.rels) : h[i] \subseteq MatchSet(g, vs)
<1> DEFINE N == Len(p.rels)
           Is(m, h) == /\ Extends(g, p, m, cap, h) /\ ExtendPattern(g, p, m, cap) = h[N]
                       /\ \A i \in 0..N : h[i] \in Fin(MatchSet(g, vs))
           of == [m \in K |-> CHOOSE h : Is(m, h)]
           all == [i \in 0..N |-> UNION {of[m][i] : m \in K}]
<1>0. N \in Nat /\ 0 \in 0..N /\ N \in 0..N
  BY DEF PatternIs
<1>1. ASSUME NEW m \in K PROVE Is(m, of[m])
  <2>1. \E h : Is(m, h)
    BY ExtendUnfolds
  <2>2. of[m] = CHOOSE h : Is(m, h)
    OBVIOUS
  <2> HIDE DEF of, Is
  <2> QED BY <2>1, <2>2
<1>2. \A i \in 0..N : all[i] = UNION {of[m][i] : m \in K}
  OBVIOUS
<1> HIDE DEF of, all, N
<1>3. all[0] = Begun(g, p.nodes[1], K, cap)
  <2>1. all[0] = UNION {of[m][0] : m \in K}
    BY <1>0, <1>2
  <2>2. \A m \in K : of[m][0] = Starts(g, p.nodes[1], m, FirstNodes(g, p.nodes[1], m, cap))
    BY <1>1 DEF Extends
  <2> QED BY <2>1, <2>2 DEF Begun
<1>4. ASSUME NEW i \in 1..N PROVE all[i] = StepsOver(g, p, i, all[i - 1])
  <2>0. i \in 0..N /\ i - 1 \in 0..N
    BY <1>0
  <2>1. all[i] = UNION {of[m][i] : m \in K} /\ all[i - 1] = UNION {of[m][i - 1] : m \in K}
    BY <1>2, <2>0
  <2>2. \A m \in K : of[m][i] = StepsOver(g, p, i, of[m][i - 1])
    BY <1>1 DEF Extends, N
  <2>3. ASSUME NEW k \in all[i] PROVE k \in StepsOver(g, p, i, all[i - 1])
    <3>1. PICK m \in K : k \in StepsOver(g, p, i, of[m][i - 1])
      BY <2>1, <2>2
    <3>2. of[m][i - 1] \subseteq all[i - 1]
      BY <2>1
    <3> QED BY <3>1, <3>2 DEF StepsOver
  <2>4. ASSUME NEW k \in StepsOver(g, p, i, all[i - 1]) PROVE k \in all[i]
    <3>1. PICK l \in all[i - 1] : k \in Onward(g, p.nodes[i + 1], p.rels[i], l)
      BY DEF StepsOver
    <3>2. PICK m \in K : l \in of[m][i - 1]
      BY <2>1
    <3>3. k \in StepsOver(g, p, i, of[m][i - 1])
      BY <3>1, <3>2 DEF StepsOver
    <3>4. k \in of[m][i]
      BY <2>2, <3>3
    <3> QED BY <2>1, <3>4
  <2> QED BY <2>3, <2>4
<1>5. ExtendAll(g, p, cap, K) = all[N]
  <2>1. all[N] = UNION {of[m][N] : m \in K}
    BY <1>0, <1>2
  <2>2. \A m \in K : of[m][N] = ExtendPattern(g, p, m, cap)
    BY <1>1
  <2> QED BY <2>1, <2>2 DEF ExtendAll
<1>6. ASSUME NEW i \in 0..N PROVE all[i] \subseteq MatchSet(g, vs)
  <2>1. \A m \in K : of[m][i] \in Fin(MatchSet(g, vs))
    BY <1>1
  <2>2. \A m \in K : of[m][i] \subseteq MatchSet(g, vs)
    BY <2>1, FinHas
  <2> QED BY <1>2, <2>2
<1>7. ExtendsAll(g, p, K, cap, all)
  BY <1>3, <1>4 DEF ExtendsAll, N
<1> QED BY <1>5, <1>6, <1>7 DEF N

BoundBy(p, j) == {p.nodes[i].var : i \in 1..j} \ {None}
KindsOf(p, j) == {p.rels[i].kind : i \in 1..j}

\* A pattern over which the two ways agree.
PortablePattern(g, p, exact) ==
  /\ \A i \in 1..(Len(p.rels) + 1) : p.nodes[i].val # Null
  /\ \A i \in 1..Len(p.rels) : OneDirection(p.rels[i]) /\ (exact => Exact(g, p.rels[i]))

LEMMA PatternStage ==
  ASSUME NEW g, GraphIs(g), NEW vs, NEW p, PatternIs(p, vs), NEW cap, cap \in Nat,
         Cardinality(Labelled(g, p.nodes[1])) <= cap, NEW exact, PortablePattern(g, p, exact),
         NEW K, K \subseteq MatchSet(g, vs), NEW L, L \in Fin(MatchSet(g, vs)), NEW named, NEW kinds,
         Stage(K, L, exact, named, kinds),
         g.once => \A i \in 1..Len(p.rels) : Apart(p.rels[i], kinds \union KindsOf(p, i - 1))
  PROVE  Stage(ExtendAll(g, p, cap, K), MatchesFrom(g, p, L), exact,
               named \union BoundBy(p, Len(p.rels) + 1), kinds \union KindsOf(p, Len(p.rels)))
<1> DEFINE N == Len(p.rels)
<1>0. N \in Nat
  BY DEF PatternIs
<1>1. PICK h : /\ ExtendsAll(g, p, K, cap, h) /\ ExtendAll(g, p, cap, K) = h[N]
               /\ \A i \in 0..N : h[i] \subseteq MatchSet(g, vs)
  BY ExtendAllUnfolds
<1>2. PICK f : /\ Follows(g, p, L, f) /\ MatchesFrom(g, p, L) = f[N]
               /\ \A i \in 0..N : f[i] \in Fin(Reached(g, vs))
  BY FollowUnfolds
<1> DEFINE At(i) == Stage(h[i], f[i], exact, named \union BoundBy(p, i + 1), kinds \union KindsOf(p, i))
           Good == {i \in Nat : i <= N => At(i)}
<1> HIDE DEF N
<1>3. 0 \in Good
  <2>1. h[0] = Begun(g, p.nodes[1], K, cap) /\ f[0] = AnywhereAll(g, p.nodes[1], L)
    BY <1>1, <1>2 DEF ExtendsAll, Follows
  <2>2. p.nodes[1].val # Null
    <3>1. 1 \in 1..(Len(p.rels) + 1)
      BY <1>0 DEF N
    <3> QED BY <3>1 DEF PortablePattern
  <2>3. L \subseteq MatchSet(g, vs)
    BY FinHas
  <2>4. Stage(h[0], f[0], exact, SpreadBinds(p.nodes[1], named), kinds)
    BY <2>1, <2>2, <2>3, StartStage
  <2>5. SpreadBinds(p.nodes[1], named) = named \union BoundBy(p, 0 + 1) /\ kinds = kinds \union KindsOf(p, 0)
    BY DEF SpreadBinds, BoundBy, KindsOf
  <2> QED BY <2>4, <2>5
<1>4. ASSUME NEW j \in Nat, j \in Good PROVE j + 1 \in Good
  <2> DEFINE i == j + 1
  <2> SUFFICES ASSUME i <= N PROVE At(i)
    OBVIOUS
  <2>1. i \in 1..N /\ i - 1 = j /\ j \in 0..N /\ j <= N
    BY <1>0
  <2> DEFINE np == p.nodes[i + 1]
             rel == p.rels[i]
             D == named \union BoundBy(p, i)
             Q == kinds \union KindsOf(p, j)
  <2>2. np.val # Null /\ OneDirection(rel) /\ (exact => Exact(g, rel))
    <3>1. i + 1 \in 1..(N + 1)
      BY <1>0, <2>1
    <3> QED BY <2>1, <3>1 DEF PortablePattern, N
  <2>3. g.once => Apart(rel, Q)
    BY <2>1 DEF N
  <2>4. Stage(h[j], f[j], exact, D, Q)
    BY <1>4, <2>1
  <2>5. h[j] \subseteq MatchSet(g, vs) /\ f[j] \in Fin(Reached(g, vs))
    BY <1>1, <1>2, <2>1
  <2>6. f[j] \subseteq Reached(g, vs)
    BY <2>5, FinHas
  <2>7. h[i] = StepsOver(g, p, i, h[j]) /\ f[i] = AlongAll(g, p, i, f[j])
    BY <1>1, <1>2, <2>1 DEF ExtendsAll, Follows, N
  <2>8. h[i] = UNION {Onward(g, np, rel, m) : m \in h[j]} /\ f[i] = UNION {Along(g, np, rel, c) : c \in f[j]}
    BY <2>7 DEF StepsOver, AlongAll
  <2>9. SpreadBinds(np, D) = named \union BoundBy(p, i + 1) /\ Q \union {rel.kind} = kinds \union KindsOf(p, i)
    <3>1. 1..(i + 1) = (1..i) \union {i + 1} /\ 1..i = (1..j) \union {i}
      BY <2>1
    <3>2. BoundBy(p, i + 1) = BoundBy(p, i) \union ({np.var} \ {None})
      BY <3>1 DEF BoundBy
    <3>3. KindsOf(p, i) = KindsOf(p, j) \union {rel.kind}
      BY <3>1 DEF KindsOf
    <3> QED BY <3>2, <3>3 DEF SpreadBinds
  <2> HIDE DEF i, np, rel, D, Q
  <2>10. Stage(h[i], f[i], exact, SpreadBinds(np, D), Q \union {rel.kind})
    <3> DEFINE A == h[j]
               B == f[j]
               S == UNION {Onward(g, np, rel, m) : m \in A}
               T == UNION {Along(g, np, rel, c) : c \in B}
    <3>1. A \subseteq MatchSet(g, vs) /\ B \subseteq Reached(g, vs) /\ Stage(A, B, exact, D, Q)
      BY <2>4, <2>5, <2>6
    <3>2. S = h[i] /\ T = f[i]
      BY <2>8
    <3> HIDE DEF A, B
    <3>3. Stage(S, T, exact, SpreadBinds(np, D), Q \union {rel.kind})
      <4> HIDE DEF At, Good
      <4> QED BY <2>2, <2>3, <3>1, HopStage
    <3> QED BY <3>2, <3>3
  <2> QED BY <2>9, <2>10
<1>5. At(N)
  <2> HIDE DEF Good, At
  <2>1. N \in Good
    BY <1>0, <1>3, <1>4, AllNaturals
  <2> QED BY <1>0, <2>1 DEF Good
<1> QED BY <1>1, <1>2, <1>5 DEF N

BoundIn(match, n) == UNION {BoundBy(match[m], Len(match[m].rels) + 1) : m \in 1..n}
KindsIn(match, n) == UNION {KindsOf(match[m], Len(match[m].rels)) : m \in 1..n}

\* No edge that a rel may take has a kind of an earlier rel.
EarlierApart(match) ==
  \A n \in 1..Len(match) : \A i \in 1..Len(match[n].rels) :
    Apart(match[n].rels[i], KindsIn(match, n - 1) \union KindsOf(match[n], i - 1))

LEMMA ApartIs ==
  ASSUME NEW match, Len(match) \in Nat, DOMAIN match = 1..Len(match),
         \A n \in 1..Len(match) : Len(match[n].rels) \in Nat /\ DOMAIN match[n].rels = 1..Len(match[n].rels),
         EdgesApart(match)
  PROVE  EarlierApart(match)
<1> SUFFICES ASSUME NEW n \in 1..Len(match), NEW i \in 1..Len(match[n].rels),
                    NEW k \in KindsIn(match, n - 1) \union KindsOf(match[n], i - 1)
             PROVE  None \notin {k, match[n].rels[i].kind} /\ k # match[n].rels[i].kind
  BY DEF EarlierApart, Apart
<1>0. ASSUME NEW m \in 1..Len(match), NEW j \in 1..Len(match[m].rels) PROVE <<m, j>> \in RelPlaces(match)
  BY DEF RelPlaces
<1>1. \E m \in 1..Len(match) : \E j \in 1..Len(match[m].rels) : <<m, j>> # <<n, i>> /\ k = match[m].rels[j].kind
  <2>1. CASE k \in KindsIn(match, n - 1)
    <3>1. PICK m \in 1..(n - 1) : k \in KindsOf(match[m], Len(match[m].rels))
      BY <2>1 DEF KindsIn
    <3>2. PICK j \in 1..Len(match[m].rels) : k = match[m].rels[j].kind
      BY <3>1 DEF KindsOf
    <3>3. m \in 1..Len(match) /\ m # n
      BY <3>1
    <3> QED BY <3>2, <3>3
  <2>2. CASE k \in KindsOf(match[n], i - 1)
    <3>1. PICK j \in 1..(i - 1) : k = match[n].rels[j].kind
      BY <2>2 DEF KindsOf
    <3>2. j \in 1..Len(match[n].rels) /\ j # i
      BY <3>1
    <3> QED BY <3>1, <3>2
  <2> QED BY <2>1, <2>2
<1>2. PICK m \in 1..Len(match) : \E j \in 1..Len(match[m].rels) : <<m, j>> # <<n, i>> /\ k = match[m].rels[j].kind
  BY <1>1
<1>3. PICK j \in 1..Len(match[m].rels) : <<m, j>> # <<n, i>> /\ k = match[m].rels[j].kind
  BY <1>2
<1>4. <<m, j>> \in RelPlaces(match) /\ <<n, i>> \in RelPlaces(match)
  BY <1>0
<1> QED BY <1>3, <1>4 DEF EdgesApart

\* Two matches of nothing yet agree.
LEMMA FirstStage ==
  ASSUME NEW b, NEW exact
  PROVE  Stage({<<b, None, <<>>>>}, {<<b, None, <<>>>>}, exact, {}, {})
<1> DEFINE m == <<b, None, <<>>>>
<1>1. m[1] = b /\ m[2] = None /\ m[3] = <<>> /\ Len(m[3]) = 0
  OBVIOUS
<1>2. Used(m) = {}
  BY <1>1 DEF Used
<1>3. EndsOf(m) = <<>>
  <2>1. EndsOf(m) = [j \in 1..0 |-> End(m[3][j])]
    BY <1>1 DEF EndsOf
  <2> QED BY <2>1
<1>4. Twin(m) = m
  BY <1>1, <1>3 DEF Twin
<1> HIDE DEF m
<1>5. {m} = {Twin(c) : c \in {m}}
  BY <1>4
<1> QED BY <1>2, <1>5 DEF Stage, Twins, m

LEMMA MatchStage ==
  ASSUME NEW q, NEW g, GraphIs(g), NEW vs, MatchIs(q.match, vs), NEW cap, cap \in Nat, NEW exact,
         \A n \in 1..Len(q.match) : FitsIn(g, q.match[n], cap) /\ PortablePattern(g, q.match[n], exact),
         g.once => EarlierApart(q.match)
  PROVE  Stage(MatchAll(q, g, cap), CypherMatches(g, q.match), exact,
               BoundIn(q.match, Len(q.match)), KindsIn(q.match, Len(q.match)))
<1> DEFINE match == q.match
           N == Len(match)
           h == Matched(q, g, cap)
<1>0. N \in Nat
  BY DEF MatchIs
<1>1. /\ MatchAll(q, g, cap) = h[N] /\ h[0] = {NoMatch}
      /\ \A n \in 1..N : h[n] = ExtendAll(g, match[n], cap, h[n - 1])
      /\ \A n \in 0..N : h[n] \in Fin(MatchSet(g, vs))
  BY MatchedIs
<1> HIDE DEF h
<1>2. PICK f : /\ CypherMatched(g, match, f) /\ CypherMatches(g, match) = f[N]
               /\ \A n \in 0..N : f[n] \in Fin(MatchSet(g, vs))
  BY CypherUnfolds
<1> DEFINE At(n) == Stage(h[n], f[n], exact, BoundIn(match, n), KindsIn(match, n))
           Good == {n \in Nat : n <= N => At(n)}
<1> HIDE DEF match, N
<1>3. 0 \in Good
  <2>1. h[0] = {NoMatch} /\ f[0] = {NoMatch}
    BY <1>1, <1>2 DEF CypherMatched
  <2>2. BoundIn(match, 0) = {} /\ KindsIn(match, 0) = {}
    BY DEF BoundIn, KindsIn
  <2>3. Stage({NoMatch}, {NoMatch}, exact, {}, {})
    BY FirstStage DEF NoMatch
  <2> QED BY <2>1, <2>2, <2>3
<1>4. ASSUME NEW j \in Nat, j \in Good PROVE j + 1 \in Good
  <2> DEFINE n == j + 1
             p == match[n]
             K == h[j]
             L == f[j]
             D == BoundIn(match, j)
             Q == KindsIn(match, j)
  <2> SUFFICES ASSUME n <= N PROVE At(n)
    OBVIOUS
  <2>1. n \in 1..N /\ n - 1 = j /\ j \in 0..N /\ j <= N
    BY <1>0
  <2>2. Stage(K, L, exact, D, Q)
    BY <1>4, <2>1
  <2>3. K \in Fin(MatchSet(g, vs)) /\ L \in Fin(MatchSet(g, vs))
    BY <1>1, <1>2, <2>1
  <2>4. K \subseteq MatchSet(g, vs)
    BY <2>3, FinHas
  <2>5. PatternIs(p, vs) /\ Cardinality(Labelled(g, p.nodes[1])) <= cap /\ PortablePattern(g, p, exact)
    BY <2>1 DEF MatchIs, match, N, FitsIn
  <2>6. g.once => \A i \in 1..Len(p.rels) : Apart(p.rels[i], Q \union KindsOf(p, i - 1))
    BY <2>1 DEF EarlierApart, match, N
  <2>7. h[n] = ExtendAll(g, p, cap, K) /\ f[n] = MatchesFrom(g, p, L)
    BY <1>1, <1>2, <2>1 DEF CypherMatched, N
  <2>8. 1..n = (1..j) \union {n}
    BY <2>1
  <2>9. BoundIn(match, n) = D \union BoundBy(p, Len(p.rels) + 1) /\ KindsIn(match, n) = Q \union KindsOf(p, Len(p.rels))
    BY <2>8 DEF BoundIn, KindsIn
  <2> HIDE DEF n, p, K, L, D, Q
  <2>10. Stage(ExtendAll(g, p, cap, K), MatchesFrom(g, p, L), exact,
               D \union BoundBy(p, Len(p.rels) + 1), Q \union KindsOf(p, Len(p.rels)))
    <3> HIDE DEF Good, At
    <3> QED BY <2>2, <2>3, <2>4, <2>5, <2>6, PatternStage
  <2> QED BY <2>7, <2>9, <2>10
<1>5. At(N)
  <2> HIDE DEF Good, At
  <2>1. N \in Good
    BY <1>0, <1>3, <1>4, AllNaturals
  <2> QED BY <1>0, <2>1 DEF Good
<1> QED BY <1>1, <1>2, <1>5 DEF N, match

\* A pattern of the condition.
LEMMA ExistsAgrees ==
  ASSUME NEW g, GraphIs(g), NEW vs, NEW p, PatternIs(p, vs), NEW cap, cap \in Nat, FitsIn(g, p, cap),
         PortablePattern(g, p, FALSE), g.once => EarlierApart(<<p>>), NEW b \in Bound(g, vs)
  PROVE  ExtendPattern(g, p, <<b, None, <<>>>>, cap) # {} <=> MatchesFrom(g, p, {<<b, None, <<>>>>}) # {}
<1> DEFINE m == <<b, None, <<>>>>
           K == {m}
           A == ExtendAll(g, p, cap, K)
           B == MatchesFrom(g, p, K)
<1>1. m \in MatchSet(g, vs) /\ Stage(K, K, FALSE, {}, {})
  <2>1. m \in Bound(g, vs) \X (Nodes(g) \union {None}) \X Seq(Ways(g))
    <3> DEFINE t == <<>>
    <3>1. t \in Seq(Ways(g)) /\ None \in Nodes(g) \union {None}
      OBVIOUS
    <3> HIDE DEF t
    <3>2. <<b, None, t>> \in Bound(g, vs) \X (Nodes(g) \union {None}) \X Seq(Ways(g))
      BY <3>1
    <3> QED BY <3>2 DEF t
  <2> QED BY <2>1, FirstStage DEF MatchSet
<1>2. A = ExtendPattern(g, p, m, cap)
  BY DEF ExtendAll
<1>3. g.once => \A i \in 1..Len(p.rels) : Apart(p.rels[i], {} \union KindsOf(p, i - 1))
  <2> SUFFICES ASSUME g.once, NEW i \in 1..Len(p.rels) PROVE Apart(p.rels[i], KindsOf(p, i - 1))
    OBVIOUS
  <2> DEFINE match == <<p>>
  <2>1. 1 \in 1..Len(match) /\ match[1] = p /\ EarlierApart(match)
    OBVIOUS
  <2> HIDE DEF match
  <2>2. Apart(match[1].rels[i], KindsIn(match, 1 - 1) \union KindsOf(match[1], i - 1))
    BY <2>1 DEF EarlierApart
  <2>3. KindsIn(match, 1 - 1) = {}
    BY DEF KindsIn
  <2> QED BY <2>1, <2>2, <2>3
<1>4. K \subseteq MatchSet(g, vs) /\ K \in Fin(MatchSet(g, vs))
  BY <1>1, FinHas
<1>5. Cardinality(Labelled(g, p.nodes[1])) <= cap
  BY DEF FitsIn
<1> HIDE DEF m, K
<1>6. Pairs(A) = Pairs(B)
  <2>1. Stage(A, B, FALSE, {} \union BoundBy(p, Len(p.rels) + 1), {} \union KindsOf(p, Len(p.rels)))
    BY <1>1, <1>3, <1>4, <1>5, PatternStage
  <2> QED BY <2>1 DEF Stage
<1> HIDE DEF A, B
<1>7. A # {} <=> B # {}
  BY <1>6 DEF Pairs
<1> QED BY <1>2, <1>7 DEF B, K, m

(***************************************************************************)
(* The condition, in two values and in three.                              *)
(***************************************************************************)
\* A sequence that grows by what is made of it.
Grows(V, n, make, h) ==
  /\ h \in [0..n -> V] /\ h[0] = <<>> /\ \A k \in 1..n : h[k] = Append(h[k - 1], make[k][h[k - 1]])
  /\ \A k \in 0..n : Len(h[k]) = k

LEMMA Growing ==
  ASSUME NEW A, NEW V, V = Seq(A), NEW n, n \in Nat, NEW make, make \in [1..n -> [V -> A]]
  PROVE  \E h : Grows(V, n, make, h)
<1> DEFINE z == <<>>
           step == [k \in 1..n |-> [s \in V |-> Append(s, make[k][s])]]
<1>1. z \in V /\ Len(z) = 0
  OBVIOUS
<1>2. ASSUME NEW k \in 1..n, NEW s \in V PROVE Append(s, make[k][s]) \in V /\ Len(Append(s, make[k][s])) = Len(s) + 1
  <2>1. make[k][s] \in A
    OBVIOUS
  <2> QED BY <2>1
<1> HIDE DEF z
<1>3. step \in [1..n -> [V -> V]]
  BY <1>2
<1>4. \A k \in 1..n : \A s \in V : step[k][s] = Append(s, make[k][s])
  OBVIOUS
<1> HIDE DEF step
<1>5. PICK h : Iterates(V, z, n, step, h)
  BY <1>1, <1>3, Iteration
<1>6. h \in [0..n -> V] /\ h[0] = z /\ \A k \in 1..n : h[k] = Append(h[k - 1], make[k][h[k - 1]])
  <2>1. \A k \in 1..n : k - 1 \in 0..n
    OBVIOUS
  <2> QED BY <1>4, <1>5, <2>1 DEF Iterates
<1>7. \A k \in 0..n : Len(h[k]) = k
  <2> DEFINE Good == {k \in Nat : k <= n => Len(h[k]) = k}
  <2>1. 0 \in Good
    BY <1>1, <1>6
  <2>2. ASSUME NEW k \in Nat, k \in Good PROVE k + 1 \in Good
    <3> SUFFICES ASSUME k + 1 <= n PROVE Len(h[k + 1]) = k + 1
      OBVIOUS
    <3>1. k \in 0..n /\ k + 1 \in 1..n /\ (k + 1) - 1 = k /\ Len(h[k]) = k
      BY <2>2
    <3>2. h[k + 1] = Append(h[k], make[k + 1][h[k]]) /\ h[k] \in V
      BY <1>6, <3>1
    <3> QED BY <1>2, <3>1, <3>2
  <2> HIDE DEF Good
  <2>3. Nat \subseteq Good
    BY <2>1, <2>2, AllNaturals
  <2> QED BY <2>3 DEF Good
<1> QED BY <1>6, <1>7 DEF Grows, z

\* Expressions are over earlier ones.
WhereIs(where) ==
  /\ Len(where) \in Nat
  /\ \A i \in 1..Len(where) :
       /\ where[i].op \in Compares \union {"not", "and", "or", "exists"}
       /\ where[i].op = "not" => where[i].arg \in 1..(i - 1)
       /\ where[i].op \in {"and", "or"} => where[i].left \in 1..(i - 1) /\ where[i].right \in 1..(i - 1)

Truths(g, where, b, cap, t) ==
  t[0] = <<>> /\ \A n \in 1..Len(where) : t[n] = Append(t[n - 1], Holds(g, where[n], b, t[n - 1], cap))
Truths3(g, where, b, u) ==
  u[0] = <<>> /\ \A n \in 1..Len(where) : u[n] = Append(u[n - 1], Holds3(g, where[n], b, u[n - 1]))
Values3 == {"yes", "no", "unknown"}

LEMMA HoldsIs ==
  ASSUME NEW g, NEW where, WhereIs(where), NEW n \in 1..Len(where), NEW b, NEW cap,
         NEW t, t \in Seq(BOOLEAN), Len(t) = n - 1
  PROVE  Holds(g, where[n], b, t, cap) \in BOOLEAN
<1> DEFINE e == where[n]
<1>1. /\ e.op \in Compares \union {"not", "and", "or", "exists"}
      /\ e.op = "not" => t[e.arg] \in BOOLEAN
      /\ e.op \in {"and", "or"} => t[e.left] \in BOOLEAN /\ t[e.right] \in BOOLEAN
  BY DEF WhereIs
<1> HIDE DEF e
<1>2. CASE e.op = "="
  <2> DEFINE p == g.val[b[e.var]] = e.rhs /\ e.rhs # Null
  <2>1. p \in BOOLEAN
    OBVIOUS
  <2>2. Holds(g, e, b, t, cap) = p
    BY <1>2 DEF Holds
  <2> QED BY <2>1, <2>2 DEF e
<1>3. CASE e.op = "<>"
  <2> DEFINE p == g.val[b[e.var]] \notin {e.rhs, Null}
  <2>1. p \in BOOLEAN
    OBVIOUS
  <2>2. Holds(g, e, b, t, cap) = p
    BY <1>3 DEF Holds
  <2> QED BY <2>1, <2>2 DEF e
<1>4. CASE e.op = "not"
  <2> DEFINE p == ~t[e.arg]
  <2>1. p \in BOOLEAN
    BY <1>1, <1>4
  <2>2. Holds(g, e, b, t, cap) = p
    BY <1>4 DEF Holds
  <2> QED BY <2>1, <2>2 DEF e
<1>5. CASE e.op = "and"
  <2> DEFINE p == t[e.left] /\ t[e.right]
  <2>1. p \in BOOLEAN
    BY <1>1, <1>5
  <2>2. Holds(g, e, b, t, cap) = p
    BY <1>5 DEF Holds
  <2> QED BY <2>1, <2>2 DEF e
<1>6. CASE e.op = "exists"
  <2> DEFINE p == ExtendPattern(g, e.pattern, <<b, None, <<>>>>, cap) # {}
  <2>1. p \in BOOLEAN
    OBVIOUS
  <2>2. Holds(g, e, b, t, cap) = p
    BY <1>6 DEF Holds
  <2> QED BY <2>1, <2>2 DEF e
<1>7. CASE e.op = "or"
  <2> DEFINE p == t[e.left] \/ t[e.right]
  <2>1. p \in BOOLEAN
    BY <1>1, <1>7
  <2>2. Holds(g, e, b, t, cap) = p
    BY <1>7 DEF Holds
  <2> QED BY <2>1, <2>2 DEF e
<1>8. CASE e.op = "in"
  <2> DEFINE p == g.val[b[e.var]] \in e.among
  <2>1. p \in BOOLEAN
    OBVIOUS
  <2>2. Holds(g, e, b, t, cap) = p
    BY <1>8 DEF Holds
  <2> QED BY <2>1, <2>2 DEF e
<1> QED BY <1>1, <1>2, <1>3, <1>4, <1>5, <1>6, <1>7, <1>8 DEF Compares

LEMMA Holds3Is ==
  ASSUME NEW g, NEW where, WhereIs(where), NEW n \in 1..Len(where), NEW b, NEW u
  PROVE  Holds3(g, where[n], b, u) \in Values3
<1>1. where[n].op \in Compares \union {"not", "and", "or", "exists"}
  BY DEF WhereIs
<1> QED BY <1>1 DEF Holds3, Values3, Compares

LEMMA TruthUnfolds ==
  ASSUME NEW g, NEW where, WhereIs(where), Len(where) > 0, NEW b, NEW cap
  PROVE  \E t : /\ Truths(g, where, b, cap, t) /\ Truth(g, where, b, cap) = t[Len(where)][Len(where)]
                /\ \A n \in 0..Len(where) : t[n] \in Seq(BOOLEAN) /\ Len(t[n]) = n
<1> DEFINE N == Len(where)
           Is(f) == f = [n \in 0..N |-> IF n = 0 THEN <<>> ELSE Append(f[n - 1], Holds(g, where[n], b, f[n - 1], cap))]
           F(n, s) == IF Len(s) = n - 1 THEN Holds(g, where[n], b, s, cap) ELSE FALSE
           make == [n \in 1..N |-> [s \in Seq(BOOLEAN) |-> F(n, s)]]
<1>0. N \in Nat
  BY DEF WhereIs
<1>1. Truth(g, where, b, cap) = (CHOOSE f : Is(f))[N][N]
  BY Zenon DEF Truth
<1>2. ASSUME NEW n \in 1..N, NEW s \in Seq(BOOLEAN) PROVE F(n, s) \in BOOLEAN
  <2>1. CASE Len(s) = n - 1
    <3>1. Holds(g, where[n], b, s, cap) \in BOOLEAN
      BY <2>1, HoldsIs
    <3> QED BY <2>1, <3>1
  <2> QED BY <2>1
<1>3. \A n \in 1..N : \A s \in Seq(BOOLEAN) : Len(s) = n - 1 => F(n, s) = Holds(g, where[n], b, s, cap)
  OBVIOUS
<1> HIDE DEF F
<1>4. make \in [1..N -> [Seq(BOOLEAN) -> BOOLEAN]]
  BY <1>2
<1>5. \A n \in 1..N : \A s \in Seq(BOOLEAN) : make[n][s] = F(n, s)
  OBVIOUS
<1> HIDE DEF make, N
<1>6. PICK h : Grows(Seq(BOOLEAN), N, make, h)
  <2> DEFINE A == BOOLEAN
             V == Seq(A)
  <2>1. make \in [1..N -> [V -> A]] /\ V = Seq(A)
    BY <1>4
  <2> HIDE DEF A, V
  <2>2. \E h : Grows(V, N, make, h)
    BY <1>0, <2>1, Growing
  <2> QED BY <2>2 DEF A, V
<1>a. /\ h \in [0..N -> Seq(BOOLEAN)] /\ h[0] = <<>> /\ \A k \in 1..N : h[k] = Append(h[k - 1], make[k][h[k - 1]])
      /\ \A k \in 0..N : Len(h[k]) = k
  BY <1>6 DEF Grows
<1>7. ASSUME NEW n \in 0..N
      PROVE  h[n] = IF n = 0 THEN <<>> ELSE Append(h[n - 1], Holds(g, where[n], b, h[n - 1], cap))
  <2>1. n # 0 => n \in 1..N /\ n - 1 \in 0..N
    BY <1>0
  <2>2. CASE n = 0
    BY <1>a, <2>2
  <2>3. CASE n # 0
    <3> DEFINE s == h[n - 1]
    <3>1. s \in Seq(BOOLEAN) /\ Len(s) = n - 1
      BY <1>a, <2>1, <2>3
    <3>2. h[n] = Append(s, make[n][s])
      BY <1>a, <2>1, <2>3
    <3> HIDE DEF s
    <3>3. h[n] = Append(s, Holds(g, where[n], b, s, cap))
      BY <1>3, <1>5, <2>1, <2>3, <3>1, <3>2
    <3> QED BY <2>3, <3>3 DEF s
  <2> QED BY <2>2, <2>3
<1>8. Is(h)
  BY <1>a, <1>7
<1> DEFINE c == CHOOSE f : Is(f)
<1>9. Is(c)
  <2> HIDE DEF Is
  <2> QED BY <1>8
<1>10. c = h
  <2> DEFINE H(f, n) == IF n = 0 THEN <<>> ELSE Append(f[n - 1], Holds(g, where[n], b, f[n - 1], cap))
             Good == {n \in Nat : n <= N => c[n] = h[n]}
  <2> HIDE DEF c
  <2>1. DOMAIN c = 0..N /\ c = [n \in 0..N |-> c[n]] /\ \A n \in 0..N : c[n] = H(c, n)
    BY <1>9
  <2>2. \A n \in 0..N : h[n] = H(h, n)
    BY <1>7
  <2>3. 0 \in Good
    BY <1>0, <2>1, <2>2
  <2>4. ASSUME NEW n \in Nat, n \in Good PROVE n + 1 \in Good
    <3> SUFFICES ASSUME n + 1 <= N PROVE c[n + 1] = h[n + 1]
      OBVIOUS
    <3>1. n + 1 \in 0..N /\ (n + 1) - 1 = n /\ n + 1 # 0 /\ c[n] = h[n]
      BY <1>0, <2>4
    <3> QED BY <2>1, <2>2, <3>1
  <2> HIDE DEF Good, H
  <2>5. Nat \subseteq Good
    BY <2>3, <2>4, AllNaturals
  <2>6. \A n \in 0..N : c[n] = h[n]
    BY <1>0, <2>5 DEF Good
  <2> QED BY <1>a, <2>1, <2>6
<1> HIDE DEF c
<1>11. \A n \in 1..N : h[n] = Append(h[n - 1], Holds(g, where[n], b, h[n - 1], cap))
  <2> SUFFICES ASSUME NEW n \in 1..N
               PROVE  h[n] = Append(h[n - 1], Holds(g, where[n], b, h[n - 1], cap))
    OBVIOUS
  <2> DEFINE a == Append(h[n - 1], Holds(g, where[n], b, h[n - 1], cap))
  <2>1. n \in 0..N /\ n # 0
    BY <1>0
  <2>2. h[n] = IF n = 0 THEN <<>> ELSE a
    BY <1>7, <2>1
  <2> HIDE DEF a
  <2>3. h[n] = a
    BY <2>1, <2>2
  <2> QED BY <2>3 DEF a
<1>12. Truths(g, where, b, cap, h)
  BY <1>a, <1>11 DEF Truths, N
<1>13. Truth(g, where, b, cap) = h[N][N]
  BY <1>1, <1>10 DEF c
<1>14. \A n \in 0..N : h[n] \in Seq(BOOLEAN) /\ Len(h[n]) = n
  BY <1>a
<1> QED BY <1>12, <1>13, <1>14 DEF N
LEMMA Truth3Unfolds ==
  ASSUME NEW g, NEW where, WhereIs(where), Len(where) > 0, NEW b
  PROVE  \E t : /\ Truths3(g, where, b, t) /\ Truth3(g, where, b) = t[Len(where)][Len(where)]
                /\ \A n \in 0..Len(where) : t[n] \in Seq(Values3) /\ Len(t[n]) = n
<1> DEFINE N == Len(where)
           Is(f) == f = [n \in 0..N |-> IF n = 0 THEN <<>> ELSE Append(f[n - 1], Holds3(g, where[n], b, f[n - 1]))]
           F(n, s) == Holds3(g, where[n], b, s)
           make == [n \in 1..N |-> [s \in Seq(Values3) |-> F(n, s)]]
<1>0. N \in Nat
  BY DEF WhereIs
<1>1. Truth3(g, where, b) = (CHOOSE f : Is(f))[N][N]
  BY Zenon DEF Truth3
<1>2. ASSUME NEW n \in 1..N, NEW s \in Seq(Values3) PROVE F(n, s) \in Values3
  BY Holds3Is
<1>3. \A n \in 1..N : \A s \in Seq(Values3) : F(n, s) = Holds3(g, where[n], b, s)
  OBVIOUS
<1> HIDE DEF F
<1>4. make \in [1..N -> [Seq(Values3) -> Values3]]
  BY <1>2
<1>5. \A n \in 1..N : \A s \in Seq(Values3) : make[n][s] = F(n, s)
  OBVIOUS
<1> HIDE DEF make, N
<1>6. PICK h : Grows(Seq(Values3), N, make, h)
  <2> DEFINE A == Values3
             V == Seq(A)
  <2>1. make \in [1..N -> [V -> A]] /\ V = Seq(A)
    BY <1>4
  <2> HIDE DEF A, V
  <2>2. \E h : Grows(V, N, make, h)
    BY <1>0, <2>1, Growing
  <2> QED BY <2>2 DEF A, V
<1>a. /\ h \in [0..N -> Seq(Values3)] /\ h[0] = <<>> /\ \A k \in 1..N : h[k] = Append(h[k - 1], make[k][h[k - 1]])
      /\ \A k \in 0..N : Len(h[k]) = k
  BY <1>6 DEF Grows
<1>7. ASSUME NEW n \in 0..N
      PROVE  h[n] = IF n = 0 THEN <<>> ELSE Append(h[n - 1], Holds3(g, where[n], b, h[n - 1]))
  <2>1. n # 0 => n \in 1..N /\ n - 1 \in 0..N
    BY <1>0
  <2>2. CASE n = 0
    BY <1>a, <2>2
  <2>3. CASE n # 0
    <3> DEFINE s == h[n - 1]
    <3>1. s \in Seq(Values3) /\ Len(s) = n - 1
      BY <1>a, <2>1, <2>3
    <3>2. h[n] = Append(s, make[n][s])
      BY <1>a, <2>1, <2>3
    <3> HIDE DEF s
    <3>3. h[n] = Append(s, Holds3(g, where[n], b, s))
      BY <1>3, <1>5, <2>1, <2>3, <3>1, <3>2
    <3> QED BY <2>3, <3>3 DEF s
  <2> QED BY <2>2, <2>3
<1>8. Is(h)
  BY <1>a, <1>7
<1> DEFINE c == CHOOSE f : Is(f)
<1>9. Is(c)
  <2> HIDE DEF Is
  <2> QED BY <1>8
<1>10. c = h
  <2> DEFINE H(f, n) == IF n = 0 THEN <<>> ELSE Append(f[n - 1], Holds3(g, where[n], b, f[n - 1]))
             Good == {n \in Nat : n <= N => c[n] = h[n]}
  <2> HIDE DEF c
  <2>1. DOMAIN c = 0..N /\ c = [n \in 0..N |-> c[n]] /\ \A n \in 0..N : c[n] = H(c, n)
    BY <1>9
  <2>2. \A n \in 0..N : h[n] = H(h, n)
    BY <1>7
  <2>3. 0 \in Good
    BY <1>0, <2>1, <2>2
  <2>4. ASSUME NEW n \in Nat, n \in Good PROVE n + 1 \in Good
    <3> SUFFICES ASSUME n + 1 <= N PROVE c[n + 1] = h[n + 1]
      OBVIOUS
    <3>1. n + 1 \in 0..N /\ (n + 1) - 1 = n /\ n + 1 # 0 /\ c[n] = h[n]
      BY <1>0, <2>4
    <3> QED BY <2>1, <2>2, <3>1
  <2> HIDE DEF Good, H
  <2>5. Nat \subseteq Good
    BY <2>3, <2>4, AllNaturals
  <2>6. \A n \in 0..N : c[n] = h[n]
    BY <1>0, <2>5 DEF Good
  <2> QED BY <1>a, <2>1, <2>6
<1> HIDE DEF c
<1>11. \A n \in 1..N : h[n] = Append(h[n - 1], Holds3(g, where[n], b, h[n - 1]))
  <2> SUFFICES ASSUME NEW n \in 1..N
               PROVE  h[n] = Append(h[n - 1], Holds3(g, where[n], b, h[n - 1]))
    OBVIOUS
  <2> DEFINE a == Append(h[n - 1], Holds3(g, where[n], b, h[n - 1]))
  <2>1. n \in 0..N /\ n # 0
    BY <1>0
  <2>2. h[n] = IF n = 0 THEN <<>> ELSE a
    BY <1>7, <2>1
  <2> HIDE DEF a
  <2>3. h[n] = a
    BY <2>1, <2>2
  <2> QED BY <2>3 DEF a
<1>12. Truths3(g, where, b, h)
  BY <1>a, <1>11 DEF Truths3, N
<1>13. Truth3(g, where, b) = h[N][N]
  BY <1>1, <1>10 DEF c
<1>14. \A n \in 0..N : h[n] \in Seq(Values3) /\ Len(h[n]) = n
  BY <1>a
<1> QED BY <1>12, <1>13, <1>14 DEF N
\* The condition of a query whose comparisons know their answers.
Sure(g, e) == (\A n \in Nodes(g) : g.val[n] # Null) \/ e.op = "exists"
Decided(g, where, b, cap) ==
  \A i \in 1..Len(where) :
    /\ where[i].op \in Compares => b[where[i].var] \in Nodes(g)
    /\ where[i].op \in {"=", "<>"} => where[i].rhs # Null
    /\ where[i].op = "in" => Null \notin where[i].among
    /\ where[i].op = "not" => Sure(g, where[where[i].arg])
    /\ where[i].op = "exists" =>
         (ExtendPattern(g, where[i].pattern, <<b, None, <<>>>>, cap) # {}
            <=> MatchesFrom(g, where[i].pattern, {<<b, None, <<>>>>}) # {})

\* The two truths of an expression.
Same(g, e, t, u) == (t <=> u = "yes") /\ (Sure(g, e) => u # "unknown")

LEMMA HoldsAgree ==
  ASSUME NEW g, NEW where, WhereIs(where), NEW n \in 1..Len(where), NEW b, NEW cap, Decided(g, where, b, cap),
         NEW t, NEW u, \A j \in 1..(n - 1) : u[j] \in Values3 /\ Same(g, where[j], t[j], u[j])
  PROVE  Same(g, where[n], Holds(g, where[n], b, t, cap), Holds3(g, where[n], b, u))
<1> DEFINE e == where[n]
<1>1. /\ e.op \in Compares \union {"not", "and", "or", "exists"}
      /\ e.op \in Compares => (Sure(g, e) => g.val[b[e.var]] # Null)
      /\ e.op \in {"=", "<>"} => e.rhs # Null
      /\ e.op = "in" => Null \notin e.among
      /\ e.op = "not" => u[e.arg] \in {"yes", "no"} /\ (t[e.arg] <=> u[e.arg] = "yes")
      /\ e.op \in {"and", "or"} => /\ u[e.left] \in Values3 /\ (t[e.left] <=> u[e.left] = "yes")
                                   /\ u[e.right] \in Values3 /\ (t[e.right] <=> u[e.right] = "yes")
                                   /\ Sure(g, e) => u[e.left] # "unknown" /\ u[e.right] # "unknown"
  BY DEF WhereIs, Decided, Same, Sure, Values3, Compares
<1>2. e.op = "exists" => (ExtendPattern(g, e.pattern, <<b, None, <<>>>>, cap) # {}
                            <=> MatchesFrom(g, e.pattern, {<<b, None, <<>>>>}) # {})
  BY DEF Decided
<1> HIDE DEF e
<1>3. CASE e.op = "="
  BY <1>1, <1>3 DEF Same, Holds, Holds3, Compares, e
<1>4. CASE e.op = "<>"
  BY <1>1, <1>4 DEF Same, Holds, Holds3, Compares, e
<1>5. CASE e.op = "not"
  BY <1>1, <1>5 DEF Same, Holds, Holds3, e
<1>6. CASE e.op = "and"
  <2> DEFINE x == u[e.left]
             y == u[e.right]
             both == {x, y}
  <2>1. Holds(g, e, b, t, cap) <=> x = "yes" /\ y = "yes"
    <3>1. (t[e.left] <=> x = "yes") /\ (t[e.right] <=> y = "yes")
      BY <1>1, <1>6
    <3>2. Holds(g, e, b, t, cap) <=> t[e.left] /\ t[e.right]
      BY <1>6 DEF Holds
    <3> QED BY <3>1, <3>2
  <2>2. Holds3(g, e, b, u) = IF "no" \in both THEN "no" ELSE IF "unknown" \in both THEN "unknown" ELSE "yes"
    BY <1>6 DEF Holds3
  <2>3. x \in Values3 /\ y \in Values3 /\ (Sure(g, e) => x # "unknown" /\ y # "unknown")
    BY <1>1, <1>6
  <2> HIDE DEF x, y
  <2>4. Same(g, e, Holds(g, e, b, t, cap), Holds3(g, e, b, u))
    BY <2>1, <2>2, <2>3 DEF Same, Values3
  <2> QED BY <2>4 DEF e
<1>7. CASE e.op = "or"
  <2> DEFINE x == u[e.left]
             y == u[e.right]
             both == {x, y}
  <2>1. Holds(g, e, b, t, cap) <=> x = "yes" \/ y = "yes"
    <3>1. (t[e.left] <=> x = "yes") /\ (t[e.right] <=> y = "yes")
      BY <1>1, <1>7
    <3>2. Holds(g, e, b, t, cap) <=> t[e.left] \/ t[e.right]
      BY <1>7 DEF Holds
    <3> QED BY <3>1, <3>2
  <2>2. Holds3(g, e, b, u) = IF "yes" \in both THEN "yes" ELSE IF "unknown" \in both THEN "unknown" ELSE "no"
    BY <1>7 DEF Holds3
  <2>3. x \in Values3 /\ y \in Values3 /\ (Sure(g, e) => x # "unknown" /\ y # "unknown")
    BY <1>1, <1>7
  <2> HIDE DEF x, y
  <2>4. Same(g, e, Holds(g, e, b, t, cap), Holds3(g, e, b, u))
    BY <2>1, <2>2, <2>3 DEF Same, Values3
  <2> QED BY <2>4 DEF e
<1>8. CASE e.op = "exists"
  BY <1>2, <1>8 DEF Same, Holds, Holds3, e
<1>9. CASE e.op = "in"
  BY <1>1, <1>9 DEF Same, Holds, Holds3, Compares, e
<1> QED BY <1>1, <1>3, <1>4, <1>5, <1>6, <1>7, <1>8, <1>9 DEF Compares

LEMMA TruthsAgree ==
  ASSUME NEW g, NEW where, WhereIs(where), Len(where) > 0, NEW b, NEW cap, Decided(g, where, b, cap)
  PROVE  Truth(g, where, b, cap) <=> Truth3(g, where, b) = "yes"
<1> DEFINE N == Len(where)
<1>0. N \in Nat /\ N > 0
  BY DEF WhereIs
<1>1. PICK t : /\ Truths(g, where, b, cap, t) /\ Truth(g, where, b, cap) = t[N][N]
               /\ \A n \in 0..N : t[n] \in Seq(BOOLEAN) /\ Len(t[n]) = n
  BY TruthUnfolds
<1>2. PICK u : /\ Truths3(g, where, b, u) /\ Truth3(g, where, b) = u[N][N]
               /\ \A n \in 0..N : u[n] \in Seq(Values3) /\ Len(u[n]) = n
  BY Truth3Unfolds
<1> DEFINE At(n) == \A j \in 1..n : Same(g, where[j], t[n][j], u[n][j])
           Good == {n \in Nat : n <= N => At(n)}
<1> HIDE DEF N
<1>3. 0 \in Good
  OBVIOUS
<1>4. ASSUME NEW k \in Nat, k \in Good PROVE k + 1 \in Good
  <2> DEFINE n == k + 1
             s == t[k]
             v == u[k]
             x == Holds(g, where[n], b, s, cap)
             y == Holds3(g, where[n], b, v)
  <2> SUFFICES ASSUME n <= N PROVE At(n)
    OBVIOUS
  <2>1. n \in 1..N /\ n - 1 = k /\ k \in 0..N /\ k <= N
    BY <1>0
  <2>2. /\ s \in Seq(BOOLEAN) /\ Len(s) = k /\ v \in Seq(Values3) /\ Len(v) = k
        /\ \A j \in 1..k : Same(g, where[j], s[j], v[j])
    BY <1>1, <1>2, <1>4, <2>1
  <2>3. t[n] = Append(s, x) /\ u[n] = Append(v, y)
    BY <1>1, <1>2, <2>1 DEF Truths, Truths3, N
  <2> HIDE DEF s, v
  <2>4. x \in BOOLEAN /\ y \in Values3
    BY <2>1, <2>2, HoldsIs, Holds3Is DEF N
  <2>5. Same(g, where[n], x, y)
    <3>1. \A j \in 1..(n - 1) : v[j] \in Values3 /\ Same(g, where[j], s[j], v[j])
      BY <2>1, <2>2
    <3> QED BY <2>1, <3>1, HoldsAgree DEF N
  <2> HIDE DEF x, y
  <2>6. /\ \A j \in 1..k : Append(s, x)[j] = s[j]
        /\ Append(s, x)[n] = x
    BY <2>2, <2>4, AppendIs
  <2>7. /\ \A j \in 1..k : Append(v, y)[j] = v[j]
        /\ Append(v, y)[n] = y
    BY <2>2, <2>4, AppendIs
  <2> SUFFICES ASSUME NEW j \in 1..n PROVE Same(g, where[j], t[n][j], u[n][j])
    OBVIOUS
  <2>8. CASE j = n
    BY <2>3, <2>5, <2>6, <2>7, <2>8
  <2>9. CASE j \in 1..k
    BY <2>2, <2>3, <2>6, <2>7, <2>9
  <2> QED BY <2>8, <2>9
<1>5. At(N)
  <2> HIDE DEF Good, At
  <2>1. N \in Good
    BY <1>0, <1>3, <1>4, AllNaturals
  <2> QED BY <1>0, <2>1 DEF Good
<1>6. Same(g, where[N], t[N][N], u[N][N])
  BY <1>0, <1>5
<1> QED BY <1>1, <1>2, <1>6 DEF Same, N

(***************************************************************************)
(* Matches that go together have the same rows.                            *)
(***************************************************************************)
Like(q, g, ms, k) == {m \in ms : Group(q, g, m[1]) = k}

LEMMA SameGroups ==
  ASSUME NEW q, NEW g, NEW K, NEW L, Pairs(K) = Pairs(L)
  PROVE  Groups(q, g, K) = Groups(q, g, L)
<1>1. \A m \in K : \E c \in L : m[1] = c[1]
  BY PairHas
<1>2. \A c \in L : \E m \in K : c[1] = m[1]
  BY PairHas
<1> QED BY <1>1, <1>2 DEF Groups

LEMMA TwinIs ==
  ASSUME NEW K, NEW L, Twins(K, L)
  PROVE  /\ \A c \in L : Twin(c) \in K /\ Twin(c)[1] = c[1]
         /\ \A m \in K : \E c \in L : m = Twin(c)
         /\ \A c, d \in L : Twin(c) = Twin(d) => c = d
<1>1. \A c : Twin(c)[1] = c[1] /\ Twin(c)[3] = EndsOf(c)
  BY DEF Twin
<1>2. K = {Twin(c) : c \in L} /\ \A c, d \in L : EndsOf(c) = EndsOf(d) => c = d
  BY DEF Twins
<1> QED BY <1>1, <1>2

LEMMA SameCounts ==
  ASSUME NEW q, NEW g, NEW K, NEW L, IsFiniteSet(L), Twins(K, L), NEW k
  PROVE  Cardinality(Like(q, g, K, k)) = Cardinality(Like(q, g, L, k))
<1> DEFINE A == Like(q, g, K, k)
           B == Like(q, g, L, k)
           f == [c \in B |-> Twin(c)]
<1>1. IsFiniteSet(B)
  BY FS_Subset DEF Like
<1>2. \A c \in B : f[c] \in A
  BY TwinIs DEF Like
<1>3. \A m \in A : \E c \in B : f[c] = m
  <2> SUFFICES ASSUME NEW m \in A PROVE \E c \in B : f[c] = m
    OBVIOUS
  <2>1. m \in K /\ Group(q, g, m[1]) = k
    BY DEF Like
  <2>2. PICK c \in L : m = Twin(c)
    BY <2>1, TwinIs
  <2>3. m[1] = c[1]
    BY <2>2, TwinIs
  <2>4. c \in B
    BY <2>1, <2>3 DEF Like
  <2> QED BY <2>2, <2>4
<1>4. \A c, d \in B : f[c] = f[d] => c = d
  BY TwinIs DEF Like
<1>5. f \in [B -> A]
  BY <1>2
<1> HIDE DEF f, A, B
<1>6. f \in Bijection(B, A)
  BY <1>3, <1>4, <1>5 DEF Bijection, Injection, Surjection, IsInjective
<1>7. ExistsBijection(B, A)
  BY <1>6 DEF ExistsBijection
<1>8. Cardinality(A) = Cardinality(B)
  BY <1>1, <1>7, FS_Bijection
<1> QED BY <1>8 DEF A, B

\* A place in a listing of the one for each place in a listing of the other.
LEMMA TwinPlaces ==
  ASSUME NEW q, NEW g, NEW K, NEW L, Twins(K, L), NEW s, Enumerates(s, K), NEW t, Enumerates(t, L)
  PROVE  NoMoreOften(Lines(q, g, s), Lines(q, g, t)) /\ NoMoreOften(Lines(q, g, t), Lines(q, g, s))
<1>1. /\ Rows(s) /\ DOMAIN s = 1..Len(s) /\ \A i \in 1..Len(s) : s[i] \in K
      /\ Rows(t) /\ DOMAIN t = 1..Len(t) /\ \A i \in 1..Len(t) : t[i] \in L
  BY EnumeratedAreRows
<1> DEFINE u == Lines(q, g, s)
           v == Lines(q, g, t)
<1>2. /\ Rows(u) /\ DOMAIN u = 1..Len(s) /\ \A i \in 1..Len(s) : u[i] = Group(q, g, s[i][1])
      /\ Rows(v) /\ DOMAIN v = 1..Len(t) /\ \A i \in 1..Len(t) : v[i] = Group(q, g, t[i][1])
  BY <1>1, LinesAre, RowsAreASequence
<1> HIDE DEF u, v
<1>3. ASSUME NEW i \in 1..Len(s) PROVE \E j \in 1..Len(t) : s[i] = Twin(t[j])
  <2>1. PICK c \in L : s[i] = Twin(c)
    BY <1>1, TwinIs
  <2>2. PICK j \in 1..Len(t) : t[j] = c
    BY DEF Enumerates
  <2> QED BY <2>1, <2>2
<1>4. ASSUME NEW j \in 1..Len(t) PROVE \E i \in 1..Len(s) : s[i] = Twin(t[j])
  <2>1. Twin(t[j]) \in K
    BY <1>1, TwinIs
  <2> QED BY <2>1 DEF Enumerates
<1>5. \A i \in 1..Len(s) : \A j \in 1..Len(t) : s[i] = Twin(t[j]) => u[i] = v[j]
  <2> SUFFICES ASSUME NEW i \in 1..Len(s), NEW j \in 1..Len(t), s[i] = Twin(t[j]) PROVE u[i] = v[j]
    OBVIOUS
  <2>1. s[i][1] = t[j][1]
    BY <1>1, TwinIs
  <2> QED BY <1>2, <2>1
<1>6. /\ \A i, j \in 1..Len(s) : s[i] = s[j] => i = j
      /\ \A i, j \in 1..Len(t) : Twin(t[i]) = Twin(t[j]) => i = j
  <2>1. \A i, j \in 1..Len(t) : t[i] = t[j] => i = j
    BY DEF Enumerates
  <2>2. \A i, j \in 1..Len(t) : Twin(t[i]) = Twin(t[j]) => t[i] = t[j]
    BY <1>1, TwinIs
  <2> QED BY <2>1, <2>2 DEF Enumerates
<1>7. NoMoreOften(u, v)
  <2> DEFINE f == [i \in 1..Len(s) |-> CHOOSE j \in 1..Len(t) : s[i] = Twin(t[j])]
  <2>1. \A i \in 1..Len(s) : f[i] \in 1..Len(t) /\ s[i] = Twin(t[f[i]])
    BY <1>3
  <2> HIDE DEF f
  <2>2. \A i, j \in 1..Len(s) : f[i] = f[j] => i = j
    <3> SUFFICES ASSUME NEW i \in 1..Len(s), NEW j \in 1..Len(s), f[i] = f[j] PROVE i = j
      OBVIOUS
    <3>1. s[i] = s[j]
      BY <2>1
    <3> QED BY <1>6, <3>1
  <2>3. Embeds(f, u, v)
    BY <1>2, <1>5, <2>1, <2>2 DEF Embeds
  <2> QED BY <1>2, <2>3, EmbeddedAre
<1>8. NoMoreOften(v, u)
  <2> DEFINE f == [j \in 1..Len(t) |-> CHOOSE i \in 1..Len(s) : s[i] = Twin(t[j])]
  <2>1. \A j \in 1..Len(t) : f[j] \in 1..Len(s) /\ s[f[j]] = Twin(t[j])
    BY <1>4
  <2> HIDE DEF f
  <2>2. \A i, j \in 1..Len(t) : f[i] = f[j] => i = j
    <3> SUFFICES ASSUME NEW i \in 1..Len(t), NEW j \in 1..Len(t), f[i] = f[j] PROVE i = j
      OBVIOUS
    <3>1. Twin(t[i]) = Twin(t[j])
      BY <2>1
    <3> QED BY <1>6, <3>1
  <2>3. Embeds(f, v, u)
    BY <1>2, <1>5, <2>1, <2>2 DEF Embeds
  <2> QED BY <1>2, <2>3, EmbeddedAre
<1> QED BY <1>7, <1>8 DEF u, v

LEMMA SameIsNoMoreOften ==
  ASSUME NEW s, Rows(s)
  PROVE  NoMoreOften(s, s)
<1>1. \A r : Copies(s, r) \in Nat
  BY CopiesAre
<1> QED BY <1>1 DEF NoMoreOften

LEMMA RowsAgree ==
  ASSUME NEW q, NEW g, NEW K, IsFiniteSet(K), NEW L, IsFiniteSet(L), Pairs(K) = Pairs(L),
         ~(q.distinct /\ ~Counts(q)) => Twins(K, L)
  PROVE  NoMoreOften(RowsOf(q, g, K), RowsOf(q, g, L)) /\ NoMoreOften(RowsOf(q, g, L), RowsOf(q, g, K))
<1>1. Groups(q, g, K) = Groups(q, g, L)
  BY SameGroups
<1>2. CASE Counts(q)
  <2> DEFINE row(k, n) == [i \in 1..Len(k) |-> IF IsCount(q.returns[i]) THEN n ELSE k[i]]
             T(ms) == {row(k, Cardinality(Like(q, g, ms, k))) : k \in Groups(q, g, ms)}
  <2>1. \A ms : RowsOf(q, g, ms) = InOrder(T(ms))
    BY <1>2, Zenon DEF RowsOf, GroupedRows, Groups, Like
  <2>2. \A k : Cardinality(Like(q, g, K, k)) = Cardinality(Like(q, g, L, k))
    BY <1>2, SameCounts
  <2>3. T(K) = T(L)
    <3> HIDE DEF row
    <3> QED BY <1>1, <2>2
  <2> HIDE DEF T
  <2>4. RowsOf(q, g, K) = RowsOf(q, g, L)
    BY <2>1, <2>3
  <2>5. Rows(RowsOf(q, g, L))
    BY RowsOfAreRows
  <2> QED BY <2>4, <2>5, SameIsNoMoreOften
<1>3. CASE ~Counts(q) /\ q.distinct
  <2>1. \A ms : RowsOf(q, g, ms) = InOrder(Groups(q, g, ms))
    BY <1>3, Zenon DEF RowsOf, PlainRows, Groups
  <2>2. RowsOf(q, g, K) = RowsOf(q, g, L)
    BY <1>1, <2>1
  <2>3. Rows(RowsOf(q, g, L))
    BY RowsOfAreRows
  <2> QED BY <2>2, <2>3, SameIsNoMoreOften
<1>4. CASE ~Counts(q) /\ ~q.distinct
  <2>1. \A ms : RowsOf(q, g, ms) = Lines(q, g, InOrder(ms))
    BY <1>4, Zenon DEF RowsOf, PlainRows
  <2>2. Enumerates(InOrder(K), K) /\ Enumerates(InOrder(L), L)
    BY InOrderIs
  <2>3. Twins(K, L)
    BY <1>4
  <2> DEFINE s == InOrder(K)
             t == InOrder(L)
  <2>4. Enumerates(s, K) /\ Enumerates(t, L)
    BY <2>2
  <2> HIDE DEF s, t
  <2>5. NoMoreOften(Lines(q, g, s), Lines(q, g, t)) /\ NoMoreOften(Lines(q, g, t), Lines(q, g, s))
    BY <2>3, <2>4, TwinPlaces
  <2> QED BY <2>1, <2>5 DEF s, t
<1> QED BY <1>2, <1>3, <1>4

(***************************************************************************)
(* A query of the fragment.                                                *)
(***************************************************************************)
EveryVar(q) == UNION {{p.nodes[i].var : i \in 1..(Len(p.rels) + 1)} : p \in AllPatterns(q)}
\* Every match tells.
Telling(q) == ~(q.distinct /\ ~Counts(q))

LEMMA EveryPatternIs ==
  ASSUME NEW q \in Queries, Valid(q), NEW p \in AllPatterns(q)
  PROVE  /\ PatternIs(p, EveryVar(q)) /\ DOMAIN p.rels = 1..Len(p.rels) /\ DOMAIN p.nodes = 1..(Len(p.rels) + 1)
         /\ \A i \in 1..(Len(p.rels) + 1) : p.nodes[i] \in ToSet(p.nodes)
         /\ \A i \in 1..Len(p.rels) : p.rels[i] \in ToSet(p.rels) /\ p.rels[i].dir \in {"in", "out", "both"}
<1>1. /\ p.rels \in Seq(ToSet(p.rels)) /\ p.nodes \in Seq(ToSet(p.nodes)) /\ Len(p.nodes) = Len(p.rels) + 1
      /\ Len(p.rels) \in Nat
      /\ \A r \in ToSet(p.rels) : r.min \in Nat /\ r.max \in Nat \union {Unbounded} /\ r.dir \in {"in", "out", "both"}
  BY QueriesAssumption
<1>2. \A r \in ToSet(p.rels) : r.max # Unbounded
  BY DEF Valid, Lengths
<1>3. \A i \in 1..Len(p.rels) : p.rels[i] \in ToSet(p.rels)
  BY <1>1, ElementOfSequence
<1>4. \A i \in 1..(Len(p.rels) + 1) : p.nodes[i] \in ToSet(p.nodes)
  BY <1>1, ElementOfSequence
<1>5. \A i \in 1..(Len(p.rels) + 1) : p.nodes[i].var \in EveryVar(q)
  BY DEF EveryVar
<1>6. DOMAIN p.rels = 1..Len(p.rels) /\ DOMAIN p.nodes = 1..(Len(p.rels) + 1)
  BY <1>1
<1> QED BY <1>1, <1>2, <1>3, <1>4, <1>5, <1>6 DEF PatternIs

LEMMA PartsOfQuery ==
  ASSUME NEW q \in Queries, Valid(q)
  PROVE  /\ Len(q.match) \in Nat /\ DOMAIN q.match = 1..Len(q.match) /\ WhereIs(q.where)
         /\ q.where # <<>> => Len(q.where) > 0
         /\ \A n \in 1..Len(q.match) : q.match[n] \in ToSet(q.match) /\ q.match[n] \in AllPatterns(q)
         /\ \A n \in 1..Len(q.where) : q.where[n] \in WhereParts(q)
         /\ \A n \in 1..Len(q.where) : q.where[n].op = "exists" =>
              q.where[n].pattern \in WherePatterns(q) /\ q.where[n].pattern \in AllPatterns(q)
<1>1. q.match \in Seq(ToSet(q.match)) /\ q.where \in Seq(ToSet(q.where))
  BY QueriesAssumption
<1>2. \A n \in 1..Len(q.match) : q.match[n] \in ToSet(q.match)
  BY <1>1, ElementOfSequence
<1>3. \A n \in 1..Len(q.where) : q.where[n] \in WhereParts(q)
  BY <1>1, ElementOfSequence DEF WhereParts
<1>4. WhereIs(q.where)
  BY <1>1, QueriesAssumption DEF WhereIs
<1>5. Len(q.match) \in Nat /\ DOMAIN q.match = 1..Len(q.match) /\ (q.where # <<>> => Len(q.where) > 0)
  BY <1>1
<1> QED BY <1>2, <1>3, <1>4, <1>5 DEF AllPatterns, WherePatterns

LEMMA PatternsArePortable ==
  ASSUME query \in Queries, store \in Stores, Valid(query), Portable, NEW p \in AllPatterns(query)
  PROVE  PortablePattern(store, p, Telling(query)) /\ PortablePattern(store, p, FALSE)
<1>1. /\ PatternIs(p, EveryVar(query)) /\ DOMAIN p.rels = 1..Len(p.rels) /\ DOMAIN p.nodes = 1..(Len(p.rels) + 1)
      /\ \A i \in 1..(Len(p.rels) + 1) : p.nodes[i] \in ToSet(p.nodes)
      /\ \A i \in 1..Len(p.rels) : p.rels[i] \in ToSet(p.rels) /\ p.rels[i].dir \in {"in", "out", "both"}
  BY EveryPatternIs
<1>2. \A i \in 1..(Len(p.rels) + 1) : p.nodes[i].val # Null
  BY <1>1 DEF Portable
<1>3. ASSUME NEW i \in 1..Len(p.rels)
      PROVE  OneDirection(p.rels[i]) /\ (Telling(query) => Exact(store, p.rels[i]))
  <2> DEFINE rel == p.rels[i]
  <2>1. OneWay(rel) /\ rel.max \in Nat /\ rel.dir \in {"in", "out", "both"}
    BY <1>1 DEF Portable, PatternIs
  <2>2. Simple(store)
    BY DEF Portable, Simple
  <2> HIDE DEF rel
  <2>3. OneDirection(rel) /\ (Telling(query) => Exact(store, rel))
    BY <2>1, <2>2 DEF OneWay, OneDirection, Exact, Telling
  <2> QED BY <2>3 DEF rel
<1> QED BY <1>2, <1>3 DEF PortablePattern

LEMMA KindsAreApart ==
  ASSUME query \in Queries, store \in Stores, Valid(query), Portable, store.once
  PROVE  EarlierApart(query.match) /\ \A p \in WherePatterns(query) : EarlierApart(<<p>>)
<1>1. EdgesApart(query.match) /\ \A p \in WherePatterns(query) : EdgesApart(<<p>>)
  BY DEF Portable
<1>2. EarlierApart(query.match)
  <2> DEFINE match == query.match
  <2>1. /\ Len(match) \in Nat /\ DOMAIN match = 1..Len(match)
        /\ \A n \in 1..Len(match) : match[n] \in AllPatterns(query)
    BY PartsOfQuery
  <2>2. \A n \in 1..Len(match) : Len(match[n].rels) \in Nat /\ DOMAIN match[n].rels = 1..Len(match[n].rels)
    BY <2>1, EveryPatternIs DEF PatternIs
  <2>3. EdgesApart(match)
    BY <1>1
  <2> HIDE DEF match
  <2>4. EarlierApart(match)
    BY <2>1, <2>2, <2>3, ApartIs
  <2> QED BY <2>4 DEF match
<1>3. ASSUME NEW p \in WherePatterns(query) PROVE EarlierApart(<<p>>)
  <2> DEFINE match == <<p>>
  <2>1. p \in AllPatterns(query)
    BY DEF AllPatterns
  <2>2. Len(match) \in Nat /\ DOMAIN match = 1..Len(match) /\ \A n \in 1..Len(match) : match[n] = p
    OBVIOUS
  <2>3. Len(p.rels) \in Nat /\ DOMAIN p.rels = 1..Len(p.rels)
    BY <2>1, EveryPatternIs DEF PatternIs
  <2>4. EdgesApart(match)
    BY <1>1
  <2> HIDE DEF match
  <2>5. EarlierApart(match)
    BY <2>2, <2>3, <2>4, ApartIs
  <2> QED BY <2>5 DEF match
<1> QED BY <1>2, <1>3

\* The variables of MATCH are bound.
LEMMA NodeVarsAreBound ==
  ASSUME NEW q \in Queries, Valid(q)
  PROVE  NodeVars(q) \subseteq BoundIn(q.match, Len(q.match))
<1> SUFFICES ASSUME NEW v \in NodeVars(q) PROVE v \in BoundIn(q.match, Len(q.match))
  OBVIOUS
<1> DEFINE match == q.match
<1>1. PICK p \in ToSet(match) : \E el \in ToSet(p.nodes) : el.var = v /\ v # None
  BY DEF NodeVars, VarsOf
<1>2. PICK el \in ToSet(p.nodes) : el.var = v /\ v # None
  BY <1>1
<1>3. DOMAIN match = 1..Len(match)
  BY PartsOfQuery
<1>4. PICK n \in 1..Len(match) : match[n] = p
  BY <1>3 DEF ToSet
<1>5. p \in AllPatterns(q)
  BY DEF AllPatterns
<1>6. DOMAIN p.nodes = 1..(Len(p.rels) + 1)
  BY <1>5, EveryPatternIs
<1>7. PICK i \in 1..(Len(p.rels) + 1) : p.nodes[i] = el
  BY <1>6 DEF ToSet
<1>8. v \in BoundBy(p, Len(p.rels) + 1)
  BY <1>2, <1>7 DEF BoundBy
<1> QED BY <1>4, <1>8 DEF BoundIn

LEMMA ConditionIsDecided ==
  ASSUME query \in Queries, store \in Stores, Valid(query), Portable, NEW cap, cap \in Nat,
         \A p \in AllPatterns(query) : FitsIn(store, p, cap),
         NEW b \in Bound(store, EveryVar(query)), NodeVars(query) \subseteq DOMAIN b
  PROVE  Decided(store, query.where, b, cap)
<1> DEFINE where == query.where
<1> SUFFICES ASSUME NEW i \in 1..Len(where)
             PROVE  /\ where[i].op \in Compares => b[where[i].var] \in Nodes(store)
                    /\ where[i].op \in {"=", "<>"} => where[i].rhs # Null
                    /\ where[i].op = "in" => Null \notin where[i].among
                    /\ where[i].op = "not" => Sure(store, where[where[i].arg])
                    /\ where[i].op = "exists" =>
                         (ExtendPattern(store, where[i].pattern, <<b, None, <<>>>>, cap) # {}
                            <=> MatchesFrom(store, where[i].pattern, {<<b, None, <<>>>>}) # {})
  BY DEF Decided
<1> DEFINE e == where[i]
<1>0. e \in WhereParts(query) /\ (e.op = "exists" => e.pattern \in WherePatterns(query) /\ e.pattern \in AllPatterns(query))
  BY PartsOfQuery
<1>1. PICK D \in SUBSET EveryVar(query) : b \in [D -> Nodes(store)]
  BY DEF Bound
<1>2. ASSUME e.op \in Compares PROVE b[e.var] \in Nodes(store)
  <2>1. e.var \in WhereVars(query)
    BY <1>0, <1>2 DEF WhereVars
  <2>2. e.var \in NodeVars(query)
    BY <2>1 DEF Portable, InMatch
  <2> QED BY <1>1, <2>2
<1>5. (e.op \in {"=", "<>"} => e.rhs # Null) /\ (e.op = "in" => Null \notin e.among)
  BY <1>0 DEF Portable
<1>3. ASSUME e.op = "not" PROVE Sure(store, where[e.arg])
  <2>1. (\E n \in Nodes(store) : store.val[n] = Null) => where[e.arg].op = "exists"
    BY <1>0, <1>3 DEF Portable, NegatesKnown
  <2> QED BY <2>1 DEF Sure
<1>4. ASSUME e.op = "exists"
      PROVE  ExtendPattern(store, e.pattern, <<b, None, <<>>>>, cap) # {}
               <=> MatchesFrom(store, e.pattern, {<<b, None, <<>>>>}) # {}
  <2> DEFINE p == e.pattern
  <2>1. p \in WherePatterns(query) /\ p \in AllPatterns(query)
    BY <1>0, <1>4
  <2> HIDE DEF p
  <2>2. PatternIs(p, EveryVar(query)) /\ FitsIn(store, p, cap) /\ PortablePattern(store, p, FALSE)
    BY <2>1, EveryPatternIs, PatternsArePortable
  <2>3. store.once => EarlierApart(<<p>>)
    BY <2>1, KindsAreApart
  <2>4. GraphIs(store)
    BY StoreIs
  <2>5. ExtendPattern(store, p, <<b, None, <<>>>>, cap) # {} <=> MatchesFrom(store, p, {<<b, None, <<>>>>}) # {}
    BY <2>2, <2>3, <2>4, ExistsAgrees
  <2> QED BY <2>5 DEF p
<1> QED BY <1>2, <1>3, <1>4, <1>5

\* What binds alike is kept alike.
KeptIn(ms, S) == {m \in ms : m[1] \in S}

LEMMA KeptAgree ==
  ASSUME NEW K, NEW L, Pairs(K) = Pairs(L), NEW exact, exact => Twins(K, L), NEW S
  PROVE  Pairs(KeptIn(K, S)) = Pairs(KeptIn(L, S)) /\ (exact => Twins(KeptIn(K, S), KeptIn(L, S)))
<1> DEFINE A == KeptIn(K, S)
           B == KeptIn(L, S)
<1>0. /\ \A m : m \in A <=> m \in K /\ m[1] \in S
      /\ \A c : c \in B <=> c \in L /\ c[1] \in S
  BY DEF KeptIn
<1> HIDE DEF A, B
<1>1. ASSUME NEW m \in A PROVE \E c \in B : m[1] = c[1] /\ m[2] = c[2]
  <2>1. PICK c \in L : m[1] = c[1] /\ m[2] = c[2]
    BY <1>0, PairHas
  <2> QED BY <1>0, <2>1
<1>2. ASSUME NEW c \in B PROVE \E m \in A : c[1] = m[1] /\ c[2] = m[2]
  <2>1. PICK m \in K : c[1] = m[1] /\ c[2] = m[2]
    BY <1>0, PairHas
  <2> QED BY <1>0, <2>1
<1>3. Pairs(A) = Pairs(B)
  <2>1. \A p : p \in Pairs(A) <=> p \in Pairs(B)
    BY <1>1, <1>2 DEF Pairs
  <2> QED BY <2>1
<1>4. ASSUME exact PROVE Twins(A, B)
  <2>1. /\ \A c \in L : Twin(c) \in K /\ Twin(c)[1] = c[1]
        /\ \A m \in K : \E c \in L : m = Twin(c)
    BY <1>4, TwinIs
  <2>2. A = {Twin(c) : c \in B}
    <3>1. \A c \in B : Twin(c) \in A
      BY <1>0, <2>1
    <3>2. ASSUME NEW m \in A PROVE \E c \in B : m = Twin(c)
      <4>1. PICK c \in L : m = Twin(c)
        BY <1>0, <2>1
      <4>2. c[1] \in S
        BY <1>0, <2>1, <4>1
      <4> QED BY <1>0, <4>1, <4>2
    <3> QED BY <3>1, <3>2
  <2>3. \A c, d \in B : EndsOf(c) = EndsOf(d) => c = d
    BY <1>0, <1>4 DEF Twins
  <2> QED BY <2>2, <2>3 DEF Twins
<1> QED BY <1>3, <1>4 DEF A, B

LEMMA PortableRowsAgree ==
  ASSUME query \in Queries, store \in Stores, Valid(query), Portable
  PROVE  LET s == InterpretedRows t == CypherRows(query, store) IN NoMoreOften(s, t) /\ NoMoreOften(t, s)
<1> DEFINE all == Max({Asked, Cardinality(Nodes(store))})
           vs == EveryVar(query)
           where == query.where
           K == MatchAll(query, store, all)
           L == CypherMatches(store, query.match)
           exact == Telling(query)
<1>1. GraphIs(store) /\ Cardinality(Nodes(store)) \in Nat /\ Asked \in Nat
  BY StoreIs, FS_CardinalityType, AskedIs DEF GraphIs
<1>2. all \in Nat /\ all >= Cardinality(Nodes(store))
  <2>1. all = Max({Cardinality(Nodes(store)), Asked})
    <3>1. {Asked, Cardinality(Nodes(store))} = {Cardinality(Nodes(store)), Asked}
      OBVIOUS
    <3> QED BY <3>1
  <2> QED BY <1>1, <2>1, MaxOfTwo
<1> HIDE DEF all
<1>3. \A p \in AllPatterns(query) : FitsIn(store, p, all)
  <2> SUFFICES ASSUME NEW p \in AllPatterns(query) PROVE FitsIn(store, p, all)
    OBVIOUS
  <2>1. Labelled(store, p.nodes[1]) \subseteq Nodes(store) /\ IsFiniteSet(Nodes(store))
    BY <1>1 DEF Labelled, GraphIs
  <2>2. /\ IsFiniteSet(Labelled(store, p.nodes[1]))
        /\ Cardinality(Labelled(store, p.nodes[1])) <= Cardinality(Nodes(store))
    BY <2>1, FS_Subset
  <2>3. Cardinality(Labelled(store, p.nodes[1])) \in Nat
    BY <2>2, FS_CardinalityType
  <2> QED BY <1>1, <1>2, <2>2, <2>3 DEF FitsIn
<1>4. MatchIs(query.match, vs) /\ \A n \in 1..Len(query.match) : query.match[n] \in AllPatterns(query)
  BY PartsOfQuery, EveryPatternIs DEF MatchIs
<1>5. Stage(K, L, exact, BoundIn(query.match, Len(query.match)), KindsIn(query.match, Len(query.match)))
  <2>1. \A n \in 1..Len(query.match) : FitsIn(store, query.match[n], all) /\ PortablePattern(store, query.match[n], exact)
    BY <1>3, <1>4, PatternsArePortable
  <2>2. store.once => EarlierApart(query.match)
    BY KindsAreApart
  <2> HIDE DEF exact, vs
  <2> QED BY <1>1, <1>2, <1>4, <2>1, <2>2, MatchStage
<1>6. K \in Fin(MatchSet(store, vs)) /\ L \in Fin(MatchSet(store, vs))
  <2> HIDE DEF vs
  <2>1. L \in Fin(MatchSet(store, vs))
    BY <1>1, <1>4, CypherIs
  <2>2. Len(query.match) \in 0..Len(query.match)
    BY <1>4 DEF MatchIs
  <2>3. K \in Fin(MatchSet(store, vs))
    BY <1>1, <1>2, <1>4, <2>2, MatchedIs
  <2> QED BY <2>1, <2>3
<1>7. IsFiniteSet(K) /\ IsFiniteSet(L) /\ \A m \in K : m[1] \in Bound(store, vs)
  BY <1>6, FinHas DEF MatchSet
<1> HIDE DEF K, L, vs, exact
<1>8. Pairs(K) = Pairs(L) /\ (exact => Twins(K, L)) /\ \A m \in K : NodeVars(query) \subseteq DOMAIN m[1]
  BY <1>5, NodeVarsAreBound DEF Stage
<1>9. ASSUME where # <<>>, NEW m \in K PROVE Truth(store, where, m[1], all) <=> Truth3(store, where, m[1]) = "yes"
  <2> DEFINE b == m[1]
  <2>1. b \in Bound(store, EveryVar(query)) /\ NodeVars(query) \subseteq DOMAIN b
    BY <1>7, <1>8 DEF vs
  <2> HIDE DEF b
  <2>2. Decided(store, where, b, all)
    BY <1>2, <1>3, <2>1, ConditionIsDecided
  <2>3. WhereIs(where) /\ Len(where) > 0
    BY <1>9, PartsOfQuery
  <2> HIDE DEF where
  <2>4. Truth(store, where, b, all) <=> Truth3(store, where, b) = "yes"
    BY <2>2, <2>3, TruthsAgree
  <2> QED BY <2>4 DEF b
<1> DEFINE S == {b \in {m[1] : m \in K} : where = <<>> \/ Truth3(store, where, b) = "yes"}
           A == Filtered(query, store, K, all)
           B == {c \in L : where = <<>> \/ Truth3(store, where, c[1]) = "yes"}
<1>10. A = KeptIn(K, S)
  <2>1. A = {m \in K : where = <<>> \/ Truth(store, where, m[1], all)}
    BY DEF Filtered
  <2>2. A = {m \in K : where = <<>> \/ Truth3(store, where, m[1]) = "yes"}
    BY <1>9, <2>1
  <2> QED BY <2>2 DEF KeptIn
<1>11. B = KeptIn(L, S)
  <2>1. \A c \in L : \E m \in K : c[1] = m[1]
    BY <1>8, PairHas
  <2> QED BY <2>1 DEF KeptIn
<1> HIDE DEF S
<1>12. Pairs(A) = Pairs(B) /\ (exact => Twins(A, B))
  <2> HIDE DEF A, B
  <2> QED BY <1>8, <1>10, <1>11, KeptAgree
<1>13. IsFiniteSet(A) /\ IsFiniteSet(B)
  BY <1>7, FS_Subset DEF Filtered
<1>14. InterpretedRows = RowsOf(query, store, A) /\ InterpretedMatches = A
  BY DEF InterpretedRows, InterpretedMatches, K, all
<1>15. CypherRows(query, store) = EngineRows(query, store, B)
  BY DEF CypherRows, Portable, L
<1> HIDE DEF A, B
<1>16. ~(query.distinct /\ ~Counts(query)) => Twins(A, B)
  BY <1>12 DEF exact, Telling
<1>17. /\ NoMoreOften(RowsOf(query, store, A), RowsOf(query, store, B))
       /\ NoMoreOften(RowsOf(query, store, B), RowsOf(query, store, A))
  BY <1>12, <1>13, <1>16, RowsAgree
<1>18. Keyless(query) => B # {}
  <2>1. Keyless(query) => A # {}
    BY <1>14 DEF Portable
  <2>2. A # {} => B # {}
    BY <1>12 DEF Pairs
  <2> QED BY <2>1, <2>2
<1>19. EngineRows(query, store, B) = RowsOf(query, store, B)
  BY <1>18 DEF EngineRows
<1> QED BY <1>14, <1>15, <1>17, <1>19

\* On the fragment the two ways give the same rows, as often, whatever the graph: the
\* interpreter's closure and the engine's trails lead to the same nodes.
THEOREM BothWaysAgree ==
  QuerySpec => []WaysAgree
<1>1. ASSUME QueryInv PROVE WaysAgree
  <2> SUFFICES ASSUME phase = "answered", Portable
               PROVE  LET i == InterpretedRows c == CypherRows(query, store) IN Among(i, c) /\ Among(c, i)
    BY DEF WaysAgree
  <2>1. query \in Queries /\ store \in Stores /\ Valid(query)
    BY <1>1 DEF QueryInv, PhaseInv
  <2> QED BY <2>1, PortableRowsAgree, NoMoreIsAmong
<1> QED BY <1>1, QueryInvHolds, PTL
=============================================================================
