---------------------------- MODULE QueryLanguage ----------------------------
(***************************************************************************)
(* The read-only query (store/query): what the validator lets through, what *)
(* the interpreter computes over the store's read methods, and what the     *)
(* compiled statement means to an openCypher engine.                        *)
(*                                                                          *)
(* A query is [match, where, returns, distinct, skip, limit]; match is a    *)
(* sequence of patterns [nodes, rels]; a node pattern is [var, label, val], *)
(* val being its inline property; a rel is [var, kind, dir, min, max].      *)
(* Where lists expressions, each over earlier ones by their place, those    *)
(* with a pattern as the text has them; the last is the condition, and      *)
(* there is none where it lists none.  Not modelled: ORDER BY, and          *)
(* aggregates other than count( * ).                                        *)
(* A graph is [label, val, edges, once]: one property per node stands for   *)
(* all, Null where the node has none; an edge is [n, src, dst, kind], n     *)
(* telling parallel edges apart; once says whether the engine that holds it *)
(* leads a match over an edge once at most, as openCypher has it, or lets it *)
(* come back.                                                               *)
(***************************************************************************)
EXTENDS Integers, Sequences, FiniteSets, SequencesExt, FiniteSetsExt, TLC

CONSTANTS None, Null, Unbounded, Labels, LinkKinds,
  Capabilities  \* what the backend declares: Core and what goes beyond it

\* The elements of a set in some order.
InOrder(S) == FoldSet(LAMBDA x, s : Append(s, x), <<>>, S)

\* What a node or a rel pattern leaves open is None.
Open(constraint, value) == constraint \in {None, value}
Nodes(g) == DOMAIN g.label
Elements(p) == ToSet(p.nodes) \union ToSet(p.rels)
VarsOf(els) == {el.var : el \in els} \ {None}

(***************************************************************************)
(* The validator.  An expression is a comparison with a literal, the        *)
(* membership of a property in a set, a negation, a conjunction, a          *)
(* disjunction or the existence of a pattern.  IN tells by a set, and so do *)
(* an ordering comparison and a string predicate, of the values that are of *)
(* the literal's type: `among' stands for each, `needs' for the capability  *)
(* it takes, or None.                                                       *)
(***************************************************************************)
Compares == {"=", "<>", "in"}
Core == {"path.varlen", "pattern.exists", "string.pred", "agg.basic"}
WhereParts(q) == ToSet(q.where)
WherePatterns(q) == {e.pattern : e \in {x \in WhereParts(q) : x.op = "exists"}}
AllPatterns(q) == ToSet(q.match) \union WherePatterns(q)

\* What a binding will have, and what the validator takes for bound.
NodeVars(q) == VarsOf(UNION {ToSet(p.nodes) : p \in ToSet(q.match)})
BoundVars(q) == VarsOf(UNION {Elements(p) : p \in AllPatterns(q)})
WhereVars(q) == {e.var : e \in {x \in WhereParts(q) : x.op \in Compares}}
ReturnVars(q) == {r.var : r \in {x \in ToSet(q.returns) : x.var # None}}

Vocabulary(q) ==
  /\ \A p \in AllPatterns(q) :
       /\ \A n \in ToSet(p.nodes) : n.label \in Labels \union {None}
       /\ \A r \in ToSet(p.rels) : r.kind \in LinkKinds \union {None}
  /\ WhereVars(q) \union ReturnVars(q) \subseteq BoundVars(q)

\* Patterns that share no variable, directly or through others, are a product.
Connected(match) ==
  LET grown[n \in 1..Len(match)] ==
        IF n = 1 THEN {1}
        ELSE LET seen == grown[n - 1]
             IN seen \union {j \in 1..Len(match) : \E i \in seen :
                   VarsOf(Elements(match[i])) \intersect VarsOf(Elements(match[j])) # {}}
  IN grown[Len(match)] = 1..Len(match)

Lengths(q) ==
  \A p \in AllPatterns(q) : \A r \in ToSet(p.rels) :
    r.max # Unbounded /\ 1 <= r.min /\ r.min <= r.max

Needs(q) ==
  {need \in Core :
     \/ need = "path.varlen" /\ \E p \in AllPatterns(q) : \E r \in ToSet(p.rels) : <<r.min, r.max>> # <<1, 1>>
     \/ need = "pattern.exists" /\ WherePatterns(q) # {}
     \/ need = "agg.basic" /\ \E r \in ToSet(q.returns) : r.op = "count"}
  \union ({e.needs : e \in {x \in WhereParts(q) : x.op = "in"}} \ {None})

Valid(q) == Vocabulary(q) /\ Lengths(q) /\ Connected(q.match) /\ Needs(q) \subseteq Capabilities

(***************************************************************************)
(* Matches, by either way: <<binding, node reached, ways taken>>.  A        *)
(* binding maps variables to nodes; the ways tell apart two matches that    *)
(* bind alike.                                                              *)
(***************************************************************************)
NoMatch == << <<>>, None, <<>> >>
Binds(b, var, n) == var \in DOMAIN b => b[var] = n
Bind(b, var, n) ==
  IF var = None \/ var \in DOMAIN b THEN b ELSE [v \in DOMAIN b \union {var} |-> IF v = var THEN n ELSE b[v]]
Fits(g, np, n) == Open(np.label, g.label[n]) /\ Open(np.val, g.val[n])
Reaches(g, np, m, n, way) ==
  IF Fits(g, np, n) /\ Binds(m[1], np.var, n)
  THEN {<<Bind(m[1], np.var, n), n, Append(m[3], way)>>} ELSE {}

(***************************************************************************)
(* The interpreter: a way is the node it led to.                            *)
(***************************************************************************)
OneHop(g, n, rel) ==
  LET kept == {e \in g.edges : Open(rel.kind, e.kind)}
      out == {e.dst : e \in {x \in kept : x.src = n}}
      into == {e.src : e \in {x \in kept : x.dst = n}}
  IN CASE rel.dir = "out" -> out [] rel.dir = "in" -> into [] OTHER -> out \union into

\* Mistake: what was seen on a shorter way is not reached again, a cycle's start neither.
OnlyNew(g, rel, s) == UNION {OneHop(g, n, rel) : n \in s.frontier} \ s.visited
NextNodes(g, rel, s) == UNION {OneHop(g, n, rel) : n \in s.frontier}

Deeper(g, rel, s, d) ==
  LET nxt == NextNodes(g, rel, s)
  IN [results |-> s.results \union (IF d >= rel.min THEN nxt ELSE {}),
      frontier |-> nxt \ s.visited, visited |-> s.visited \union nxt]
Reachable(g, start, rel) ==
  LET hop[d \in 0..rel.max] ==
        IF d = 0 THEN [results |-> {}, frontier |-> {start}, visited |-> {start}]
        ELSE LET s == hop[d - 1] IN Deeper(g, rel, s, d)
  IN hop[rel.max].results

\* The store is asked for so many nodes, in an order of its own, and the inline property is
\* looked at afterwards.
Candidates(g, np, cap) ==
  LET labelled == {n \in Nodes(g) : Open(np.label, g.label[n])}
  IN IF Cardinality(labelled) <= cap THEN labelled
     ELSE CHOOSE some \in SUBSET labelled : Cardinality(some) = cap

\* The matches of the pattern that extend a match.
ExtendPattern(g, p, m, cap) ==
  LET np == p.nodes[1]
      first == IF np.var \in DOMAIN m[1] THEN {m[1][np.var]} ELSE Candidates(g, np, cap)
      over[i \in 0..Len(p.rels)] ==
        IF i = 0 THEN UNION {Reaches(g, np, m, n, n) : n \in first}
        ELSE UNION {UNION {Reaches(g, p.nodes[i + 1], k, n, n) : n \in Reachable(g, k[2], p.rels[i])} : k \in over[i - 1]}
  IN over[Len(p.rels)]

MatchAll(q, g, cap) ==
  LET matched[n \in 0..Len(q.match)] ==
        IF n = 0 THEN {NoMatch} ELSE UNION {ExtendPattern(g, q.match[n], m, cap) : m \in matched[n - 1]}
  IN matched[Len(q.match)]

\* Two-valued: a comparison with a property that is not there is false, its negation true.
Holds(g, e, b, before, cap) ==
  CASE e.op = "="      -> g.val[b[e.var]] = e.rhs /\ e.rhs # Null
    [] e.op = "<>"     -> g.val[b[e.var]] \notin {e.rhs, Null}
    [] e.op = "in"     -> g.val[b[e.var]] \in e.among
    [] e.op = "not"    -> ~before[e.arg]
    [] e.op = "and"    -> before[e.left] /\ before[e.right]
    [] e.op = "or"     -> before[e.left] \/ before[e.right]
    [] e.op = "exists" -> ExtendPattern(g, e.pattern, <<b, None, <<>>>>, cap) # {}
Truth(g, where, b, cap) ==
  LET truths[n \in 0..Len(where)] ==
        IF n = 0 THEN <<>>
        ELSE LET before == truths[n - 1] IN Append(before, Holds(g, where[n], b, before, cap))
  IN truths[Len(where)][Len(where)]

Filtered(q, g, ms, cap) == {m \in ms : q.where = <<>> \/ Truth(g, q.where, m[1], cap)}

(***************************************************************************)
(* Rows.  A return item is a variable (its id), a property or a count.      *)
(***************************************************************************)
IsCount(r) == r.op = "count"
Counts(q) == \E r \in ToSet(q.returns) : IsCount(r)
Value(g, r, b) == IF r.op = "id" THEN b[r.var] ELSE g.val[b[r.var]]
Group(q, g, b) == [i \in 1..Len(q.returns) |->
                     IF IsCount(q.returns[i]) THEN None ELSE Value(g, q.returns[i], b)]

GroupedRows(q, g, ms) ==
  LET row(k) == [i \in 1..Len(k) |-> IF IsCount(q.returns[i])
                   THEN Cardinality({m \in ms : Group(q, g, m[1]) = k}) ELSE k[i]]
  IN InOrder({row(k) : k \in {Group(q, g, m[1]) : m \in ms}})

Lines(q, g, order) == [i \in 1..Len(order) |-> Group(q, g, order[i][1])]
PlainRows(q, g, ms) ==
  IF q.distinct THEN InOrder({Group(q, g, m[1]) : m \in ms})
  ELSE Lines(q, g, InOrder(ms))

RowsOf(q, g, ms) == IF Counts(q) THEN GroupedRows(q, g, ms) ELSE PlainRows(q, g, ms)

(***************************************************************************)
(* The compiled statement and what the engine returns: one match per way    *)
(* over the edges, three-valued conditions.                                 *)
(***************************************************************************)
\* The texts of the statement, in their order: the patterns of MATCH, then those of WHERE.
NoPattern == [nodes |-> <<>>, rels |-> <<>>]
Texts(q) == q.match \o [i \in 1..Len(q.where) |-> IF q.where[i].op = "exists" THEN q.where[i].pattern ELSE NoPattern]

\* A variable is declared with its label and property where it first occurs, and only there.
Positions(texts) == UNION {{i} \X DOMAIN texts[i].nodes : i \in DOMAIN texts}
Earlier(a, b) == a[1] < b[1] \/ (a[1] = b[1] /\ a[2] < b[2])
Declares(texts, at) ==
  LET var == texts[at[1]].nodes[at[2]].var
  IN var = None \/ \A o \in Positions(texts) : Earlier(o, at) => texts[o[1]].nodes[o[2]].var # var
CompiledText(texts, i) ==
  [nodes |-> [j \in 1..Len(texts[i].nodes) |->
                LET np == texts[i].nodes[j]
                IN IF Declares(texts, <<i, j>>) THEN np ELSE [var |-> np.var, label |-> None, val |-> None]],
   rels |-> texts[i].rels]

\* The query that the engine is sent.
CompiledMatch(q) == [i \in 1..Len(q.match) |-> CompiledText(Texts(q), i)]
CompiledWhere(q) ==
  [i \in 1..Len(q.where) |->
     IF q.where[i].op = "exists"
     THEN [q.where[i] EXCEPT !.pattern = CompiledText(Texts(q), Len(q.match) + i)] ELSE q.where[i]]

EdgeFrom(e, n, rel) == Open(rel.kind, e.kind) /\ (\/ rel.dir # "in" /\ e.src = n
                                                  \/ rel.dir # "out" /\ e.dst = n)
Opposite(e, n) == IF e.src = n THEN e.dst ELSE e.src

\* The paths of a rel from n, as their edges, to where they lead.
Longer(g, rel, t) ==
  {<<Append(t[1], e), Opposite(e, t[2])>> :
     e \in {f \in g.edges : EdgeFrom(f, t[2], rel) /\ (g.once => f \notin ToSet(t[1]))}}
Paths(g, n, rel) ==
  LET ofLength[k \in 0..rel.max] ==
        IF k = 0 THEN {<< <<>>, n>>} ELSE UNION {Longer(g, rel, t) : t \in ofLength[k - 1]}
  IN UNION {ofLength[k] : k \in rel.min..rel.max}

Way(n, edges) == [from |-> n, edges |-> edges]
Used(m) == UNION {ToSet(m[3][i].edges) : i \in 1..Len(m[3])}
PathsOn(g, m, rel) == {t \in Paths(g, m[2], rel) : g.once => Used(m) \intersect ToSet(t[1]) = {}}

\* No node is equal to a NULL.
Meets(g, np, m, n, way) == IF np.val = Null THEN {} ELSE Reaches(g, np, m, n, way)

MatchesFrom(g, p, from) ==
  LET over[i \in 0..Len(p.rels)] ==
        IF i = 0
        THEN UNION {UNION {Meets(g, p.nodes[1], m, n, Way(n, <<>>)) : n \in Nodes(g)} : m \in from}
        ELSE UNION {UNION {Meets(g, p.nodes[i + 1], m, t[2], Way(m[2], t[1])) : t \in PathsOn(g, m, p.rels[i])} :
                      m \in over[i - 1]}
  IN over[Len(p.rels)]

CypherMatches(g, match) ==
  LET matched[n \in 0..Len(match)] ==
        IF n = 0 THEN {NoMatch} ELSE MatchesFrom(g, match[n], matched[n - 1])
  IN matched[Len(match)]

Holds3(g, e, b, before) ==
  CASE e.op \in {"=", "<>"} ->
         IF Null \in {g.val[b[e.var]], e.rhs} THEN "unknown"
         ELSE IF (g.val[b[e.var]] = e.rhs) = (e.op = "=") THEN "yes" ELSE "no"
    [] e.op = "in" -> IF g.val[b[e.var]] = Null THEN "unknown"
                      ELSE IF g.val[b[e.var]] \in e.among THEN "yes"
                      ELSE IF Null \in e.among THEN "unknown" ELSE "no"
    [] e.op = "not" -> CASE before[e.arg] = "yes" -> "no" [] before[e.arg] = "no" -> "yes" [] OTHER -> "unknown"
    [] e.op = "and" -> LET both == {before[e.left], before[e.right]}
                       IN IF "no" \in both THEN "no" ELSE IF "unknown" \in both THEN "unknown" ELSE "yes"
    [] e.op = "or"  -> LET both == {before[e.left], before[e.right]}
                       IN IF "yes" \in both THEN "yes" ELSE IF "unknown" \in both THEN "unknown" ELSE "no"
    [] e.op = "exists" -> IF MatchesFrom(g, e.pattern, {<<b, None, <<>>>>}) # {} THEN "yes" ELSE "no"
Truth3(g, where, b) ==
  LET truths[n \in 0..Len(where)] ==
        IF n = 0 THEN <<>>
        ELSE LET before == truths[n - 1] IN Append(before, Holds3(g, where[n], b, before))
  IN truths[Len(where)][Len(where)]

\* A count of nothing is one row of it, unless rows are told apart by something else.
Keyless(q) == Counts(q) /\ \A r \in ToSet(q.returns) : IsCount(r)
EngineRows(q, g, ms) ==
  IF Keyless(q) /\ ms = {} THEN << [i \in 1..Len(q.returns) |-> 0] >> ELSE RowsOf(q, g, ms)

CypherRows(q, g) ==
  LET where == CompiledWhere(q)
  IN EngineRows(q, g, {m \in CypherMatches(g, CompiledMatch(q)) : where = <<>> \/ Truth3(g, where, m[1]) = "yes"})
=============================================================================
