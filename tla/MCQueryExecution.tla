--------------------------- MODULE MCQueryExecution ---------------------------
(***************************************************************************)
(* Small graphs of functions and a class, and queries of each construct.   *)
(***************************************************************************)
EXTENDS QueryExecution

Calls(s, d) == [n |-> 1, src |-> s, dst |-> d, kind |-> "CALLS"]
Graph(edges) ==
  [label |-> (1 :> "Function") @@ (2 :> "Function") @@ (3 :> "Class"),
   val |-> (1 :> "x") @@ (2 :> "y") @@ (3 :> Null), edges |-> edges, once |-> TRUE]
SomeEdges ==
  {Calls(1, 2), Calls(2, 1), Calls(2, 3), Calls(3, 3), [Calls(1, 2) EXCEPT !.kind = "CONTAINS"],
   [Calls(1, 2) EXCEPT !.n = 2]}
OnceGraphs == {Graph(es) : es \in {s \in SUBSET SomeEdges : Cardinality(s) >= 3 /\ Calls(1, 2) \in s}}
SmallGraphs ==
  OnceGraphs \union {[g EXCEPT !.once = FALSE] : g \in {h \in OnceGraphs : Cardinality(h.edges) = 3 /\ Calls(3, 3) \in h.edges}}

N(var, label) == [var |-> var, label |-> label, val |-> None]
Rel(dir, lo, hi) == [var |-> None, kind |-> "CALLS", dir |-> dir, min |-> lo, max |-> hi]
Path(ns, rs) == [nodes |-> ns, rels |-> rs]
Of(var) == [op |-> "id", var |-> var]
Count == [op |-> "count", var |-> None]
Query(match, where, returns) ==
  [match |-> match, where |-> where, returns |-> returns, distinct |-> FALSE, skip |-> 0, limit |-> None]
Is(op, v) == [op |-> op, var |-> "a", rhs |-> v]
IsIn(among, needs) == [op |-> "in", var |-> "a", among |-> among, needs |-> needs]
Or(e, f) == <<e, f, [op |-> "or", left |-> 1, right |-> 2]>>
Neg(e) == <<e, [op |-> "not", arg |-> 1]>>

AllF == Path(<<N("a", "Function")>>, <<>>)
AToB(rel) == Path(<<N("a", None), N("b", None)>>, <<rel>>)
Ways(rel) == [Query(<<AToB(rel)>>, <<>>, <<Of("b")>>) EXCEPT !.distinct = TRUE]
Uncalled == [op |-> "exists", pattern |-> Path(<<N("a", None), N(None, None)>>, <<Rel("in", 1, 1)>>)]

\* The constructs one by one, and those whose answers the bounds cut.
OnePattern == {
  Query(<<AllF>>, <<>>, <<Of("a")>>),
  [Query(<<AToB(Rel("out", 1, 1))>>, <<>>, <<Of("a"), Of("b")>>) EXCEPT !.limit = 1],
  [Query(<<Path(<<N("a", None)>>, <<>>)>>, <<>>, <<Of("a")>>) EXCEPT !.limit = 3],
  [Query(<<AToB(Rel("in", 1, 1))>>, <<Is("=", "x")>>, <<Of("b")>>) EXCEPT !.skip = 1],
  Query(<<Path(<<[N("a", None) EXCEPT !.val = "y"], N("b", None)>>, <<Rel("out", 1, 1)>>)>>, <<>>, <<Of("b")>>),
  Query(<<AToB(Rel("out", 1, 1))>>, <<>>, <<Of("a"), Count>>),
  Query(<<Path(<<N("a", None)>>, <<>>)>>, Neg(Uncalled), <<Of("a")>>),
  Query(<<Path(<<N("a", None)>>, <<>>)>>, <<Is("<>", "x"), Uncalled, [op |-> "and", left |-> 1, right |-> 2]>>, <<Of("a")>>),
  Query(<<Path(<<N("a", None), N(None, None), N("a", None)>>, <<Rel("out", 1, 1), Rel("out", 1, 1)>>)>>, <<>>, <<Of("a")>>),
  Query(<<Path(<<N("a", None), N("b", None), N(None, None)>>, <<Rel("in", 1, 1), [Rel("out", 1, 1) EXCEPT !.kind = "CONTAINS"]>>)>>,
        <<>>, <<Of("a"), Of("b")>>),
  Query(<<Path(<<N("a", None)>>, <<>>)>>, <<IsIn({"x", "y"}, "string.pred")>>, <<Of("a"), Count>>),
  Query(<<Path(<<N("a", None)>>, <<>>)>>, Or(IsIn({"y"}, None), Uncalled), <<Of("a")>>),
  Query(<<AllF>>, <<IsIn({"x"}, "attrs.access")>>, <<Of("a")>>),
  Query(<<AllF>>, <<Is("=", "x")>>, <<Count>>),
  Ways(Rel("out", 1, 3)), Ways(Rel("in", 1, 2)), Ways(Rel("out", 2, 1)), Ways(Rel("out", 1, Unbounded)),
  Query(<<Path(<<N("a", "Nothing")>>, <<>>)>>, <<>>, <<Of("a")>>),
  Query(<<AllF>>, <<>>, <<Of("b")>>)}
Patterns == {
  Query(<<Path(<<N("a", None)>>, <<>>), AToB(Rel("both", 1, 1))>>, <<>>, <<Of("a"), Of("b")>>),
  Query(<<AllF, AToB(Rel("out", 1, 1))>>, <<>>, <<Of("a"), Of("b")>>),
  Query(<<AllF, Path(<<N("b", None)>>, <<>>)>>, <<>>, <<Of("a")>>)}
Differing == {
  Query(<<Path(<<N("a", None)>>, <<>>)>>, <<[Uncalled EXCEPT !.pattern.nodes[1].label = "Function"]>>, <<Of("a")>>),
  Query(<<AllF>>, <<Is("=", "z")>>, <<Count>>),
  Query(<<Path(<<N("a", None)>>, <<>>)>>, Neg(IsIn({"x"}, None)), <<Of("a")>>),
  Query(<<Path(<<N("a", None)>>, <<>>)>>, Neg(Is("=", "x")), <<Of("a")>>),
  Query(<<AToB(Rel("out", 1, 1)), Path(<<N("b", "Class")>>, <<>>)>>, <<>>, <<Of("b")>>),
  Query(<<Path(<<[N("a", None) EXCEPT !.val = Null]>>, <<>>)>>, <<>>, <<Of("a")>>),
  Query(<<AToB(Rel("both", 2, 2))>>, <<>>, <<Of("b")>>),
  [Query(<<Path(<<[N("a", None) EXCEPT !.val = "y"], N("b", None)>>, <<Rel("out", 1, 2)>>)>>, <<>>, <<Count>>)
     EXCEPT !.distinct = TRUE]}
Unsafe == {Query(<<Path(<<N("a", None), N("b", None)>>, <<[Rel("out", 1, 1) EXCEPT !.var = "r"]>>)>>, <<>>, <<Of("r")>>)}
SomeQueries == OnePattern \union Patterns \union Differing
AllQueries == SomeQueries \union Unsafe
QueryLabels == {"Function", "Class"}
QueryKinds == {"CALLS", "CONTAINS"}
\* What the backends of the repository declare, "agg.collect" apart.
CoreTier == Core
=============================================================================
