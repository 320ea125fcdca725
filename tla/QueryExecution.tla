---------------------------- MODULE QueryExecution ----------------------------
(***************************************************************************)
(* One query executed either way under the same bounds: interpreted, pattern *)
(* by pattern and binding by binding (store/query/interpret.py), and pulled *)
(* row by row out of the engine's cursor by a worker thread                 *)
(* (store/query/execute.py).  The clock is read between steps and may be    *)
(* past the deadline at any of them; a read of the store may hang.          *)
(***************************************************************************)
EXTENDS QueryLanguage

CONSTANTS Queries, Stores, MaxRows, MaxExpansions

ASSUME CapsAssumption ==
  MaxRows \in Nat /\ MaxExpansions \in Nat \ {0} /\ None \notin {"timeout", "expansion_cap", "row_cap"}
\* What the parser makes of a text.
ASSUME QueriesAssumption ==
  \A q \in Queries :
    /\ q.match \in Seq(ToSet(q.match)) /\ Len(q.match) > 0 /\ q.limit \in Nat \union {None} /\ q.skip \in Nat
    /\ \A p \in AllPatterns(q) :
         /\ p.rels \in Seq(ToSet(p.rels)) /\ p.nodes \in Seq(ToSet(p.nodes)) /\ Len(p.nodes) = Len(p.rels) + 1
         /\ \A r \in ToSet(p.rels) : r.dir \in {"in", "out", "both"} /\ r.min \in Nat /\ r.max \in Nat \union {Unbounded}
    /\ q.where \in Seq(ToSet(q.where))
    /\ \A i \in 1..Len(q.where) : LET e == q.where[i] IN
         /\ e.op \in Compares \union {"not", "and", "or", "exists"}
         /\ e.op = "not" => e.arg \in 1..(i - 1)
         /\ e.op \in {"and", "or"} => {e.left, e.right} \subseteq 1..(i - 1)
ASSUME StoresAssumption ==
  \A g \in Stores : /\ IsFiniteSet(Nodes(g)) /\ IsFiniteSet(g.edges) /\ g.once \in BOOLEAN
                    /\ \A e \in g.edges : {e.src, e.dst} \subseteq Nodes(g)

VARIABLES
  query, store,
  phase,      \* of the interpreter: validate, match, rows, answered, refused, crashed, stuck; compiled
  pattern,    \* the place of the one it matches
  waiting,    \* bindings still to extend over it
  bindings,   \* those extended
  stopped,    \* the bound that stopped it, or None
  table,      \* its answer: [rows, reason]
  pulling,    \* the driver: idle, off (the query is interpreted), running, hung, answered, failed
  cursor,     \* rows the engine has still to give
  got,        \* rows pulled
  pulled      \* the driver's answer
interpreter == <<phase, pattern, waiting, bindings, stopped, table>>
driver == <<pulling, cursor, got, pulled>>
queryVars == <<query, store, interpreter, driver>>

NoTable == [rows |-> <<>>, reason |-> None]

QueryInit ==
  /\ query \in Queries /\ store \in Stores
  /\ phase = "validate" /\ pattern = 1 /\ waiting = {NoMatch} /\ bindings = {}
  /\ stopped = None /\ table = NoTable
  /\ pulling \in {"idle", "off"} /\ cursor = <<>> /\ got = <<>> /\ pulled = NoTable

EffectiveLimit(q) == IF q.limit = None THEN MaxRows ELSE Min({q.limit, MaxRows})

Skipped(q, rows) == SubSeq(rows, q.skip + 1, Len(rows))
Upto(n, rows) == SubSeq(rows, 1, Min({n, Len(rows)}))

(***************************************************************************)
(* validate_query, then the two executions.                                *)
(***************************************************************************)
Validate ==
  /\ phase = "validate"
  /\ phase' = IF ~Valid(query) THEN "refused" ELSE IF pulling = "off" THEN "match" ELSE "compiled"
  /\ UNCHANGED <<query, store, pattern, waiting, bindings, stopped, table, driver>>

\* One node more than the cap is asked for.
Asked == MaxExpansions + 1
Room(ms) == MaxExpansions - Cardinality(ms)

\* _match_all: the matches of one binding are appended one by one, the deadline and then the
\* cap looked at after each; either returns what there is, of whatever pattern.
ExtendBinding ==
  /\ phase = "match" /\ waiting # {}
  /\ LET b == CHOOSE m \in waiting : TRUE
         found == ExtendPattern(store, query.match[pattern], b, Asked)
         room == Room(bindings)
         stop(n, why) ==
           /\ \E some \in kSubset(n, found) : bindings' = bindings \union some
           /\ stopped' = why /\ phase' = "rows" /\ UNCHANGED waiting
     IN \/ /\ Cardinality(found) <= room
           /\ bindings' = bindings \union found /\ waiting' = waiting \ {b} /\ UNCHANGED <<stopped, phase>>
        \/ Cardinality(found) > room /\ stop(room, "expansion_cap")
        \/ \E n \in 1..Min({Cardinality(found), room + 1}) : stop(Min({n, room}), "timeout")
  /\ UNCHANGED <<query, store, pattern, table, driver>>

NextPattern ==
  /\ phase = "match" /\ waiting = {}
  /\ IF pattern < Len(query.match)
     THEN pattern' = pattern + 1 /\ waiting' = bindings /\ bindings' = {} /\ UNCHANGED phase
     ELSE phase' = "rows" /\ UNCHANGED <<pattern, waiting, bindings>>
  /\ UNCHANGED <<query, store, stopped, table, driver>>

\* A variable no node of the bindings carries is a KeyError.
Carried(ms, vs) == \A m \in ms : vs \subseteq DOMAIN m[1]

Answer(rows) ==
  LET limit == EffectiveLimit(query)
      left == Skipped(query, rows)
  IN [rows |-> Upto(limit, left),
      reason |-> IF stopped = None /\ Len(left) > limit THEN "row_cap" ELSE stopped]

\* Mistake: the condition is not evaluated once a bound has stopped the match.
HeldUnlessStopped == IF stopped # None THEN bindings ELSE Filtered(query, store, bindings, Asked)
Held == Filtered(query, store, bindings, Asked)

Interpret ==
  /\ phase = "rows"
  /\ IF ~Carried(bindings, WhereVars(query)) \/ ~Carried(Held, ReturnVars(query))
     THEN phase' = "crashed" /\ UNCHANGED table
     ELSE phase' = "answered" /\ table' = Answer(RowsOf(query, store, Held))
  /\ UNCHANGED <<query, store, pattern, waiting, bindings, stopped, driver>>

\* The statement asks for one row more than may be returned.
\* Mistake: for as many.
FetchRows(rows) == Upto(EffectiveLimit(query), Skipped(query, rows))
Fetched(rows) == Upto(EffectiveLimit(query) + 1, Skipped(query, rows))

\* What an engine makes of a variable that no node of MATCH declares is not modelled.
ConditionVars(q) == VarsOf(UNION {ToSet(p.nodes) : p \in WherePatterns(q)})
InMatch(q) == WhereVars(q) \union ReturnVars(q) \union ConditionVars(q) \subseteq NodeVars(q)
Run ==
  /\ phase = "compiled" /\ pulling = "idle" /\ InMatch(query)
  /\ cursor' = Fetched(CypherRows(query, store)) /\ pulling' = "running"
  /\ UNCHANGED <<query, store, interpreter, got, pulled>>

Finish(rows, why) == pulling' = "answered" /\ pulled' = [rows |-> rows, reason |-> why]

\* pull_bounded
Pull ==
  /\ pulling = "running"
  /\ \/ Finish(got, "timeout") /\ UNCHANGED <<cursor, got>>
     \/ /\ Len(got) >= MaxExpansions
        /\ Finish(got, "expansion_cap") /\ UNCHANGED <<cursor, got>>
     \/ /\ Len(got) < MaxExpansions /\ cursor = <<>>
        /\ Finish(got, None) /\ UNCHANGED <<cursor, got>>
     \/ /\ Len(got) < MaxExpansions /\ cursor # <<>>
        /\ cursor' = Tail(cursor) /\ got' = Append(got, cursor[1])
        /\ IF Len(got') > EffectiveLimit(query)
           THEN Finish(Upto(EffectiveLimit(query), got'), "row_cap")
           ELSE UNCHANGED <<pulling, pulled>>
  /\ UNCHANGED <<query, store, interpreter>>

\* A read of a remote store that does not come back: of the driver's thread,
Hang ==
  /\ pulling = "running" /\ pulling' = "hung"
  /\ UNCHANGED <<query, store, interpreter, cursor, got, pulled>>

\* or of the interpreter, which nothing waits for with a timeout.
ReadHangs ==
  /\ phase \in {"match", "rows"} /\ phase' = "stuck"
  /\ UNCHANGED <<query, store, pattern, waiting, bindings, stopped, table, driver>>

\* asyncio.wait_for, some time after the deadline: GuardrailError.
\* Mistake: only the loop looks at the clock.
WaitForEver == FALSE /\ UNCHANGED queryVars
HardTimeout ==
  /\ pulling = "hung" /\ pulling' = "failed"
  /\ UNCHANGED <<query, store, interpreter, cursor, got, pulled>>

InterpreterStep == Validate \/ ExtendBinding \/ NextPattern \/ Interpret
DriverStep == Run \/ Pull \/ HardTimeout
QueryNext == InterpreterStep \/ DriverStep \/ Hang \/ ReadHangs

\* A coroutine or a thread whose read has come back runs on; a read need not come back, and
\* after one that has not no step is there to be fair to, the timer of wait_for apart.
Fairness == WF_queryVars(InterpreterStep) /\ WF_queryVars(Run \/ Pull) /\ WF_queryVars(HardTimeout)
QuerySpec == QueryInit /\ [][QueryNext]_queryVars /\ Fairness

(***************************************************************************)
(* Properties.                                                             *)
(***************************************************************************)
\* Types of every variable.
QueryTypeOK ==
  /\ phase \in {"validate", "match", "rows", "answered", "refused", "crashed", "stuck", "compiled"}
  /\ pattern \in 1..Len(query.match)
  /\ Cardinality(bindings) <= MaxExpansions
  /\ stopped \in {None, "timeout", "expansion_cap"}
  /\ \A t \in {table, pulled} : t.reason \in {None, "timeout", "expansion_cap", "row_cap"}
  /\ pulling \in {"idle", "off", "running", "hung", "answered", "failed"}

Copies(rows, r) == Cardinality({i \in DOMAIN rows : rows[i] = r})
Among(some, all) == \A r \in ToSet(some) : Copies(some, r) <= Copies(all, r)

\* What the interpreter computes without a bound.
InterpretedMatches ==
  LET all == Max({Asked, Cardinality(Nodes(store))})
  IN Filtered(query, store, MatchAll(query, store, all), all)
InterpretedRows == RowsOf(query, store, InterpretedMatches)

\* "No silent caps": an answer that names no bound holds every row that was asked for.
NothingLeftOutSilently ==
  /\ phase = "answered" /\ table.reason = None =>
       Len(table.rows) = Len(Skipped(query, InterpretedRows))
  /\ pulling = "answered" /\ pulled.reason = None =>
       Len(pulled.rows) = Len(Skipped(query, CypherRows(query, store)))

\* A partial answer holds only rows of the full one, and no more than the caller and the
\* server allow: stopped in its only pattern, the interpreter still applies the condition;
\* the driver stops in rows that are final.
WithinLimit(t) == Len(t.rows) <= MaxRows /\ (query.limit # None => Len(t.rows) <= query.limit)
PartialRowsAreRows ==
  /\ WithinLimit(table) /\ WithinLimit(pulled)
  /\ phase = "answered" /\ ~Counts(query) /\ Len(query.match) = 1 => Among(table.rows, InterpretedRows)
  /\ pulling = "answered" => Among(pulled.rows, CypherRows(query, store))

\* What the fragment leaves out is where the two ways differ: a label or a property on a variable
\* that is declared elsewhere, in MATCH or in an earlier pattern; a condition on a variable that
\* no node of MATCH carries, and a variable of a rel; a comparison with NULL, and the negation of
\* an unknown; an edge that two rels would share; the number of matches over parallel edges or
\* longer ways (which a DISTINCT answer without a count does not tell apart); and a count of
\* nothing.
NegatesKnown ==
  (\E n \in Nodes(store) : store.val[n] = Null) =>
    \A e \in WhereParts(query) : e.op = "not" => query.where[e.arg].op = "exists"
OneWay(rel) ==
  \/ rel.min = 1 /\ rel.max = 1 /\ rel.kind # None /\ rel.dir # "both"
  \/ query.distinct /\ ~Counts(query) /\ rel.min = 1 /\ rel.dir # "both"
RelPlaces(match) == UNION {{i} \X DOMAIN match[i].rels : i \in DOMAIN match}
EdgesApart(match) ==
  \A a, b \in RelPlaces(match) :
    LET kind(x) == match[x[1]].rels[x[2]].kind
    IN a # b => None \notin {kind(a), kind(b)} /\ kind(a) # kind(b)
Portable ==
  /\ CompiledMatch(query) = query.match /\ CompiledWhere(query) = query.where /\ InMatch(query)
  /\ NegatesKnown
  /\ \A e \in WhereParts(query) : /\ e.op \in {"=", "<>"} => e.rhs # Null
                                  /\ e.op = "in" => Null \notin e.among
  /\ \A p \in AllPatterns(query) : /\ \A n \in ToSet(p.nodes) : n.val # Null
                                   /\ \A rel \in ToSet(p.rels) : rel.var = None /\ OneWay(rel)
  /\ store.once => EdgesApart(query.match) /\ \A p \in WherePatterns(query) : EdgesApart(<<p>>)
  /\ \A e, f \in store.edges : <<e.src, e.dst, e.kind>> = <<f.src, f.dst, f.kind>> => e = f
  /\ Keyless(query) => InterpretedMatches # {}

\* On that fragment the two ways give the same rows, as often: the interpreter's breadth-first
\* closure reaches what the engine's trails reach, cycles back to their start included.
WaysAgree ==
  phase = "answered" /\ stopped = None /\ Portable =>
    LET i == InterpretedRows c == CypherRows(query, store) IN Among(i, c) /\ Among(c, i)

\* A query ends, in an answer, a refusal or an error: by the driver also when a fetch hangs, and
\* by the interpreter unless a read does.
Ended == phase \in {"answered", "refused", "crashed"} \/ pulling \in {"answered", "failed"} \/ ~InMatch(query)
EveryQueryEnds == <>(Ended \/ phase = "stuck")

(***************************************************************************)
(* What is said of the program and is not so: see README.md.               *)
(***************************************************************************)
\* "a hung fetch raises GuardrailError instead of hanging forever", for SurrealDB too.
HungReadsEnd == <>Ended

\* "A query that survives here is safe to compile": a validated query never fails on a
\* variable that no binding carries.
SafeToRun == phase # "crashed"

\* A partial answer of the interpreter holds only rows of the full one.
EveryRowMatches ==
  phase = "answered" /\ ~Counts(query) => Among(table.rows, InterpretedRows)

\* "Identical results": the two ways agree on every query.
IdenticalResults ==
  phase = "answered" /\ Valid(query) =>
    LET i == InterpretedRows c == CypherRows(query, store) IN Among(i, c) /\ Among(c, i)
=============================================================================
