----------------------------- MODULE StoreProofs -----------------------------
(***************************************************************************)
(* What the stores keep.                                                   *)
(* The log: what it answers about the commits it was told of is so,        *)
(* whatever the order of commits, runs and backfills and wherever a        *)
(* backfill is killed, when backfills reach from the first indexed commit  *)
(* or before to the last one (SymbolHistory).                              *)
(* The graph: whatever the order of the passes, no fact is there twice and *)
(* what a pass drew beside a file outlives the writes about other files.   *)
(* The backends: whatever the order of their statements, each comes to     *)
(* hold what the passes wrote (StoreBackends).                             *)
(***************************************************************************)
EXTENDS SymbolHistory, StoreBackends, WellFoundedInduction, FiniteSetTheorems, TLAPS

Here(s, c) == past[c][s] # Absent

(***************************************************************************)
(* The invariant.                                                          *)
(***************************************************************************)
Types ==
  /\ past \in Seq([Symbols -> SUBSET Nat]) /\ HEAD >= 1
  /\ indexedAt \in 0..HEAD /\ cursor \in Nat /\ tornFrom \in Nat
  /\ indexed \subseteq observed /\ observed \subseteq 1..indexedAt
  /\ indexedAt # 0 => indexedAt \in indexed
  /\ log = [s \in Symbols |-> log[s]]
  /\ aggregates = [s \in Symbols |-> aggregates[s]]

\* A row says what its commit has, so no commit has two rows of a symbol.
Truthful ==
  \A s \in Symbols : \A r \in log[s] :
    /\ r = [event |-> r.event, at |-> r.at, second |-> FALSE]
    /\ r.at \in 1..indexedAt
    /\ r.event = IF Here(s, r.at) THEN "opened" ELSE "closed"

\* There is a row after commit a and not after c.
Told(s, a, c) == \E r \in log[s] : a < r.at /\ r.at <= c

\* The rows tell of every difference between any two of these commits, and of what the
\* first of them has.
Explained(commits) ==
  \A s \in Symbols : \A c \in commits :
    /\ Here(s, c) => Told(s, 0, c)
    /\ \A a \in commits : a < c /\ (Here(s, a) <=> ~Here(s, c)) => Told(s, a, c)

ReplayInv ==
  \/ job = NoJob
  \/ /\ job = [pc |-> job.pc, lo |-> job.lo, hi |-> job.hi, at |-> job.at]
     /\ job.pc \in {"baseline", "replay"}
     /\ job.hi \in indexed /\ job.lo \in 1..job.hi /\ job.at \in job.lo..job.hi
     /\ \A c \in observed : job.lo <= c
     /\ job.pc = "baseline" => job.at = job.lo
     /\ job.pc = "replay" => /\ tornFrom # 0 /\ tornFrom <= job.lo
                             /\ Explained(job.lo..job.at)

\* Rows at other commits are of a replay that is under way or was killed.
TornInv ==
  \A s \in Symbols : \A r \in log[s] :
    r.at \in observed \/ /\ tornFrom # 0 /\ tornFrom <= r.at
                         /\ job = NoJob \/ r.at <= job.hi

HistoryInv ==
  /\ Types /\ Truthful /\ Explained(observed) /\ ReplayInv /\ TornInv
  /\ \A c \in observed : c \in indexed \/ (cursor # 0 /\ cursor <= c)

\* What was mined reaches back to every run of the live index.
MinedInv ==
  /\ \A s \in Symbols : aggregates[s].last \in Nat
  /\ \A c \in indexed : \A s \in Present(indexedAt) :
       past[c][s] # past[indexedAt][s] /\ InPlace(s, c, indexedAt) => aggregates[s].last > c

(***************************************************************************)
(* Least and greatest.                                                     *)
(***************************************************************************)
LEMMA LeastNat ==
  ASSUME NEW S, S \subseteq Nat, S # {}
  PROVE  \E n \in S : \A m \in S : n <= m
<1> DEFINE R == OpToRel(<, Nat)
<1>1. PICK n \in S : \A m \in S : <<m, n>> \notin R
  BY NatLessThanWellFounded, WFMin, Zenon
<1>2. R = {p \in Nat \X Nat : p[1] < p[2]}
  BY DEF OpToRel
<1> HIDE DEF R
<1>3. \A m \in S : n <= m
  <2> SUFFICES ASSUME NEW m \in S, m < n PROVE FALSE
    OBVIOUS
  <2>1. PICK p : p = <<m, n>>
    OBVIOUS
  <2>2. p \in Nat \X Nat /\ p[1] < p[2]
    BY <2>1
  <2>3. p \in R
    BY <1>2, <2>2
  <2> QED BY <1>1, <2>1, <2>3
<1> QED BY <1>3

LEMMA MinIs ==
  ASSUME NEW S, S \subseteq Nat, S # {}
  PROVE  Min(S) \in S /\ \A m \in S : Min(S) <= m
BY LeastNat DEF Min

LEMMA MaxIs ==
  ASSUME NEW n \in Nat, NEW S, S \subseteq 0..n, S # {}
  PROVE  Max(S) \in S /\ \A m \in S : m <= Max(S)
<1> DEFINE Below == {n - m : m \in S}
<1>1. Below \subseteq Nat /\ Below # {}
  <2>1. \A m \in S : n - m \in Nat
    OBVIOUS
  <2> QED BY <2>1
<1>2. PICK b \in Below : \A m \in Below : b <= m
  <2> HIDE DEF Below
  <2> QED BY <1>1, LeastNat
<1>3. PICK x \in S : b = n - x
  OBVIOUS
<1>4. \A m \in S : x >= m
  <2> TAKE m \in S
  <2>1. n - m \in Below
    OBVIOUS
  <2>2. n - x <= n - m /\ n \in Nat /\ m \in Nat /\ x \in Nat
    BY <1>2, <1>3, <2>1
  <2> QED BY <2>2
<1>5. Max(S) \in S /\ \A m \in S : Max(S) >= m
  BY <1>4, Zenon DEF Max
<1>6. S \subseteq Nat
  OBVIOUS
<1> QED BY <1>5, <1>6

(***************************************************************************)
(* Reading the rows.                                                       *)
(***************************************************************************)
\* There is a last one of some rows, and it says what its commit has.
LEMMA LastIs ==
  ASSUME Types, Truthful, NEW s \in Symbols, NEW rows, rows \subseteq log[s], rows # {}
  PROVE  /\ LastRow(rows) \in rows
         /\ \A q \in rows : q.at <= LastRow(rows).at
<1> DEFINE Ats == {r.at : r \in rows}
<1>1. Ats \subseteq 0..indexedAt /\ Ats # {} /\ indexedAt \in Nat
  BY DEF Truthful, Types
<1>2. Max(Ats) \in Ats /\ \A m \in Ats : m <= Max(Ats)
  <2> HIDE DEF Ats
  <2> QED BY <1>1, MaxIs
<1>3. PICK r \in rows : r.at = Max(Ats)
  BY <1>2
<1>4. \A q \in rows : q.at <= r.at
  BY <1>2, <1>3
<1>5. \A q \in rows : q.second = FALSE /\ q.at \in Nat
  <2> TAKE q \in rows
  <2>1. q = [event |-> q.event, at |-> q.at, second |-> FALSE] /\ q.at \in 1..indexedAt
    BY DEF Truthful
  <2> QED BY <1>1, <2>1
<1>6. \A q \in rows : q.at < r.at \/ (q.at = r.at /\ (q.second => r.second))
  BY <1>4, <1>5
<1>7. LastRow(rows) \in rows
      /\ \A q \in rows : q.at < LastRow(rows).at \/ (q.at = LastRow(rows).at /\ (q.second => LastRow(rows).second))
  BY <1>6, Zenon DEF LastRow
<1> QED BY <1>5, <1>7

\* A row that nothing comes after up to commit c says what c has.
LEMMA LastSays ==
  ASSUME Types, Truthful, TornInv, Explained(observed), tornFrom = 0,
         NEW s \in Symbols, NEW c \in observed, NEW r \in log[s], r.at <= c,
         \A q \in log[s] : q.at <= c => q.at <= r.at
  PROVE  r.event = IF Here(s, c) THEN "opened" ELSE "closed"
<1>1. r.at \in observed /\ r.at \in Nat /\ c \in Nat
  BY DEF TornInv, Truthful, Types
<1>2. \A q \in log[s] : q.at \in Nat
  BY DEF Truthful
<1>3. ~Told(s, r.at, c)
  BY <1>1, <1>2 DEF Told
<1>4. Here(s, r.at) <=> Here(s, c)
  <2>1. CASE r.at = c
    BY <2>1
  <2>2. CASE r.at < c
    BY <1>1, <1>3, <2>2 DEF Explained
  <2> QED BY <1>1, <2>1, <2>2
<1> QED BY <1>4 DEF Truthful

LEMMA AliveIs == HistoryInv => AliveExact
<1> SUFFICES ASSUME HistoryInv, tornFrom = 0, NEW c \in observed, NEW s \in Symbols
             PROVE  AliveAt(log[s], c) <=> s \in Present(c)
  BY DEF AliveExact
<1> USE DEF HistoryInv
<1> DEFINE rows == UpTo(log[s], c)
           l == LastRow(rows)
<1>1. rows \subseteq log[s] /\ \A q \in log[s] : q \in rows <=> q.at <= c
  BY DEF UpTo
<1>2. s \in Present(c) <=> Here(s, c)
  BY DEF Present, Here
<1>3. CASE rows = {}
  <2>1. ~Told(s, 0, c)
    BY <1>1, <1>3 DEF Told
  <2>2. ~Here(s, c)
    BY <2>1 DEF Explained
  <2> QED BY <1>2, <1>3, <2>2 DEF AliveAt
<1>4. CASE rows # {}
  <2>1. l \in rows /\ \A q \in rows : q.at <= l.at
    <3> HIDE DEF rows
    <3> QED BY <1>1, <1>4, LastIs
  <2>2. l \in log[s] /\ l.at <= c /\ \A q \in log[s] : q.at <= c => q.at <= l.at
    BY <1>1, <2>1
  <2>3. l.event = IF Here(s, c) THEN "opened" ELSE "closed"
    <3> HIDE DEF l
    <3> QED BY <2>2, LastSays
  <2> QED BY <1>2, <1>4, <2>3 DEF AliveAt
<1> QED BY <1>3, <1>4

LEMMA IntroducedIs == HistoryInv => IntroducedExact
<1> SUFFICES ASSUME HistoryInv, tornFrom = 0, NEW d \in observed, NEW s \in Present(d)
             PROVE  /\ s \in Present(Introduced(s))
                    /\ Introduced(s) - 1 \in observed => s \notin Present(Introduced(s) - 1)
  BY DEF IntroducedExact
<1> USE DEF HistoryInv
<1> DEFINE Ats == {r.at : r \in OpenedRows(s)}
<1>1. s \in Symbols /\ \A c : s \in Present(c) <=> Here(s, c)
  BY DEF Present, Here
\* Where the symbol is, an opening is not after it.
<1>2. \A c \in observed : s \in Present(c) => \E r \in OpenedRows(s) : r.at <= c
  <2> SUFFICES ASSUME NEW c \in observed, s \in Present(c) PROVE \E r \in OpenedRows(s) : r.at <= c
    OBVIOUS
  <2> DEFINE rows == UpTo(log[s], c)
             l == LastRow(rows)
  <2>1. rows \subseteq log[s] /\ \A q \in log[s] : q \in rows <=> q.at <= c
    BY DEF UpTo
  <2>2. rows # {}
    BY <1>1, <2>1 DEF Explained, Told
  <2>3. l \in rows /\ \A q \in rows : q.at <= l.at
    <3> HIDE DEF rows
    <3> QED BY <1>1, <2>1, <2>2, LastIs
  <2>4. l \in log[s] /\ l.at <= c /\ \A q \in log[s] : q.at <= c => q.at <= l.at
    BY <2>1, <2>3
  <2>5. l.event = IF Here(s, c) THEN "opened" ELSE "closed"
    <3> HIDE DEF l
    <3> QED BY <1>1, <2>4, LastSays
  <2> QED BY <1>1, <2>4, <2>5 DEF OpenedRows
<1>3. Ats \subseteq Nat /\ Ats # {}
  BY <1>1, <1>2 DEF OpenedRows, Truthful
<1>4. Introduced(s) = Min(Ats)
  BY <1>3 DEF Introduced
<1>5. Min(Ats) \in Ats /\ \A m \in Ats : Min(Ats) <= m
  <2> HIDE DEF Ats
  <2> QED BY <1>3, MinIs
<1>6. PICK r \in OpenedRows(s) : r.at = Introduced(s)
  BY <1>4, <1>5
<1>7. Introduced(s) \in Nat /\ \A q \in OpenedRows(s) : Introduced(s) <= q.at /\ q.at \in Nat
  BY <1>3, <1>4, <1>5
<1>8. s \in Present(Introduced(s))
  BY <1>1, <1>6 DEF OpenedRows, Truthful
<1>9. Introduced(s) - 1 \in observed => s \notin Present(Introduced(s) - 1)
  BY <1>2, <1>7
<1> QED BY <1>8, <1>9

LEMMA ChangedIs == HistoryInv /\ MinedInv => ChangedSinceComplete
<1> SUFFICES ASSUME HistoryInv, MinedInv, tornFrom = 0, indexedAt = HEAD
             PROVE  /\ \A c \in observed : \A s \in Symbols :
                         (s \in Present(c)) # (s \in Present(HEAD)) =>
                           ChangeKind(s, c) = IF s \in Present(HEAD) THEN "opened" ELSE "closed"
                    /\ \A c \in indexed : \A s \in Present(HEAD) :
                         past[c][s] # past[HEAD][s] /\ InPlace(s, c, HEAD) =>
                           ChangeKind(s, c) \in {"opened", "modified"}
  BY DEF ChangedSinceComplete
<1> USE DEF HistoryInv
<1>0. HEAD \in observed /\ HEAD \in Nat /\ observed \subseteq Nat /\ indexed \subseteq observed
      /\ \A c \in observed : c <= HEAD
  BY DEF Types
<1>1. \A c : \A s \in Symbols : s \in Present(c) <=> Here(s, c)
  BY DEF Present, Here
<1>2. ASSUME NEW c \in observed, NEW s \in Symbols, RowsAfter(s, c) # {}
      PROVE  ChangeKind(s, c) = IF s \in Present(HEAD) THEN "opened" ELSE "closed"
  <2> DEFINE rows == RowsAfter(s, c)
             l == LastRow(rows)
  <2>1. rows \subseteq log[s] /\ rows # {} /\ \A q \in log[s] : q \in rows <=> q.at > c
    BY <1>2 DEF RowsAfter
  <2>2. l \in rows /\ \A q \in rows : q.at <= l.at
    <3> HIDE DEF rows
    <3> QED BY <2>1, LastIs
  <2>3. \A q \in log[s] : q.at \in Nat /\ q.at <= HEAD
    BY DEF Truthful, Types
  <2>4. l \in log[s] /\ l.at <= HEAD /\ \A q \in log[s] : q.at <= HEAD => q.at <= l.at
    BY <1>0, <2>1, <2>2, <2>3
  <2>5. l.event = IF Here(s, HEAD) THEN "opened" ELSE "closed"
    <3> HIDE DEF l
    <3> QED BY <1>0, <2>4, LastSays
  <2> QED BY <1>1, <1>2, <2>5 DEF ChangeKind
<1>3. ASSUME NEW c \in observed, NEW s \in Symbols, (s \in Present(c)) # (s \in Present(HEAD))
      PROVE  ChangeKind(s, c) = IF s \in Present(HEAD) THEN "opened" ELSE "closed"
  <2>1. c # HEAD /\ (Here(s, c) <=> ~Here(s, HEAD))
    BY <1>1, <1>3
  <2>2. Told(s, c, HEAD)
    BY <1>0, <2>1 DEF Explained
  <2>3. RowsAfter(s, c) # {}
    BY <2>2, <1>0 DEF Told, RowsAfter, Truthful
  <2> QED BY <1>2, <2>3
<1>4. ASSUME NEW c \in indexed, NEW s \in Present(HEAD), past[c][s] # past[HEAD][s], InPlace(s, c, HEAD)
      PROVE  ChangeKind(s, c) \in {"opened", "modified"}
  <2>1. s \in Symbols /\ c \in observed
    BY <1>0 DEF Present
  <2>2. CASE RowsAfter(s, c) # {}
    BY <1>2, <2>1, <2>2
  <2>3. CASE RowsAfter(s, c) = {}
    BY <1>4, <2>3 DEF ChangeKind, MinedInv
  <2> QED BY <2>2, <2>3
<1> QED BY <1>3, <1>4

(***************************************************************************)
(* Writing the rows.                                                       *)
(***************************************************************************)
\* A row is added unless it is there.
LEMMA RecordIs ==
  ASSUME NEW rows, NEW event, NEW at,
         \A r \in rows : r = [event |-> r.event, at |-> r.at, second |-> FALSE],
         \A r \in rows : r.at = at => r.event = event
  PROVE  Record(rows, event, at) = rows \union {[event |-> event, at |-> at, second |-> FALSE]}
<1>1. CASE \E r \in rows : r.event = event /\ r.at = at
  <2>1. PICK r \in rows : r.event = event /\ r.at = at
    BY <1>1
  <2>2. r = [event |-> event, at |-> at, second |-> FALSE]
    BY <2>1
  <2> QED BY <1>1, <2>2 DEF Record
<1>2. CASE ~\E r \in rows : r.event = event /\ r.at = at
  <2>1. (\E r \in rows : r.at = at) = FALSE
    BY <1>2
  <2> QED BY <1>2, <2>1 DEF Record
<1> QED BY <1>1, <1>2

\* What a run records at a commit is so, and the rows that were there stay.
LEMMA Writing ==
  ASSUME Types, Truthful, NEW opened, NEW closed, NEW c \in 1..HEAD,
         \A s \in Symbols : (s \in opened => Here(s, c)) /\ (s \in closed => ~Here(s, c)),
         log' = Recorded(log, opened, closed, c), past' = past,
         indexedAt' \in Nat, indexedAt' >= indexedAt, indexedAt' >= c
  PROVE  /\ Truthful' /\ log' = [s \in Symbols |-> log'[s]]
         /\ \A s \in Symbols : /\ log[s] \subseteq log'[s]
                               /\ \A r \in log'[s] : r \in log[s] \/ r.at = c
                               /\ s \in opened \union closed => \E r \in log'[s] : r.at = c
<1> DEFINE NewRow(s) == [event |-> IF Here(s, c) THEN "opened" ELSE "closed", at |-> c, second |-> FALSE]
<1>0. indexedAt \in Nat /\ c \in Nat /\ c >= 1
  BY DEF Types
<1>1. ASSUME NEW s \in Symbols
      PROVE  log'[s] = IF s \in opened \union closed THEN log[s] \union {NewRow(s)} ELSE log[s]
  <2>1. /\ \A r \in log[s] : r = [event |-> r.event, at |-> r.at, second |-> FALSE]
        /\ \A r \in log[s] : r.at = c => r.event = IF Here(s, c) THEN "opened" ELSE "closed"
    BY DEF Truthful
  <2>2. Record(log[s], IF Here(s, c) THEN "opened" ELSE "closed", c) = log[s] \union {NewRow(s)}
    BY <2>1, RecordIs
  <2> QED BY <2>2 DEF Recorded
<1>2. log' = [s \in Symbols |-> log'[s]]
  BY DEF Recorded
<1>3. Truthful'
  <2> SUFFICES ASSUME NEW s \in Symbols, NEW r \in log'[s]
               PROVE  /\ r = [event |-> r.event, at |-> r.at, second |-> FALSE]
                      /\ r.at \in 1..indexedAt'
                      /\ r.event = IF Here(s, r.at) THEN "opened" ELSE "closed"
    BY DEF Truthful, Here
  <2>1. CASE r \in log[s]
    BY <1>0, <2>1 DEF Truthful
  <2>2. CASE r \notin log[s]
    <3>1. r = NewRow(s)
      BY <1>1, <2>2
    <3> QED BY <1>0, <3>1
  <2> QED BY <2>1, <2>2
<1>4. ASSUME NEW s \in Symbols
      PROVE  /\ log[s] \subseteq log'[s]
             /\ \A r \in log'[s] : r \in log[s] \/ r.at = c
             /\ s \in opened \union closed => \E r \in log'[s] : r.at = c
  <2>1. NewRow(s).at = c
    OBVIOUS
  <2> HIDE DEF NewRow
  <2> QED BY <1>1, <2>1
<1> QED BY <1>2, <1>3, <1>4

\* More rows, and the same commits.
LEMMA StillExplained ==
  ASSUME NEW commits, Explained(commits), \A s \in Symbols : log[s] \subseteq log'[s], past' = past
  PROVE  Explained(commits)'
BY DEF Explained, Told, Here

(***************************************************************************)
(* Every step keeps the invariant.                                         *)
(***************************************************************************)
LEMMA HistoryInit == Init => HistoryInv /\ MinedInv
<1> SUFFICES ASSUME Init PROVE HistoryInv /\ MinedInv
  OBVIOUS
<1>1. Types
  <2>1. PICK t \in Trees : past = <<t>>
    BY DEF Init
  <2>2. past \in Seq([Symbols -> SUBSET Nat]) /\ HEAD = 1
    BY <2>1, HistoryAssumption DEF HEAD
  <2> QED BY <2>2 DEF Init, Types
<1>2. Truthful /\ Explained(observed) /\ ReplayInv /\ TornInv
  BY DEF Init, Truthful, Explained, ReplayInv, TornInv
<1> QED BY <1>1, <1>2 DEF Init, HistoryInv, MinedInv, NoAggregate

\* Where a symbol stood and stands is of the commits up to then.
LEMMA InPlaceIsPast ==
  ASSUME NEW s \in Symbols, NEW c \in Nat, c >= 1, NEW now \in Nat, c <= now,
         \A k \in 1..now : past'[k] = past[k]
  PROVE  InPlace(s, c, now)' <=> InPlace(s, c, now)
<1>1. \A k \in 1..now : \A f : Lines(k, f)' = Lines(k, f)
  BY DEF Lines
<1>2. now \in 1..now /\ \A k \in (c + 1)..now : k \in 1..now /\ k - 1 \in 1..now
  OBVIOUS
<1>3. Span(s, now)' = Span(s, now)
  BY <1>1, <1>2 DEF Span
<1> QED BY <1>1, <1>2, <1>3 DEF InPlace

\* A commit adds to the past.
LEMMA CommitKeeps ==
  ASSUME HistoryInv, Commit
  PROVE  HistoryInv' /\ (MinedInv => MinedInv')
<1> USE DEF HistoryInv
<1>1. PICK t \in Trees : past' = Append(past, t)
  BY DEF Commit
<1>2. HEAD' = HEAD + 1 /\ \A c \in 1..HEAD : past'[c] = past[c]
  BY <1>1 DEF HEAD, Types
<1>3. past' \in Seq([Symbols -> SUBSET Nat])
  BY <1>1, HistoryAssumption DEF Types
<1>4. UNCHANGED <<indexedAt, aggregates, log, cursor, job, observed, indexed, tornFrom>>
  BY DEF Commit, live
<1>5. 1..indexedAt \subseteq 1..HEAD /\ indexedAt \in Nat /\ HEAD \in Nat /\ 0..HEAD \subseteq 0..(HEAD + 1)
  <2>1. HEAD \in Nat /\ indexedAt \in Nat /\ indexedAt <= HEAD
    BY DEF Types, HEAD
  <2> QED BY <2>1
<1>6. \A c \in 1..indexedAt : \A s : Here(s, c)' <=> Here(s, c)
  BY <1>2, <1>5 DEF Here
<1>7. Types'
  BY <1>2, <1>3, <1>4, <1>5 DEF Types
<1>8. Truthful'
  BY <1>4, <1>6 DEF Truthful
<1>9. Explained(observed)'
  BY <1>4, <1>6 DEF Explained, Told, Types
<1>10. ReplayInv'
  <2>1. CASE job = NoJob
    BY <1>4, <2>1 DEF ReplayInv, NoJob
  <2>2. CASE job # NoJob
    <3>1. job.lo..job.at \subseteq 1..indexedAt
      BY <1>5, <2>2 DEF ReplayInv, Types
    <3>2. job.pc = "replay" => Explained(job.lo..job.at)'
      BY <1>4, <1>6, <2>2, <3>1 DEF ReplayInv, Explained, Told
    <3> QED BY <1>4, <2>2, <3>2 DEF ReplayInv, NoJob, Explained, Told, Here
  <2> QED BY <2>1, <2>2
<1>11. TornInv'
  BY <1>4 DEF TornInv, NoJob
<1>12. MinedInv => MinedInv'
  <2> SUFFICES ASSUME MinedInv PROVE MinedInv'
    OBVIOUS
  <2>1. \A c \in indexed : c \in 1..indexedAt /\ indexedAt \in 1..indexedAt
    BY <1>5 DEF Types
  <2>2. \A c \in indexed : past'[c] = past[c] /\ past'[indexedAt] = past[indexedAt]
    BY <1>2, <1>5, <2>1
  <2>3. \A s : s \in Present(indexedAt)' /\ indexed # {} => s \in Present(indexedAt)
    BY <1>4, <2>2 DEF Present
  <2>4. \A c \in indexed : \A s \in Symbols : InPlace(s, c, indexedAt)' => InPlace(s, c, indexedAt)
    <3>1. PICK now : now = indexedAt /\ \A k \in 1..now : past'[k] = past[k]
      BY <1>2, <1>5
    <3>2. ASSUME NEW c \in indexed, NEW s \in Symbols, InPlace(s, c, indexedAt)' PROVE InPlace(s, c, indexedAt)
      <4>1. c \in Nat /\ c >= 1 /\ c <= now /\ now \in Nat
        BY <1>5, <2>1, <3>1
      <4>2. InPlace(s, c, indexedAt)' <=> InPlace(s, c, now)'
        BY <1>4, <3>1 DEF InPlace, Span
      <4> QED BY <3>1, <3>2, <4>1, <4>2, InPlaceIsPast
    <3> QED BY <3>2
  <2> QED BY <1>4, <2>2, <2>3, <2>4 DEF MinedInv, Present
<1> QED BY <1>4, <1>7, <1>8, <1>9, <1>10, <1>11, <1>12

\* What a run over the difference of two commits opens and closes.
LEMMA BetweenIs ==
  ASSUME Types, NEW a \in 1..HEAD, NEW c \in 1..HEAD, NEW s \in Symbols
  PROVE  /\ s \in OpenedBetween(a, c) <=> Here(s, c) /\ ~Here(s, a)
         /\ s \in ClosedBetween(a, c) <=> Here(s, a) /\ ~Here(s, c)
<1>1. \A d : s \in Present(d) <=> Here(s, d)
  BY DEF Present, Here
<1>2. (Here(s, a) <=> ~Here(s, c)) => past[a][s] # past[c][s]
  BY DEF Here
<1>3. (Here(s, a) <=> ~Here(s, c)) => FileOf[s] \in TouchedFiles(a, c)
  BY <1>2 DEF TouchedFiles
<1> QED BY <1>1, <1>3 DEF OpenedBetween, ClosedBetween, BeforeIn, AfterIn

LEMMA IndexKeeps ==
  ASSUME HistoryInv, IndexHead
  PROVE  HistoryInv'
<1> USE DEF HistoryInv
<1> DEFINE opened == IF indexedAt = 0 THEN Present(HEAD) ELSE OpenedBetween(indexedAt, HEAD)
           closed == IF indexedAt = 0 THEN {} ELSE ClosedBetween(indexedAt, HEAD)
<1>1. /\ indexedAt # HEAD /\ indexedAt' = HEAD /\ log' = Recorded(log, opened, closed, HEAD)
      /\ observed' = observed \union {HEAD} /\ indexed' = indexed \union {HEAD}
      /\ UNCHANGED <<past, cursor, job, tornFrom>>
  BY DEF IndexHead
<1>2. HEAD \in Nat /\ HEAD >= 1 /\ indexedAt \in Nat /\ indexedAt < HEAD /\ HEAD' = HEAD
      /\ observed \subseteq 1..indexedAt /\ (indexedAt # 0 => indexedAt \in observed)
  BY <1>1 DEF Types, HEAD
<1>3. \A s \in Symbols : /\ s \in Present(HEAD) <=> Here(s, HEAD)
                         /\ s \in opened => Here(s, HEAD)
                         /\ s \in closed => ~Here(s, HEAD)
  BY <1>2, BetweenIs DEF Present, Here
<1>4. \A s \in Symbols : IF indexedAt = 0 THEN Here(s, HEAD) => s \in opened
                         ELSE (Here(s, indexedAt) <=> ~Here(s, HEAD)) => s \in opened \union closed
  BY <1>2, <1>3, BetweenIs
<1> HIDE DEF opened, closed
<1>5. /\ Truthful' /\ log' = [s \in Symbols |-> log'[s]]
      /\ \A s \in Symbols : /\ log[s] \subseteq log'[s]
                            /\ \A r \in log'[s] : r \in log[s] \/ r.at = HEAD
                            /\ s \in opened \union closed => \E r \in log'[s] : r.at = HEAD
  BY <1>1, <1>2, <1>3, Writing
<1>6. \A s \in Symbols : \A a, c : Told(s, a, c) => Told(s, a, c)'
  BY <1>5 DEF Told
<1>7. \A s, c : Here(s, c)' <=> Here(s, c)
  BY <1>1 DEF Here
<1>8. ASSUME NEW s \in Symbols, Here(s, HEAD) PROVE Told(s, 0, HEAD)'
  <2>1. CASE s \in opened \union closed
    BY <1>2, <1>5, <2>1 DEF Told
  <2>2. CASE s \notin opened \union closed
    <3>1. Here(s, indexedAt) /\ indexedAt \in observed
      BY <1>2, <1>4, <1>8, <2>2
    <3>2. Told(s, 0, indexedAt)
      BY <3>1 DEF Explained
    <3> QED BY <1>2, <1>6, <3>2 DEF Told, Truthful
  <2> QED BY <2>1, <2>2
<1>9. ASSUME NEW s \in Symbols, NEW a \in observed, Here(s, a) <=> ~Here(s, HEAD)
      PROVE  Told(s, a, HEAD)'
  <2>1. a \in Nat /\ a <= indexedAt /\ a < HEAD /\ indexedAt # 0 /\ indexedAt \in observed
    BY <1>2
  <2>2. CASE s \in opened \union closed
    BY <1>2, <1>5, <2>1, <2>2 DEF Told
  <2>3. CASE s \notin opened \union closed
    <3>1. (Here(s, a) <=> ~Here(s, indexedAt)) /\ a # indexedAt
      BY <1>4, <1>9, <2>1, <2>3
    <3>2. Told(s, a, indexedAt)
      BY <2>1, <3>1 DEF Explained
    <3>3. PICK r \in log[s] : a < r.at /\ r.at <= indexedAt
      BY <3>2 DEF Told
    <3>4. r \in log'[s] /\ a < r.at /\ r.at <= HEAD
      BY <1>2, <1>5, <3>3 DEF Truthful
    <3> QED BY <1>2, <3>4 DEF Told
  <2> QED BY <2>2, <2>3
<1>10. Explained(observed)'
  <2>1. ASSUME NEW s \in Symbols, NEW c \in observed' PROVE Here(s, c) => Told(s, 0, c)'
    <3>1. CASE c \in observed
      BY <1>6, <3>1 DEF Explained
    <3>2. CASE c = HEAD
      BY <1>2, <1>8, <3>2
    <3> QED BY <1>1, <3>1, <3>2
  <2>2. ASSUME NEW s \in Symbols, NEW c \in observed', NEW a \in observed', a < c, Here(s, a) <=> ~Here(s, c)
        PROVE  Told(s, a, c)'
    <3>1. a \in observed
      BY <1>1, <1>2, <2>2
    <3>2. CASE c \in observed
      BY <1>6, <2>2, <3>1, <3>2 DEF Explained
    <3>3. CASE c = HEAD
      BY <1>2, <1>9, <2>2, <3>1, <3>3
    <3> QED BY <1>1, <3>2, <3>3
  <2> QED BY <1>7, <2>1, <2>2 DEF Explained
<1>11. Types'
  BY <1>1, <1>2, <1>5 DEF Types, IndexHead, Mined, UpsertedAggregates
<1>12. ReplayInv'
  <2>1. CASE job = NoJob
    BY <1>1, <2>1 DEF ReplayInv, NoJob
  <2>2. CASE job # NoJob
    <3>1. job.lo <= HEAD
      BY <1>2, <2>2 DEF ReplayInv, Types
    <3>2. job.pc = "replay" => Explained(job.lo..job.at)'
      BY <1>1, <1>6, <1>7, <2>2 DEF ReplayInv, Explained
    <3> QED BY <1>1, <2>2, <3>1, <3>2 DEF ReplayInv, NoJob
  <2> QED BY <2>1, <2>2
<1>13. TornInv'
  BY <1>1, <1>5 DEF TornInv, NoJob
<1>14. \A c \in observed' : c \in indexed' \/ (cursor' # 0 /\ cursor' <= c)
  BY <1>1
<1> QED BY <1>5, <1>10, <1>11, <1>12, <1>13, <1>14

\* An aligned backfill ends at an indexed commit and starts before everything that was
\* observed: at the first commit of the live index or earlier, and before the last backfill.
LEMMA StartKeeps ==
  ASSUME HistoryInv, Aligned, NEW n \in Depths, StartBackfill(n)
  PROVE  HistoryInv'
<1> USE DEF HistoryInv
<1> DEFINE lo == OldestOf(n)
<1>1. /\ job = NoJob /\ indexedAt # 0 /\ indexedAt = HEAD /\ lo <= Min(indexed) /\ ~AlreadyCovered(lo)
      /\ job' = [pc |-> "baseline", lo |-> lo, hi |-> HEAD, at |-> lo]
      /\ UNCHANGED <<past, live, log, cursor, observed, indexed, tornFrom>>
  BY DEF StartBackfill, Skip
<1>2. HEAD \in indexed /\ HEAD \in Nat /\ HEAD >= 1 /\ indexed \subseteq Nat /\ indexed # {}
  BY <1>1 DEF Types, HEAD
<1>3. lo \in 1..HEAD
  BY <1>2, DepthsAssumption DEF OldestOf
<1> HIDE DEF lo
<1>4. \A c \in indexed : lo <= c
  <2>1. \A c \in indexed : Min(indexed) <= c /\ Min(indexed) \in Nat
    BY <1>2, MinIs
  <2> QED BY <1>1, <1>2, <1>3, <2>1
<1>5. \A c \in observed : lo <= c
  <2> TAKE c \in observed
  <2>1. CASE c \in indexed
    BY <1>4, <2>1
  <2>2. CASE cursor # 0 /\ cursor <= c
    <3>1. cursor \in Nat /\ c \in Nat /\ lo \in Nat /\ ~(cursor <= lo)
      BY <1>1, <1>3, <2>2 DEF AlreadyCovered, Types
    <3> QED BY <2>2, <3>1
  <2> QED BY <2>1, <2>2
<1>6. job'.pc = "baseline" /\ job'.lo = lo /\ job'.hi = HEAD /\ job'.at = lo
  BY <1>1
<1>7. ReplayInv'
  BY <1>1, <1>2, <1>3, <1>5, <1>6 DEF ReplayInv
<1>8. TornInv'
  BY <1>1, <1>6 DEF TornInv, Truthful, Types
<1>9. Types' /\ Truthful' /\ Explained(observed)'
  BY <1>1 DEF Types, Truthful, Explained, Told, Here, live, HEAD
<1> QED BY <1>1, <1>7, <1>8, <1>9

\* A replay writes at one commit; nothing else is known of the log.
LEMMA ReplayWrites ==
  ASSUME HistoryInv, job # NoJob, NEW c \in job.lo..job.hi, NEW opened, NEW closed,
         \A s \in Symbols : (s \in opened => Here(s, c)) /\ (s \in closed => ~Here(s, c)),
         log' = Recorded(log, opened, closed, c),
         UNCHANGED <<past, live, cursor, observed, indexed>>,
         tornFrom' \in Nat, tornFrom' # 0, tornFrom' <= job.lo, tornFrom # 0 => tornFrom' <= tornFrom,
         job' # NoJob, job'.hi = job.hi
  PROVE  /\ Types' /\ Truthful' /\ Explained(observed)' /\ TornInv'
         /\ \A d \in observed' : d \in indexed' \/ (cursor' # 0 /\ cursor' <= d)
         /\ \A s \in Symbols : /\ log[s] \subseteq log'[s]
                               /\ s \in opened \union closed => \E r \in log'[s] : r.at = c
<1> USE DEF HistoryInv
<1>1. job.hi \in Nat /\ job.hi >= 1 /\ job.hi <= indexedAt /\ indexedAt <= HEAD /\ indexedAt \in Nat
      /\ HEAD \in Nat /\ job.lo \in Nat /\ job.lo >= 1
  <2>1. HEAD \in Nat /\ indexedAt \in Nat /\ indexedAt <= HEAD
    BY DEF Types, HEAD
  <2>2. job.hi \in 1..indexedAt /\ job.lo \in 1..job.hi
    BY DEF ReplayInv, Types
  <2> QED BY <2>1, <2>2
<1>2. c \in 1..HEAD /\ indexedAt >= c /\ c <= job.hi /\ job.lo <= c
  BY <1>1
<1>3. indexedAt' = indexedAt /\ aggregates' = aggregates
  BY DEF live
<1>4. /\ Truthful' /\ log' = [s \in Symbols |-> log'[s]]
      /\ \A s \in Symbols : /\ log[s] \subseteq log'[s]
                            /\ \A r \in log'[s] : r \in log[s] \/ r.at = c
                            /\ s \in opened \union closed => \E r \in log'[s] : r.at = c
  BY <1>1, <1>2, <1>3, Writing
<1>5. Types'
  BY <1>3, <1>4 DEF Types, HEAD
<1>6. Explained(observed)'
  BY <1>4 DEF Explained, Told, Here
<1>7. TornInv'
  <2> SUFFICES ASSUME NEW s \in Symbols, NEW r \in log'[s], r.at \notin observed
               PROVE  tornFrom' <= r.at /\ r.at <= job.hi
    BY DEF TornInv
  <2>1. CASE r \in log[s]
    <3>1. tornFrom # 0 /\ tornFrom <= r.at /\ r.at <= job.hi /\ r.at \in Nat /\ tornFrom \in Nat
      BY <2>1 DEF TornInv, Truthful, Types
    <3> QED BY <3>1
  <2>2. CASE r.at = c
    BY <1>1, <1>2, <2>2
  <2> QED BY <1>4, <2>1, <2>2
<1> QED BY <1>4, <1>5, <1>6, <1>7

LEMMA BaselineKeeps ==
  ASSUME HistoryInv, Baseline
  PROVE  HistoryInv'
<1> USE DEF HistoryInv
<1>1. /\ job # NoJob /\ log' = Recorded(log, Present(job.lo), {}, job.lo) /\ job' = [job EXCEPT !.pc = "replay"]
      /\ tornFrom' = IF tornFrom = 0 \/ job.lo < tornFrom THEN job.lo ELSE tornFrom
      /\ UNCHANGED <<past, live, cursor, observed, indexed>> /\ job.pc = "baseline"
  BY DEF Baseline, NoJob
<1>2. PICK j : j = job /\ j = [pc |-> j.pc, lo |-> j.lo, hi |-> j.hi, at |-> j.at]
  BY <1>1 DEF ReplayInv
<1>3. /\ j.lo \in 1..j.hi /\ j.at = j.lo /\ j.hi \in Nat /\ j.hi \in indexed /\ j.lo \in Nat /\ j.lo >= 1
      /\ \A c \in observed : j.lo <= c
  BY <1>1, <1>2 DEF ReplayInv, Types
<1>4. /\ job' # NoJob /\ job'.pc = "replay" /\ job'.lo = j.lo /\ job'.hi = j.hi /\ job'.at = j.lo
      /\ job' = [pc |-> job'.pc, lo |-> job'.lo, hi |-> job'.hi, at |-> job'.at]
  <2>1. job' = [pc |-> "replay", lo |-> j.lo, hi |-> j.hi, at |-> j.at]
    BY <1>1, <1>2
  <2>2. job' # NoJob
    BY <2>1 DEF NoJob
  <2> QED BY <1>3, <2>1, <2>2
<1>5. /\ tornFrom' \in Nat /\ tornFrom' # 0 /\ tornFrom' <= j.lo
      /\ tornFrom # 0 => tornFrom' <= tornFrom
  BY <1>1, <1>2, <1>3 DEF Types
<1>6. \A s \in Symbols : s \in Present(j.lo) <=> Here(s, j.lo)
  BY DEF Present, Here
<1>7. /\ Types' /\ Truthful' /\ Explained(observed)' /\ TornInv'
      /\ \A d \in observed' : d \in indexed' \/ (cursor' # 0 /\ cursor' <= d)
      /\ \A s \in Symbols : s \in Present(j.lo) => \E r \in log'[s] : r.at = j.lo
  <2>1. j.lo \in job.lo..job.hi
    BY <1>2, <1>3
  <2> QED BY <1>1, <1>2, <1>4, <1>5, <1>6, <2>1, ReplayWrites
<1>8. \A s \in Symbols : Here(s, j.lo)' => Told(s, 0, j.lo)'
  BY <1>1, <1>3, <1>6, <1>7 DEF Told, Here
<1>9. Explained(job.lo..job.at)'
  <2>1. \A c : c \in j.lo..j.lo => c = j.lo
    BY <1>3
  <2> QED BY <1>3, <1>4, <1>8, <2>1 DEF Explained
<1>10. ReplayInv'
  BY <1>1, <1>3, <1>4, <1>5, <1>9 DEF ReplayInv
<1> QED BY <1>7, <1>10

LEMMA ReplayKeeps ==
  ASSUME HistoryInv, Replay
  PROVE  HistoryInv'
<1> USE DEF HistoryInv
<1>1. /\ job # NoJob /\ job.pc = "replay" /\ job.at < job.hi /\ job' = [job EXCEPT !.at = @ + 1]
      /\ log' = Recorded(log, OpenedBetween(job.at, job.at + 1), ClosedBetween(job.at, job.at + 1), job.at + 1)
      /\ UNCHANGED <<past, live, cursor, observed, indexed, tornFrom>>
  BY DEF Replay, LifecycleOnly, NoJob
<1>2. PICK j : j = job /\ j = [pc |-> j.pc, lo |-> j.lo, hi |-> j.hi, at |-> j.at]
  BY <1>1 DEF ReplayInv
<1>3. PICK c : c = j.at + 1
  OBVIOUS
<1>4. /\ j.lo \in Nat /\ j.hi \in Nat /\ j.at \in Nat /\ c \in Nat /\ 1 <= j.lo /\ j.lo <= j.at /\ j.at < c
      /\ c <= j.hi /\ j.hi <= HEAD /\ HEAD \in Nat /\ j.hi \in indexed
      /\ tornFrom \in Nat /\ tornFrom # 0 /\ tornFrom <= j.lo /\ \A d \in observed : j.lo <= d
  <2>1. j.hi \in 1..indexedAt /\ indexedAt <= HEAD /\ HEAD \in Nat /\ indexedAt \in Nat
    BY <1>1, <1>2 DEF ReplayInv, Types, HEAD
  <2>2. /\ j.lo \in 1..j.hi /\ j.at \in j.lo..j.hi /\ j.at < j.hi /\ j.hi \in indexed
        /\ tornFrom \in Nat /\ tornFrom # 0 /\ tornFrom <= j.lo /\ \A d \in observed : j.lo <= d
    BY <1>1, <1>2 DEF ReplayInv, Types
  <2> QED BY <1>3, <2>1, <2>2
<1>5. /\ job' # NoJob /\ job'.pc = "replay" /\ job'.lo = j.lo /\ job'.hi = j.hi /\ job'.at = c
      /\ job' = [pc |-> job'.pc, lo |-> job'.lo, hi |-> job'.hi, at |-> job'.at]
  <2>1. job' = [pc |-> "replay", lo |-> j.lo, hi |-> j.hi, at |-> c]
    BY <1>1, <1>2, <1>3
  <2>2. job' # NoJob
    BY <2>1 DEF NoJob
  <2> QED BY <2>1, <2>2
<1> DEFINE opened == OpenedBetween(j.at, c)
           closed == ClosedBetween(j.at, c)
<1>6. \A s \in Symbols : /\ s \in opened <=> Here(s, c) /\ ~Here(s, j.at)
                         /\ s \in closed <=> Here(s, j.at) /\ ~Here(s, c)
  <2>1. j.at \in 1..HEAD /\ c \in 1..HEAD
    BY <1>4
  <2> QED BY <2>1, BetweenIs
<1>7. log' = Recorded(log, opened, closed, c)
  BY <1>1, <1>2, <1>3
<1> HIDE DEF opened, closed
<1>8. /\ Types' /\ Truthful' /\ Explained(observed)' /\ TornInv'
      /\ \A d \in observed' : d \in indexed' \/ (cursor' # 0 /\ cursor' <= d)
      /\ \A s \in Symbols : /\ log[s] \subseteq log'[s]
                            /\ s \in opened \union closed => \E r \in log'[s] : r.at = c
  <2>1. c \in job.lo..job.hi
    BY <1>2, <1>4
  <2> QED BY <1>1, <1>2, <1>4, <1>5, <1>6, <1>7, <2>1, ReplayWrites
<1>9. Explained(j.lo..j.at) /\ \A s, d : Here(s, d)' <=> Here(s, d)
  BY <1>1, <1>2 DEF ReplayInv, Here
<1>10. \A s \in Symbols : \A a \in Nat : \A d : Told(s, a, d) => Told(s, a, d)' /\ \A r \in log[s] : r.at \in Nat
  BY <1>8 DEF Told, Truthful
<1>11. ASSUME NEW s \in Symbols, Here(s, c) PROVE Told(s, 0, c)'
  <2>1. CASE s \in opened \union closed
    BY <1>4, <1>8, <2>1 DEF Told
  <2>2. CASE s \notin opened \union closed
    <3>1. Here(s, j.at) /\ j.at \in j.lo..j.at
      BY <1>4, <1>6, <1>11, <2>2
    <3>2. PICK r \in log[s] : 0 < r.at /\ r.at <= j.at
      BY <1>9, <3>1 DEF Explained, Told
    <3>3. r \in log'[s] /\ r.at \in Nat /\ r.at <= c
      BY <1>4, <1>8, <3>2 DEF Truthful
    <3> QED BY <3>2, <3>3 DEF Told
  <2> QED BY <2>1, <2>2
<1>12. ASSUME NEW s \in Symbols, NEW a \in j.lo..j.at, Here(s, a) <=> ~Here(s, c)
       PROVE  Told(s, a, c)'
  <2>1. a \in Nat /\ a <= j.at /\ j.at \in j.lo..j.at
    BY <1>4
  <2>2. CASE s \in opened \union closed
    BY <1>4, <1>8, <2>1, <2>2 DEF Told
  <2>3. CASE s \notin opened \union closed
    <3>1. (Here(s, a) <=> ~Here(s, j.at)) /\ a # j.at
      BY <1>6, <1>12, <2>3
    <3>2. PICK r \in log[s] : a < r.at /\ r.at <= j.at
      BY <1>4, <1>9, <2>1, <3>1 DEF Explained, Told
    <3>3. r \in log'[s] /\ r.at \in Nat /\ r.at <= c
      BY <1>4, <1>8, <3>2 DEF Truthful
    <3> QED BY <3>2, <3>3 DEF Told
  <2> QED BY <2>2, <2>3
<1>13. Explained(job.lo..job.at)'
  <2>1. \A d : d \in j.lo..c <=> d \in j.lo..j.at \/ d = c
    BY <1>3, <1>4
  <2>2. ASSUME NEW s \in Symbols, NEW d \in j.lo..c PROVE Here(s, d) => Told(s, 0, d)'
    <3>1. CASE d \in j.lo..j.at
      BY <1>9, <1>10, <3>1 DEF Explained
    <3>2. CASE d = c
      BY <1>11, <3>2
    <3> QED BY <2>1, <3>1, <3>2
  <2>3. ASSUME NEW s \in Symbols, NEW d \in j.lo..c, NEW a \in j.lo..c, a < d, Here(s, a) <=> ~Here(s, d)
        PROVE  Told(s, a, d)'
    <3>1. a \in j.lo..j.at /\ a \in Nat
      BY <1>3, <1>4, <2>3
    <3>2. CASE d \in j.lo..j.at
      BY <1>9, <1>10, <2>3, <3>1, <3>2 DEF Explained
    <3>3. CASE d = c
      BY <1>12, <2>3, <3>1, <3>3
    <3> QED BY <2>1, <3>2, <3>3
  <2> QED BY <1>5, <1>9, <2>2, <2>3 DEF Explained
<1>14. ReplayInv'
  <2>1. c \in j.lo..j.hi /\ j.lo \in 1..j.hi
    BY <1>4
  <2> QED BY <1>1, <1>4, <1>5, <1>13, <2>1 DEF ReplayInv
<1> QED BY <1>8, <1>14

\* What a finished replay tells fits with what was told before: it reaches from the first
\* observed commit, or before it, to an indexed one.
LEMMA CursorKeeps ==
  ASSUME HistoryInv, SetCursor
  PROVE  HistoryInv'
<1> USE DEF HistoryInv
<1>1. /\ job # NoJob /\ job.pc = "replay" /\ job.at = job.hi /\ job' = NoJob /\ cursor' = job.lo
      /\ observed' = observed \union (job.lo..job.hi)
      /\ tornFrom' = IF job.lo <= tornFrom THEN 0 ELSE tornFrom
      /\ UNCHANGED <<past, live, log, indexed>>
  BY DEF SetCursor, NoJob
<1>2. PICK lo, hi : lo = job.lo /\ hi = job.hi
  OBVIOUS
<1>3. /\ lo \in Nat /\ hi \in Nat /\ lo >= 1 /\ lo <= hi /\ hi \in observed /\ hi <= indexedAt /\ indexedAt \in Nat
      /\ observed \subseteq Nat /\ \A c \in observed : lo <= c /\ c >= 1 /\ c <= indexedAt
      /\ tornFrom \in Nat /\ tornFrom # 0 /\ tornFrom <= lo
      /\ Explained(lo..hi)
  <2>1. observed \subseteq 1..indexedAt /\ indexedAt \in Nat /\ tornFrom \in Nat /\ indexed \subseteq observed
    BY DEF Types
  <2>2. /\ hi \in indexed /\ lo \in 1..hi /\ \A c \in observed : lo <= c
        /\ tornFrom # 0 /\ tornFrom <= lo /\ Explained(lo..hi)
    BY <1>1, <1>2 DEF ReplayInv
  <2> QED BY <2>1, <2>2
<1>4. \A r \in UNION {log[s] : s \in Symbols} : r.at \in Nat
  BY DEF Truthful
<1>5. ASSUME NEW s \in Symbols, NEW c \in observed', NEW a \in observed', a < c, Here(s, a) <=> ~Here(s, c)
      PROVE  Told(s, a, c)
  <2>1. a \in Nat /\ c \in Nat /\ lo <= a /\ lo <= c
    BY <1>1, <1>2, <1>3
  <2>2. CASE c <= hi
    <3>1. a \in lo..hi /\ c \in lo..hi
      BY <1>3, <1>5, <2>1, <2>2
    <3> QED BY <1>3, <1>5, <3>1 DEF Explained
  <2>3. CASE c > hi
    <3>1. c \in observed
      BY <1>1, <1>2, <1>3, <2>1, <2>3
    <3>2. CASE a \in observed
      BY <1>5, <3>1, <3>2 DEF Explained
    <3>3. CASE a \in lo..hi
      <4>1. hi \in lo..hi /\ a <= hi
        BY <1>3, <3>3
      <4>2. CASE Here(s, a) <=> ~Here(s, hi)
        <5>1. a # hi /\ a < hi
          BY <2>1, <1>3, <4>1, <4>2
        <5>2. PICK r \in log[s] : a < r.at /\ r.at <= hi
          BY <1>3, <3>3, <4>1, <4>2, <5>1 DEF Explained, Told
        <5>3. r.at <= c
          BY <1>3, <1>4, <2>1, <2>3, <5>2
        <5> QED BY <5>2, <5>3 DEF Told
      <4>3. CASE Here(s, hi) <=> ~Here(s, c)
        <5>1. PICK r \in log[s] : hi < r.at /\ r.at <= c
          BY <1>3, <2>3, <3>1, <4>3 DEF Explained, Told
        <5>2. a < r.at
          BY <1>3, <1>4, <2>1, <4>1, <5>1
        <5> QED BY <5>1, <5>2 DEF Told
      <4> QED BY <1>5, <4>2, <4>3
    <3> QED BY <1>1, <1>2, <3>2, <3>3
  <2> QED BY <1>3, <2>1, <2>2, <2>3
<1>6. \A s \in Symbols : \A c \in observed' : Here(s, c) => Told(s, 0, c)
  BY <1>1, <1>2, <1>3 DEF Explained
<1>7. Explained(observed)'
  <2>1. \A s, a, c : (Here(s, c)' <=> Here(s, c)) /\ (Told(s, a, c)' <=> Told(s, a, c))
    BY <1>1 DEF Here, Told
  <2> QED BY <1>5, <1>6, <2>1 DEF Explained
<1>8. Types'
  <2>1. lo..hi \subseteq 1..indexedAt /\ tornFrom' \in Nat
    BY <1>1, <1>2, <1>3
  <2> QED BY <1>1, <1>2, <1>3, <2>1 DEF Types, live, HEAD
<1>9. Truthful'
  BY <1>1 DEF Truthful, Here, live
<1>10. TornInv'
  <2> SUFFICES ASSUME NEW s \in Symbols, NEW r \in log[s], r.at \notin observed'
               PROVE  tornFrom' # 0 /\ tornFrom' <= r.at
    BY <1>1 DEF TornInv
  <2>1. tornFrom <= r.at /\ r.at <= hi /\ r.at \in Nat
    BY <1>1, <1>2, <1>4 DEF TornInv
  <2>2. ~(lo <= r.at)
    BY <1>1, <1>2, <1>3, <2>1
  <2> QED BY <1>1, <1>2, <1>3, <2>1, <2>2
<1>11. \A c \in observed' : c \in indexed' \/ (cursor' # 0 /\ cursor' <= c)
  BY <1>1, <1>2, <1>3
<1> QED BY <1>1, <1>7, <1>8, <1>9, <1>10, <1>11 DEF ReplayInv

LEMMA FailKeeps ==
  ASSUME HistoryInv, FailBackfill
  PROVE  HistoryInv'
<1> USE DEF HistoryInv
<1>1. /\ job # NoJob /\ job' = NoJob
      /\ UNCHANGED <<past, live, log, cursor, observed, indexed, tornFrom>>
  BY DEF FailBackfill
<1>2. TornInv'
  BY <1>1 DEF TornInv
<1>3. Types' /\ Truthful' /\ Explained(observed)'
  BY <1>1 DEF Types, Truthful, Explained, Told, Here, live, HEAD
<1> QED BY <1>1, <1>2, <1>3 DEF ReplayInv

LEMMA HistoryStep ==
  ASSUME Aligned, HistoryInv, [Next]_vars
  PROVE  HistoryInv'
<1>1. CASE Commit
  BY <1>1, CommitKeeps
<1>2. CASE IndexHead
  BY <1>2, IndexKeeps
<1>3. CASE \E n \in Depths : StartBackfill(n)
  BY <1>3, StartKeeps
<1>4. CASE Baseline
  BY <1>4, BaselineKeeps
<1>5. CASE Replay
  BY <1>5, ReplayKeeps
<1>6. CASE SetCursor
  BY <1>6, CursorKeeps
<1>7. CASE FailBackfill
  BY <1>7, FailKeeps
<1>8. CASE UNCHANGED vars
  BY <1>8 DEF vars, live, bounds, HistoryInv, Types, Truthful, Explained, Told, Here, ReplayInv, TornInv, NoJob, HEAD
<1> QED BY <1>1, <1>2, <1>3, <1>4, <1>5, <1>6, <1>7, <1>8 DEF Next

\* alive_at is exact (temporal/index.py): for every history, every run and backfill of it and
\* every kill, if backfills join the commits the live index ran at.
THEOREM AliveIsExact == ASSUME Aligned PROVE Spec => []AliveExact
<1>1. Init => HistoryInv
  BY HistoryInit
<1>2. HistoryInv /\ [Next]_vars => HistoryInv'
  BY HistoryStep
<1> QED BY <1>1, <1>2, AliveIs, PTL DEF Spec

\* history() names the commit a symbol came with, as far back as was observed.
THEOREM IntroductionsAreExact == ASSUME Aligned PROVE Spec => []IntroducedExact
<1>1. Init => HistoryInv
  BY HistoryInit
<1>2. HistoryInv /\ [Next]_vars => HistoryInv'
  BY HistoryStep
<1> QED BY <1>1, <1>2, IntroducedIs, PTL DEF Spec

(***************************************************************************)
(* Mining.                                                                 *)
(***************************************************************************)
\* Where the lines of two commits differ, the symbol stands where it was changed and the window
\* reaches back to the first, a hunk that is later than it falls on the symbol.
LEMMA HunkBetween ==
  ASSUME Types, NEW s \in Symbols, NEW now \in 1..HEAD, NEW c \in 1..now, Here(s, now),
         past[c][s] # past[now][s], InPlace(s, c, now), now <= Window
  PROVE  /\ HunksOf(s, now) \subseteq 0..now
         /\ \E h \in HunksOf(s, now) : c < h
<1> DEFINE Same == {h \in 1..now : c < h /\ \A k \in h..now : past[k][s] = past[now][s]}
<1>0. now \in Nat /\ c \in Nat /\ Window \in Nat /\ now >= 1 /\ c >= 1 /\ c < now
  <2>1. Window \in Nat
    BY HistoryAssumption
  <2>2. now \in Nat /\ now >= 1 /\ c \in Nat /\ c >= 1 /\ c <= now
    OBVIOUS
  <2>3. c # now
    BY Zenon
  <2> QED BY <2>1, <2>2, <2>3
<1>1. Same \subseteq Nat /\ now \in Same
  BY <1>0
<1>2. PICK h \in Same : \A g \in Same : h <= g
  <2> HIDE DEF Same
  <2> QED BY <1>1, LeastNat
<1>3. h \in 1..now /\ c < h /\ past[h][s] = past[now][s]
  BY <1>0
<1>4. past[h - 1][s] # past[h][s]
  <2>1. CASE h - 1 = c
    BY <1>3, <2>1
  <2>2. CASE h - 1 # c
    <3>1. h - 1 \in 1..now /\ c < h - 1 /\ h - 1 \notin Same
      BY <1>0, <1>2, <1>3, <2>2
    <3>2. PICK k \in (h - 1)..now : past[k][s] # past[now][s]
      BY <3>1
    <3>3. k \notin h..now
      BY <1>2, <3>2
    <3>4. k = h - 1
      BY <1>0, <1>3, <3>2, <3>3
    <3> QED BY <1>3, <3>2, <3>4
  <2> QED BY <2>1, <2>2
<1>5. h \in HunksOf(s, now)
  <2>1. h > now - Window
    BY <1>0, <1>3
  <2> DEFINE old == Lines(h - 1, FileOf[s])
             new == Lines(h, FileOf[s])
  <2>2. PICK l \in past[h][s] \ old : NumberOf(l, new) \in Span(s, now)
    BY <1>0, <1>3, <1>4 DEF InPlace
  <2>3. l \in new /\ l \notin old
    BY <1>0, <1>3, <2>2 DEF Lines
  <2> HIDE DEF old, new
  <2>4. l \in Changed(old, new) /\ l \in HunkOf(l, old, new) \intersect new
    BY <2>3 DEF HunkOf, Changed
  <2>5. NumberOf(l, new) \in NewNumbers(HunkOf(l, old, new), old, new)
    BY <2>4 DEF NewNumbers
  <2>6. Overlapping(s, now, old, new)
    BY <2>2, <2>4, <2>5 DEF Overlapping
  <2> QED BY <1>3, <2>1, <2>6 DEF HunksOf, old, new
<1>6. HunksOf(s, now) \subseteq 0..now
  BY <1>0 DEF HunksOf
<1> QED BY <1>3, <1>5, <1>6

LEMMA MinedStep ==
  ASSUME MaxCommits <= Window, HistoryInv, MinedInv, HEAD <= MaxCommits, [Next]_vars
  PROVE  MinedInv'
<1>1. CASE UNCHANGED <<past, live, indexed>>
  <2>1. past' = past /\ indexedAt' = indexedAt /\ aggregates' = aggregates /\ indexed' = indexed
    BY <1>1 DEF live
  <2>2. \A c, s : InPlace(s, c, indexedAt)' <=> InPlace(s, c, indexedAt)
    BY <2>1 DEF InPlace, Span, Lines
  <2>3. Present(indexedAt)' = Present(indexedAt)
    BY <2>1 DEF Present
  <2> QED BY <2>1, <2>2, <2>3 DEF MinedInv
<1>2. CASE Commit
  BY <1>2, CommitKeeps
<1>3. CASE IndexHead
  <2>1. PICK now : now = HEAD
    OBVIOUS
  <2>2. PICK files : aggregates' = UpsertedAggregates(Mined(files, now)) /\ (indexedAt = 0 \/ files = TouchedFiles(indexedAt, now))
    BY <1>3, <2>1 DEF IndexHead
  <2>3. /\ indexedAt' = now /\ indexed' = indexed \union {now} /\ past' = past /\ now \in 1..HEAD /\ now <= Window
        /\ now \in Nat /\ indexed \subseteq 1..now /\ (indexedAt = 0 => indexed = {})
        /\ indexedAt # 0 => indexedAt \in 1..now
    <3>1. HEAD \in Nat /\ HEAD >= 1 /\ indexedAt \in 0..HEAD /\ indexed \subseteq 1..indexedAt
      BY DEF HistoryInv, Types, HEAD
    <3>2. MaxCommits \in Nat /\ Window \in Nat
      BY HistoryAssumption
    <3> QED BY <1>3, <2>1, <3>1, <3>2 DEF IndexHead
  <2>4. \A s \in Symbols : HunksOf(s, now) # {} => Rollup(HunksOf(s, now)).last \in HunksOf(s, now)
                           /\ \A h \in HunksOf(s, now) : h <= Rollup(HunksOf(s, now)).last
    <3> TAKE s \in Symbols
    <3>1. HunksOf(s, now) \subseteq 0..now
      BY <2>3 DEF HunksOf
    <3>2. Rollup(HunksOf(s, now)).last = Max(HunksOf(s, now))
      BY DEF Rollup
    <3> QED BY <2>3, <3>1, <3>2, MaxIs
  <2>5. \A s \in Symbols : aggregates'[s] \in {aggregates[s], Rollup(HunksOf(s, now))}
                           /\ (aggregates'[s] # aggregates[s] => HunksOf(s, now) # {})
    BY <2>2 DEF Mined, UpsertedAggregates
  <2>6. \A s \in Symbols : aggregates'[s].last \in Nat
    <3> TAKE s \in Symbols
    <3>1. HunksOf(s, now) \subseteq Nat
      BY <2>3 DEF HunksOf
    <3> QED BY <2>4, <2>5, <3>1 DEF MinedInv
  <2>7. ASSUME NEW c \in indexed', NEW s \in Present(now), past[c][s] # past[now][s], InPlace(s, c, now)
        PROVE  aggregates'[s].last > c
    <3>1. s \in Symbols /\ Here(s, now) /\ c \in indexed /\ c \in 1..now /\ indexedAt # 0
      BY <2>3, <2>7 DEF Present, Here
    <3>2. CASE FileOf[s] \in files
      <4>1. PICK h \in HunksOf(s, now) : c < h /\ h \in Nat
        <5>1. HunksOf(s, now) \subseteq 0..now /\ \E h \in HunksOf(s, now) : c < h
          BY <2>3, <2>7, <3>1, HunkBetween DEF HistoryInv
        <5> QED BY <2>3, <5>1
      <4>2. aggregates'[s] = Rollup(HunksOf(s, now))
        BY <2>2, <2>7, <3>1, <3>2, <4>1 DEF Mined, UpsertedAggregates
      <4>3. c \in Nat /\ h <= aggregates'[s].last
        BY <2>4, <3>1, <4>1, <4>2
      <4> QED BY <2>6, <3>1, <4>1, <4>3
    <3>3. CASE FileOf[s] \notin files
      <4>1. past[indexedAt][s] = past[now][s]
        BY <2>2, <3>1, <3>3 DEF TouchedFiles
      <4>2. s \in Present(indexedAt)
        BY <3>1, <4>1 DEF Present, Here
      <4>3. aggregates'[s] = aggregates[s]
        BY <2>2, <3>1, <3>3 DEF Mined, UpsertedAggregates
      <4>4. Span(s, indexedAt) = Span(s, now)
        <5>1. \A t \in Symbols : FileOf[t] = FileOf[s] => past[indexedAt][t] = past[now][t]
          BY <2>2, <3>1, <3>3 DEF TouchedFiles
        <5>2. indexedAt # 0 /\ now # 0
          BY <2>3, <3>1
        <5>3. Lines(indexedAt, FileOf[s]) = Lines(now, FileOf[s])
          BY <5>1, <5>2 DEF Lines
        <5> QED BY <4>1, <5>3 DEF Span
      <4>5. InPlace(s, c, indexedAt)
        BY <2>3, <2>7, <3>1, <4>4 DEF InPlace
      <4> QED BY <2>7, <3>1, <4>1, <4>2, <4>3, <4>5 DEF MinedInv
    <3> QED BY <3>2, <3>3
  <2>8. \A c \in indexed' : \A s \in Symbols : InPlace(s, c, indexedAt)' <=> InPlace(s, c, now)
    BY <2>3 DEF InPlace, Span, Lines
  <2> QED BY <2>3, <2>6, <2>7, <2>8 DEF MinedInv, Present
<1>4. CASE \/ (\E n \in Depths : StartBackfill(n)) \/ Baseline \/ Replay \/ SetCursor \/ FailBackfill
           \/ UNCHANGED vars
  BY <1>1, <1>4 DEF StartBackfill, Baseline, Replay, SetCursor, FailBackfill, vars
<1> QED BY <1>2, <1>3, <1>4 DEF Next

\* changed_since tells everything there is to tell of what still stands where it was changed:
\* under the same condition, and if the mining window reaches over the whole history.
THEOREM ChangesAreComplete ==
  ASSUME Aligned, MaxCommits <= Window, MaxCommits >= 1
  PROVE  Spec => []ChangedSinceComplete
<1>1. Init => HistoryInv /\ MinedInv /\ HEAD <= MaxCommits
  <2> SUFFICES ASSUME Init PROVE HEAD <= MaxCommits
    BY HistoryInit
  <2>1. HEAD = 1
    BY DEF Init, HEAD
  <2> QED BY <2>1
<1>2. HistoryInv /\ MinedInv /\ HEAD <= MaxCommits /\ [Next]_vars => (HistoryInv /\ MinedInv /\ HEAD <= MaxCommits)'
  <2> SUFFICES ASSUME HistoryInv, MinedInv, HEAD <= MaxCommits, [Next]_vars
               PROVE  HistoryInv' /\ MinedInv' /\ HEAD' <= MaxCommits
    OBVIOUS
  <2>1. HEAD' <= MaxCommits
    <3>1. CASE Commit
      <4>1. HEAD < MaxCommits /\ HEAD' = HEAD + 1 /\ HEAD \in Nat
        BY <3>1 DEF Commit, HEAD, HistoryInv, Types
      <4> QED BY <4>1, HistoryAssumption
    <3>2. CASE UNCHANGED past
      BY <3>2 DEF HEAD
    <3> QED BY <3>1, <3>2 DEF Next, IndexHead, StartBackfill, Baseline, Replay, SetCursor, FailBackfill, vars
  <2> QED BY <2>1, HistoryStep, MinedStep
<1> QED BY <1>1, <1>2, ChangedIs, PTL DEF Spec

LEMMA AllNaturals ==
  ASSUME NEW A, 0 \in A, \A n \in Nat : n \in A => n + 1 \in A
  PROVE  Nat \subseteq A
<1> DEFINE Left == Nat \ A
           R == OpToRel(<, Nat)
<1>1. SUFFICES ASSUME Left # {} PROVE FALSE
  OBVIOUS
<1>2. PICK n \in Left : \A m \in Left : <<m, n>> \notin R
  <2>1. Left \subseteq Nat
    OBVIOUS
  <2> HIDE DEF Left, R
  <2>2. IsWellFoundedOn(R, Nat)
    BY NatLessThanWellFounded DEF R
  <2> QED BY <1>1, <2>1, <2>2, WFMin, Zenon
<1>3. n \in Nat /\ n # 0 /\ n - 1 \in Nat /\ (n - 1) + 1 = n
  OBVIOUS
<1>4. n - 1 \in Left
  BY <1>2, <1>3
<1>5. <<n - 1, n>> \in {p \in Nat \X Nat : p[1] < p[2]}
  BY <1>3
<1>6. <<n - 1, n>> \in R
  BY <1>5 DEF OpToRel
<1> QED BY <1>2, <1>4, <1>6

(***************************************************************************)
(* Statements one after the other.                                         *)
(***************************************************************************)
\* A database after each of some statements.
Trace(detach, db, sts, f) ==
  f = [n \in 0..Len(sts) |-> IF n = 0 THEN db ELSE Exec(detach, f[n - 1], sts[n])]

\* There is one, and it ends in what RunAll computes.
LEMMA TraceIs ==
  ASSUME NEW detach, NEW db, NEW sts, Len(sts) \in Nat
  PROVE  \E f : /\ DOMAIN f = 0..Len(sts) /\ f[0] = db
                /\ \A n \in 1..Len(sts) : f[n] = Exec(detach, f[n - 1], sts[n])
                /\ f[Len(sts)] = RunAll(detach, db, sts)
<1> DEFINE Partial(n, f) == f = [k \in 0..n |-> IF k = 0 THEN db ELSE Exec(detach, f[k - 1], sts[k])]
           Done == {n \in Nat : \E f : Partial(n, f)}
<1>1. 0 \in Done
  <2>1. Partial(0, [k \in 0..0 |-> db])
    OBVIOUS
  <2> QED BY <2>1
<1>2. ASSUME NEW n \in Nat, n \in Done PROVE n + 1 \in Done
  <2>1. PICK f : Partial(n, f)
    BY <1>2
  <2> DEFINE g == [k \in 0..(n + 1) |-> IF k = n + 1 THEN Exec(detach, f[n], sts[n + 1]) ELSE f[k]]
  <2>2. DOMAIN f = 0..n /\ \A k \in 0..n : f[k] = IF k = 0 THEN db ELSE Exec(detach, f[k - 1], sts[k])
    BY <2>1
  <2>3. \A k \in 0..(n + 1) : g[k] = IF k = n + 1 THEN Exec(detach, f[n], sts[n + 1]) ELSE f[k]
    OBVIOUS
  <2>4. ASSUME NEW k \in 0..(n + 1) PROVE g[k] = IF k = 0 THEN db ELSE Exec(detach, g[k - 1], sts[k])
    <3> HIDE DEF g, Partial
    <3>1. CASE k = 0
      <4>1. k \in 0..n /\ k # n + 1
        BY <3>1
      <4> QED BY <2>2, <2>3, <3>1, <4>1
    <3>2. CASE k = n + 1
      <4>1. k - 1 = n /\ g[n] = f[n] /\ k # 0
        BY <2>3, <3>2
      <4> QED BY <2>3, <3>2, <4>1
    <3>3. CASE k \in 1..n
      <4>1. g[k - 1] = f[k - 1] /\ g[k] = f[k] /\ k # 0 /\ k \in 0..n
        BY <2>3, <3>3
      <4> QED BY <2>2, <4>1
    <3> QED BY <3>1, <3>2, <3>3
  <2>5. g = [k \in 0..(n + 1) |-> IF k = 0 THEN db ELSE Exec(detach, g[k - 1], sts[k])]
    <3>1. g = [k \in 0..(n + 1) |-> g[k]]
      OBVIOUS
    <3> HIDE DEF g
    <3> QED BY <2>4, <3>1
  <2>6. Partial(n + 1, g)
    <3> HIDE DEF g
    <3> QED BY <2>5
  <2> HIDE DEF Partial, g
  <2> QED BY <2>6
<1>3. Len(sts) \in Done
  <2> HIDE DEF Done
  <2> QED BY <1>1, <1>2, AllNaturals
<1> DEFINE after == CHOOSE f : Trace(detach, db, sts, f)
<1>4. Trace(detach, db, sts, after)
  <2>1. PICK f : Partial(Len(sts), f)
    BY <1>3
  <2>2. Trace(detach, db, sts, f)
    BY <2>1 DEF Trace
  <2> QED BY <2>2, Zenon
<1>5. RunAll(detach, db, sts) = after[Len(sts)]
  BY Zenon DEF RunAll, Trace
<1> HIDE DEF after
<1>6. DOMAIN after = 0..Len(sts)
      /\ \A n \in 0..Len(sts) : after[n] = IF n = 0 THEN db ELSE Exec(detach, after[n - 1], sts[n])
  BY <1>4 DEF Trace
<1>7. 0 \in 0..Len(sts) /\ \A n \in 1..Len(sts) : n \in 0..Len(sts) /\ n # 0
  OBVIOUS
<1> QED BY <1>5, <1>6, <1>7

\* Traces of the same statements from the same database end alike.
LEMMA TraceEnds ==
  ASSUME NEW detach, NEW db, NEW sts, Len(sts) \in Nat, NEW f, f[0] = db,
         \A n \in 1..Len(sts) : f[n] = Exec(detach, f[n - 1], sts[n])
  PROVE  RunAll(detach, db, sts) = f[Len(sts)]
<1>1. PICK g : /\ g[0] = db /\ g[Len(sts)] = RunAll(detach, db, sts)
               /\ \A n \in 1..Len(sts) : g[n] = Exec(detach, g[n - 1], sts[n])
  BY TraceIs
<1> DEFINE Same == {n \in Nat : n <= Len(sts) => f[n] = g[n]}
<1>2. 0 \in Same
  BY <1>1
<1>3. ASSUME NEW n \in Nat, n \in Same PROVE n + 1 \in Same
  <2> SUFFICES ASSUME n + 1 <= Len(sts) PROVE f[n + 1] = g[n + 1]
    OBVIOUS
  <2>1. n + 1 \in 1..Len(sts) /\ (n + 1) - 1 = n /\ f[n] = g[n]
    BY <1>3
  <2> QED BY <1>1, <2>1
<1>4. Len(sts) \in Same
  <2> HIDE DEF Same
  <2> QED BY <1>2, <1>3, AllNaturals
<1> QED BY <1>1, <1>4

LEMMA RunNone == \A detach, db : RunAll(detach, db, <<>>) = db
<1> SUFFICES ASSUME NEW detach, NEW db PROVE RunAll(detach, db, <<>>) = db
  OBVIOUS
<1>1. Len(<<>>) = 0
  OBVIOUS
<1>2. \E f : f[0] = db /\ f[Len(<<>>)] = RunAll(detach, db, <<>>)
  BY <1>1, TraceIs
<1> QED BY <1>1, <1>2

\* A transaction is its first part and then its second.
LEMMA RunBoth ==
  ASSUME NEW detach, NEW db, NEW T, NEW U, NEW a \in Seq(T), NEW b \in Seq(U)
  PROVE  RunAll(detach, db, a \o b) = RunAll(detach, RunAll(detach, db, a), b)
<1>0. /\ Len(a) \in Nat /\ Len(b) \in Nat /\ Len(a \o b) = Len(a) + Len(b)
      /\ \A n \in 1..Len(a) : (a \o b)[n] = a[n]
      /\ \A n \in 1..Len(b) : (a \o b)[Len(a) + n] = b[n]
  OBVIOUS
<1>1. PICK f : /\ f[0] = db /\ f[Len(a)] = RunAll(detach, db, a)
               /\ \A n \in 1..Len(a) : f[n] = Exec(detach, f[n - 1], a[n])
  <2>1. Len(a) \in Nat
    BY <1>0
  <2> QED BY <2>1, TraceIs
<1>2. PICK g : /\ g[0] = f[Len(a)] /\ g[Len(b)] = RunAll(detach, f[Len(a)], b)
               /\ \A n \in 1..Len(b) : g[n] = Exec(detach, g[n - 1], b[n])
  <2>1. Len(b) \in Nat
    BY <1>0
  <2> QED BY <2>1, TraceIs
<1> DEFINE h == [n \in 0..Len(a \o b) |-> IF n <= Len(a) THEN f[n] ELSE g[n - Len(a)]]
<1>3. \A n \in 0..Len(a \o b) : h[n] = IF n <= Len(a) THEN f[n] ELSE g[n - Len(a)]
  OBVIOUS
<1> HIDE DEF h
<1>4. h[0] = db /\ h[Len(a \o b)] = g[Len(b)]
  <2>1. h[0] = db
    BY <1>0, <1>1, <1>3
  <2>2. CASE Len(b) = 0
    <3>1. Len(a \o b) = Len(a) /\ Len(a) \in 0..Len(a \o b)
      BY <1>0, <2>2
    <3> QED BY <1>2, <1>3, <2>1, <2>2, <3>1
  <2>3. CASE Len(b) # 0
    <3>1. Len(a \o b) \in 0..Len(a \o b) /\ ~(Len(a \o b) <= Len(a)) /\ Len(a \o b) - Len(a) = Len(b)
      BY <1>0, <2>3
    <3> QED BY <1>3, <2>1, <3>1
  <2> QED BY <2>2, <2>3
<1>5. ASSUME NEW n \in 1..Len(a \o b) PROVE h[n] = Exec(detach, h[n - 1], (a \o b)[n])
  <2>1. CASE n <= Len(a)
    <3>1. n \in 1..Len(a) /\ n \in 0..Len(a \o b) /\ n - 1 \in 0..Len(a \o b) /\ n - 1 <= Len(a)
      BY <1>0, <2>1
    <3> QED BY <1>0, <1>1, <1>3, <2>1, <3>1
  <2>2. CASE n = Len(a) + 1
    <3>1. n - Len(a) = 1 /\ 1 \in 1..Len(b) /\ 1 - 1 = 0 /\ ~(n <= Len(a)) /\ n - 1 = Len(a)
          /\ n \in 0..Len(a \o b) /\ n - 1 \in 0..Len(a \o b) /\ Len(a) <= Len(a) /\ n = Len(a) + 1
      BY <1>0, <2>2
    <3>2. h[n] = g[1] /\ h[n - 1] = f[Len(a)]
      BY <1>3, <3>1
    <3>3. g[1] = Exec(detach, g[0], b[1]) /\ (a \o b)[n] = b[1]
      BY <1>0, <1>2, <3>1
    <3> QED BY <1>2, <3>2, <3>3
  <2>3. CASE n > Len(a) + 1
    <3> DEFINE m == n - Len(a)
    <3>1. m \in 1..Len(b) /\ ~(n <= Len(a)) /\ ~(n - 1 <= Len(a)) /\ (n - 1) - Len(a) = m - 1
          /\ n \in 0..Len(a \o b) /\ n - 1 \in 0..Len(a \o b) /\ n = Len(a) + m
      BY <1>0, <2>3
    <3>2. h[n] = g[m] /\ h[n - 1] = g[m - 1]
      BY <1>3, <3>1
    <3> HIDE DEF m
    <3> QED BY <1>0, <1>2, <3>1, <3>2
  <2> QED BY <1>0, <2>1, <2>2, <2>3
<1>6. RunAll(detach, db, a \o b) = h[Len(a \o b)]
  <2>1. Len(a \o b) \in Nat /\ h[0] = db
    BY <1>0, <1>4
  <2>2. \A n \in 1..Len(a \o b) : h[n] = Exec(detach, h[n - 1], (a \o b)[n])
    BY <1>5
  <2> QED BY <2>1, <2>2, TraceEnds
<1> QED BY <1>1, <1>2, <1>4, <1>6

LEMMA RunOne == \A detach, db, st : RunAll(detach, db, <<st>>) = Exec(detach, db, st)
<1> SUFFICES ASSUME NEW detach, NEW db, NEW st PROVE RunAll(detach, db, <<st>>) = Exec(detach, db, st)
  OBVIOUS
<1> DEFINE s == <<st>>
<1>1. Len(s) \in Nat
  OBVIOUS
<1>2. Len(s) = 1 /\ s[1] = st
  OBVIOUS
<1> HIDE DEF s
<1>3. PICK f : /\ f[0] = db /\ f[Len(s)] = RunAll(detach, db, s)
               /\ \A n \in 1..Len(s) : f[n] = Exec(detach, f[n - 1], s[n])
  BY <1>1, TraceIs
<1>4. f[1] = Exec(detach, f[1 - 1], s[1])
  BY <1>2, <1>3
<1> QED BY <1>2, <1>3, <1>4 DEF s

LEMMA RunTwo ==
  \A detach, db, st, next : RunAll(detach, db, <<st, next>>) = Exec(detach, Exec(detach, db, st), next)
<1> SUFFICES ASSUME NEW detach, NEW db, NEW st, NEW next
             PROVE  RunAll(detach, db, <<st, next>>) = Exec(detach, Exec(detach, db, st), next)
  OBVIOUS
<1> DEFINE s == <<st, next>>
<1>1. Len(s) \in Nat
  OBVIOUS
<1>2. Len(s) = 2 /\ s[1] = st /\ s[2] = next
  OBVIOUS
<1> HIDE DEF s
<1>3. PICK f : /\ f[0] = db /\ f[Len(s)] = RunAll(detach, db, s)
               /\ \A n \in 1..Len(s) : f[n] = Exec(detach, f[n - 1], s[n])
  BY <1>1, TraceIs
<1>4. f[1] = Exec(detach, f[1 - 1], s[1]) /\ f[2] = Exec(detach, f[2 - 1], s[2])
  BY <1>2, <1>3
<1> QED BY <1>2, <1>3, <1>4 DEF s

\* What is left after the first statement goes on from there.
LEMMA RunRest ==
  ASSUME NEW detach, NEW db, NEW T, NEW sts \in Seq(T), sts # <<>>
  PROVE  RunAll(detach, Exec(detach, db, sts[1]), Tail(sts)) = RunAll(detach, db, sts)
<1> DEFINE a == <<sts[1]>>
           b == Tail(sts)
<1>1. a \in Seq(T) /\ b \in Seq(T)
  OBVIOUS
<1>2. sts = a \o b
  OBVIOUS
<1>3. RunAll(detach, db, a) = Exec(detach, db, sts[1])
  BY RunOne
<1> HIDE DEF a, b
<1>4. RunAll(detach, db, a \o b) = RunAll(detach, RunAll(detach, db, a), b)
  BY <1>1, RunBoth
<1> QED BY <1>2, <1>3, <1>4 DEF b

\* The elements of a finite set one after the other, each once.
LEMMA Listed ==
  ASSUME NEW S, IsFiniteSet(S)
  PROVE  LET s == SetToSeq(S)
         IN /\ s \in Seq(S) /\ Len(s) \in Nat
            /\ \A m, n \in 1..Len(s) : s[m] = s[n] => m = n
            /\ \A x \in S : \E n \in 1..Len(s) : s[n] = x
<1> DEFINE s == SetToSeq(S)
           I == 1..Cardinality(S)
<1>1. Cardinality(S) \in Nat /\ ExistsBijection(I, S)
  BY FS_CardinalityType
<1>2. \E f \in [I -> S] : IsInjective(f)
  BY <1>1 DEF ExistsBijection, Bijection, Injection
<1>3. s \in [I -> S] /\ IsInjective(s)
  BY <1>2 DEF SetToSeq
<1>4. IsFiniteSet(I) /\ Cardinality(I) = Cardinality(S)
  BY <1>1, FS_Interval
<1>5. s \in Injection(I, S)
  BY <1>3 DEF Injection
<1> HIDE DEF s, I
<1>6. s \in Surjection(I, S)
  BY <1>4, <1>5, FS_Injection
<1>7. s \in [I -> S] /\ \A x \in S : \E n \in I : s[n] = x
  BY <1>6 DEF Surjection
<1>8. s \in Seq(S) /\ Len(s) = Cardinality(S)
  BY <1>1, <1>7 DEF I
<1>9. \A m, n \in I : s[m] = s[n] => m = n
  BY <1>3 DEF IsInjective
<1> QED BY <1>1, <1>7, <1>8, <1>9 DEF s, I

LEMMA FiniteImage ==
  ASSUME NEW S, IsFiniteSet(S), NEW T, NEW f, f \in [S -> T], T = {f[x] : x \in S}
  PROVE  IsFiniteSet(T)
<1>1. f \in Surjection(S, T)
  BY DEF Surjection
<1> QED BY <1>1, FS_Surjection

(***************************************************************************)
(* What the statements of a write do to a database.                        *)
(***************************************************************************)
Origins == Paths \union {Shared, "missing"}
Rows == [origin : Origins, attrs : SUBSET {"parsed", "churn"}]
Db == [nodes : [Ids -> Rows], edges : [Links -> Nat]]

WithNodes(db, ids, row) == [nodes |-> [i \in Ids |-> IF i \in ids THEN row ELSE db.nodes[i]], edges |-> db.edges]
Matched(detach, db, l) == detach => {l.src, l.dst} \subseteq Existing(db)
WithLinks(detach, db, links) ==
  [nodes |-> db.nodes,
   edges |-> [l \in Links |-> IF l \in links /\ Matched(detach, db, l) THEN db.edges[l] + 1 ELSE db.edges[l]]]

MergeSts(ids, row) == {[do |-> "merge", id |-> i, row |-> row] : i \in ids}
CreateSts(links) == {[do |-> "create", link |-> l] : l \in links}

LEMMA MergesAre ==
  ASSUME NEW detach, NEW db \in Db, NEW ids \in SUBSET Ids, NEW origin, NEW attrs
  PROVE  /\ RunAll(detach, db, Merges(ids, origin, attrs)) = WithNodes(db, ids, Row(origin, attrs))
         /\ Merges(ids, origin, attrs) \in Seq(MergeSts(ids, Row(origin, attrs)))
<1> DEFINE row == Row(origin, attrs)
           St(i) == [do |-> "merge", id |-> i, row |-> row]
           S == {St(i) : i \in ids}
           sts == SetToSeq(S)
<1>1. IsFiniteSet(S)
  <2> DEFINE f == [i \in ids |-> St(i)]
  <2>1. IsFiniteSet(ids)
    BY FiniteAssumption, FS_Subset
  <2>2. f \in [ids -> S] /\ S = {f[i] : i \in ids}
    OBVIOUS
  <2> HIDE DEF f, S
  <2> QED BY <2>1, <2>2, FiniteImage
<1>2. /\ sts \in Seq(S) /\ Len(sts) \in Nat
      /\ \A x \in S : \E n \in 1..Len(sts) : sts[n] = x
  <2> HIDE DEF S
  <2> QED BY <1>1, Listed
<1>3. \A n \in 1..Len(sts) : sts[n] \in S
  <2> HIDE DEF S, sts
  <2> QED BY <1>2
<1>4. \A n \in 1..Len(sts) : sts[n].id \in ids /\ sts[n] = St(sts[n].id)
  <2> HIDE DEF sts
  <2> QED BY <1>3
<1>5. \A i \in ids : \E n \in 1..Len(sts) : sts[n].id = i
  <2> HIDE DEF sts
  <2>1. SUFFICES ASSUME NEW i \in ids PROVE \E n \in 1..Len(sts) : sts[n].id = i
    OBVIOUS
  <2>2. St(i) \in S /\ St(i).id = i
    OBVIOUS
  <2>3. PICK n \in 1..Len(sts) : sts[n] = St(i)
    BY <1>2, <2>2
  <2> QED BY <2>2, <2>3
<1> HIDE DEF sts
<1> DEFINE Of(n) == {sts[m].id : m \in 1..n}
           f == [n \in 0..Len(sts) |-> WithNodes(db, Of(n), row)]
<1>6. f[0] = db
  <2>1. Of(0) = {} /\ 0 \in 0..Len(sts)
    BY <1>2
  <2>2. f[0] = WithNodes(db, Of(0), row)
    BY <2>1
  <2>3. WithNodes(db, {}, row) = db
    BY DEF WithNodes, Db
  <2> QED BY <2>1, <2>2, <2>3
<1>7. ASSUME NEW n \in 1..Len(sts) PROVE f[n] = Exec(detach, f[n - 1], sts[n])
  <2>1. n \in 0..Len(sts) /\ n - 1 \in 0..Len(sts) /\ f[n] = WithNodes(db, Of(n), row) /\ f[n - 1] = WithNodes(db, Of(n - 1), row)
    BY <1>2
  <2>2. Of(n) = Of(n - 1) \union {sts[n].id} /\ sts[n].id \in Ids
    <3>1. 1..n = (1..(n - 1)) \union {n}
      BY <1>2
    <3> QED BY <1>4, <3>1
  <2>3. sts[n].do = "merge" /\ sts[n].row = row
    <3> HIDE DEF row
    <3>1. \A i : St(i).do = "merge" /\ St(i).row = row
      OBVIOUS
    <3> HIDE DEF St
    <3> QED BY <1>4, <3>1
  <2>4. Exec(detach, f[n - 1], sts[n]) = Merge(f[n - 1], sts[n].id, row)
    <3> HIDE DEF f, row
    <3> QED BY <2>3 DEF Exec
  <2> HIDE DEF f, Of, row
  <2>5. ASSUME NEW s, NEW i \in Ids PROVE Merge(WithNodes(db, s, row), i, row) = WithNodes(db, s \union {i}, row)
    <3> DEFINE a == WithNodes(db, s, row).nodes
               b == WithNodes(db, s \union {i}, row).nodes
    <3>1. [a EXCEPT ![i] = row] = b
      BY DEF WithNodes
    <3>2. Merge(WithNodes(db, s, row), i, row) = [nodes |-> [a EXCEPT ![i] = row], edges |-> db.edges]
      <4>1. WithNodes(db, s, row) = [nodes |-> a, edges |-> db.edges]
        BY DEF WithNodes
      <4> HIDE DEF a
      <4> QED BY <4>1 DEF Merge
    <3> QED BY <3>1, <3>2 DEF WithNodes
  <2> QED BY <2>1, <2>2, <2>4, <2>5
<1>8. Of(Len(sts)) = ids
  BY <1>4, <1>5
<1>9. RunAll(detach, db, sts) = f[Len(sts)]
  <2> HIDE DEF f
  <2>1. Len(sts) \in Nat
    BY <1>2
  <2> QED BY <1>6, <1>7, <2>1, TraceEnds
<1>10. f[Len(sts)] = WithNodes(db, ids, row)
  <2>1. Len(sts) \in 0..Len(sts)
    BY <1>2
  <2> HIDE DEF Of
  <2> QED BY <1>8, <2>1
<1> QED BY <1>2, <1>9, <1>10 DEF Merges, MergeSts, sts

LEMMA CreatesAre ==
  ASSUME NEW detach \in BOOLEAN, NEW db \in Db, NEW links \in SUBSET Links
  PROVE  /\ RunAll(detach, db, Creates(links)) = WithLinks(detach, db, links)
         /\ Creates(links) \in Seq(CreateSts(links))
<1> DEFINE St(l) == [do |-> "create", link |-> l]
           S == {St(l) : l \in links}
           sts == SetToSeq(S)
<1>1. IsFiniteSet(S)
  <2> DEFINE f == [l \in links |-> St(l)]
  <2>1. IsFiniteSet(links)
    BY FiniteAssumption, FS_Subset
  <2>2. f \in [links -> S] /\ S = {f[l] : l \in links}
    OBVIOUS
  <2> HIDE DEF f, S
  <2> QED BY <2>1, <2>2, FiniteImage
<1>2. /\ sts \in Seq(S) /\ Len(sts) \in Nat
      /\ \A m, n \in 1..Len(sts) : sts[m] = sts[n] => m = n
      /\ \A x \in S : \E n \in 1..Len(sts) : sts[n] = x
  <2> HIDE DEF S
  <2> QED BY <1>1, Listed
<1>3. \A n \in 1..Len(sts) : sts[n] \in S
  <2> HIDE DEF S, sts
  <2> QED BY <1>2
<1>4. \A n \in 1..Len(sts) : sts[n].link \in links /\ sts[n] = St(sts[n].link)
  <2> HIDE DEF sts
  <2> QED BY <1>3
<1>5. \A l \in links : \E n \in 1..Len(sts) : sts[n].link = l
  <2> HIDE DEF sts
  <2>1. SUFFICES ASSUME NEW l \in links PROVE \E n \in 1..Len(sts) : sts[n].link = l
    OBVIOUS
  <2>2. St(l) \in S /\ St(l).link = l
    OBVIOUS
  <2>3. PICK n \in 1..Len(sts) : sts[n] = St(l)
    BY <1>2, <2>2
  <2> QED BY <2>2, <2>3
<1>6. \A m, n \in 1..Len(sts) : sts[m].link = sts[n].link => m = n
  <2> HIDE DEF sts, St, S
  <2> QED BY <1>2, <1>4
<1> HIDE DEF sts
<1> DEFINE Of(n) == {sts[m].link : m \in 1..n}
           f == [n \in 0..Len(sts) |-> WithLinks(detach, db, Of(n))]
<1>7. f[0] = db
  <2>1. Of(0) = {} /\ 0 \in 0..Len(sts)
    BY <1>2
  <2>2. f[0] = WithLinks(detach, db, Of(0))
    BY <2>1
  <2>3. WithLinks(detach, db, {}) = db
    BY DEF WithLinks, Db
  <2> QED BY <2>1, <2>2, <2>3
<1>8. ASSUME NEW n \in 1..Len(sts) PROVE f[n] = Exec(detach, f[n - 1], sts[n])
  <2>1. /\ n \in 0..Len(sts) /\ n - 1 \in 0..Len(sts)
        /\ f[n] = WithLinks(detach, db, Of(n)) /\ f[n - 1] = WithLinks(detach, db, Of(n - 1))
    BY <1>2
  <2>2. Of(n) = Of(n - 1) \union {sts[n].link} /\ sts[n].link \in Links /\ sts[n].link \notin Of(n - 1)
    <3>1. 1..n = (1..(n - 1)) \union {n} /\ 1..(n - 1) \subseteq 1..Len(sts) /\ n \notin 1..(n - 1)
      BY <1>2
    <3>2. Of(n) = Of(n - 1) \union {sts[n].link}
      BY <3>1
    <3>3. ASSUME sts[n].link \in Of(n - 1) PROVE FALSE
      <4>1. PICK m \in 1..(n - 1) : sts[m].link = sts[n].link
        BY <3>3
      <4>2. m \in 1..Len(sts) /\ m # n
        BY <3>1
      <4> QED BY <1>6, <4>1, <4>2
    <3> QED BY <1>4, <3>2, <3>3
  <2>3. sts[n].do = "create"
    <3>1. \A l : St(l).do = "create"
      OBVIOUS
    <3> HIDE DEF St
    <3> QED BY <1>4, <3>1
  <2>4. Exec(detach, f[n - 1], sts[n]) = Create(detach, f[n - 1], sts[n].link)
    <3> HIDE DEF f
    <3> QED BY <2>3 DEF Exec
  <2> HIDE DEF f, Of
  <2>5. ASSUME NEW s, NEW l \in Links, l \notin s
        PROVE  Create(detach, WithLinks(detach, db, s), l) = WithLinks(detach, db, s \union {l})
    <3> DEFINE d == WithLinks(detach, db, s)
               a == d.edges
               b == WithLinks(detach, db, s \union {l}).edges
    <3>1. d = [nodes |-> db.nodes, edges |-> a] /\ d.nodes = db.nodes /\ Existing(d) = Existing(db)
      BY DEF WithLinks, Existing
    <3>2. WithLinks(detach, db, s \union {l}) = [nodes |-> db.nodes, edges |-> b]
      BY DEF WithLinks
    <3>3. b = IF Matched(detach, db, l) THEN [a EXCEPT ![l] = a[l] + 1] ELSE a
      <4>1. \A k \in Links : a[k] = IF k \in s /\ Matched(detach, db, k) THEN db.edges[k] + 1 ELSE db.edges[k]
        BY DEF WithLinks
      <4>2. b = [k \in Links |-> IF k \in s \union {l} /\ Matched(detach, db, k) THEN db.edges[k] + 1 ELSE db.edges[k]]
        BY DEF WithLinks
      <4>3. a = [k \in Links |-> a[k]]
        BY DEF WithLinks
      <4> HIDE DEF a, b
      <4>4. \A k \in Links : b[k] = IF k = l /\ Matched(detach, db, l) THEN a[k] + 1 ELSE a[k]
        BY <2>5, <4>1, <4>2
      <4>5. b = [k \in Links |-> b[k]]
        BY <4>2
      <4> QED BY <4>3, <4>4, <4>5
    <3> HIDE DEF d, a, b
    <3>4. Create(detach, d, l) = IF Matched(detach, db, l) THEN [d EXCEPT !.edges[l] = @ + 1] ELSE d
      BY <3>1 DEF Create, Matched
    <3>5. [d EXCEPT !.edges[l] = @ + 1] = [nodes |-> db.nodes, edges |-> [a EXCEPT ![l] = a[l] + 1]]
      BY <3>1
    <3>6. CASE Matched(detach, db, l)
      BY <3>2, <3>3, <3>4, <3>5, <3>6 DEF d
    <3>7. CASE ~Matched(detach, db, l)
      BY <3>1, <3>2, <3>3, <3>4, <3>7 DEF d
    <3> QED BY <3>6, <3>7
  <2> QED BY <2>1, <2>2, <2>4, <2>5
<1>9. Of(Len(sts)) = links
  BY <1>4, <1>5
<1>10. RunAll(detach, db, sts) = f[Len(sts)]
  <2> HIDE DEF f
  <2>1. Len(sts) \in Nat
    BY <1>2
  <2> QED BY <1>7, <1>8, <2>1, TraceEnds
<1>11. f[Len(sts)] = WithLinks(detach, db, links)
  <2>1. Len(sts) \in 0..Len(sts)
    BY <1>2
  <2> HIDE DEF Of
  <2> QED BY <1>9, <2>1
<1> QED BY <1>2, <1>10, <1>11 DEF Creates, CreateSts, sts

Touches(l, ids) == {l.src, l.dst} \intersect ids # {}

LEMMA Joined == ASSUME NEW T, NEW U, NEW a \in Seq(T), NEW b \in Seq(U) PROVE a \o b \in Seq(T \union U)
<1>1. Len(a) \in Nat /\ Len(b) \in Nat /\ a = [n \in 1..Len(a) |-> a[n]] /\ b = [n \in 1..Len(b) |-> b[n]]
  OBVIOUS
<1>2. a \in Seq(T \union U)
  <2>1. \A n \in 1..Len(a) : a[n] \in T \union U
    OBVIOUS
  <2> QED BY <1>1, <2>1
<1>3. b \in Seq(T \union U)
  <2>1. \A n \in 1..Len(b) : b[n] \in T \union U
    OBVIOUS
  <2> QED BY <1>1, <2>1
<1> QED BY <1>2, <1>3

\* Deleting nodes, or edges.
LEMMA NodesGo ==
  ASSUME NEW detach \in BOOLEAN, NEW db \in Db, NEW ids
  PROVE  WithoutNodes(detach, db, ids) =
           [nodes |-> [i \in Ids |-> IF i \in ids THEN Missing ELSE db.nodes[i]],
            edges |-> [l \in Links |-> IF detach /\ Touches(l, ids) THEN 0 ELSE db.edges[l]]]
<1> DEFINE nodes == [i \in Ids |-> IF i \in ids THEN Missing ELSE db.nodes[i]]
           rest == [nodes |-> nodes, edges |-> db.edges]
<1>1. [db EXCEPT !.nodes = nodes] = rest
  BY DEF Db
<1>2. db.edges = [l \in Links |-> db.edges[l]]
  BY DEF Db
<1>3. CASE detach
  <2>1. WithoutNodes(detach, db, ids) = WithoutEdges(rest, {l \in Links : Touches(l, ids)})
    BY <1>1, <1>3 DEF WithoutNodes, Touches
  <2> QED BY <1>3, <2>1 DEF WithoutEdges
<1>4. CASE ~detach
  <2>1. WithoutNodes(detach, db, ids) = rest
    BY <1>1, <1>4 DEF WithoutNodes
  <2> QED BY <1>2, <1>4, <2>1
<1> QED BY <1>3, <1>4

LEMMA EdgesGo ==
  ASSUME NEW db \in Db, NEW gone
  PROVE  WithoutEdges(db, gone) = [nodes |-> db.nodes, edges |-> [l \in Links |-> IF l \in gone THEN 0 ELSE db.edges[l]]]
BY DEF WithoutEdges, Db

LEMMA DbParts ==
  ASSUME NEW db \in Db, NEW nodes \in [Ids -> Rows], NEW edges \in [Links -> Nat]
  PROVE  [nodes |-> nodes, edges |-> edges] \in Db
BY DEF Db

\* An upsert of a file with edges between its own nodes.
Between(links, ids, p) == \A l \in links : {l.src, l.dst} \subseteq ids /\ l.origin = p
Upserted(d, detach, db, p, ids, links) ==
  LET gone == OwnedBy(db, p) \ ids
  IN /\ d \in Db
     /\ \A i \in Ids : d.nodes[i] = IF i \in ids THEN Row(p, {"parsed"})
                                    ELSE IF i \in gone THEN Missing ELSE db.nodes[i]
     /\ \A l \in Links : d.edges[l] = IF l \in links THEN 1
                                      ELSE IF l.origin = p \/ (detach /\ Touches(l, gone)) THEN 0
                                      ELSE db.edges[l]
LEMMA UpsertIs ==
  ASSUME NEW detach \in BOOLEAN, NEW db \in Db, NEW p \in Paths, p # "missing", NEW ids \in SUBSET Ids,
         NEW links \in SUBSET Links, Between(links, ids, p)
  PROVE  Upserted(RunAll(detach, db, Upsert(p, ids, {"parsed"}, links)), detach, db, p, ids, links)
<1> DEFINE d == RunAll(detach, db, Upsert(p, ids, {"parsed"}, links))
           gone == OwnedBy(db, p) \ ids
           row == Row(p, {"parsed"})
           a == Merges(ids, p, {"parsed"})
           v == [do |-> "vanished", path |-> p, keep |-> ids]
           w == [do |-> "disown", path |-> p]
           b == <<v, w>>
           c == Creates(links)
           da == WithNodes(db, ids, row)
           dv == Exec(detach, da, v)
           dw == Exec(detach, dv, w)
           nodes == [i \in Ids |-> IF i \in ids THEN row ELSE IF i \in gone THEN Missing ELSE db.nodes[i]]
           kept == [l \in Links |-> IF l.origin = p \/ (detach /\ Touches(l, gone)) THEN 0 ELSE db.edges[l]]
           edges == [l \in Links |-> IF l \in links THEN 1 ELSE kept[l]]
           TA == MergeSts(ids, row)
           TC == CreateSts(links)
<1>1. a \in Seq(TA) /\ RunAll(detach, db, a) = da
  BY MergesAre
<1>2. b \in Seq({v, w}) /\ \A e : RunAll(detach, e, b) = Exec(detach, Exec(detach, e, v), w)
  BY RunTwo
<1>3. row \in Rows /\ Missing \in Rows /\ row # Missing /\ row.origin = p
  BY DEF Row, Rows, Origins, Missing
<1>4. da \in Db /\ OwnedBy(da, p) \ ids = gone
  <2>1. da \in Db
    BY <1>3, DbParts DEF WithNodes, Db
  <2>2. \A i \in Ids : da.nodes[i] = IF i \in ids THEN row ELSE db.nodes[i]
    BY DEF WithNodes
  <2> HIDE DEF da, row
  <2> QED BY <2>1, <2>2 DEF OwnedBy
<1>5. \A e : Exec(detach, e, v) = WithoutNodes(detach, e, OwnedBy(e, p) \ ids)
  BY DEF Exec
<1>6. \A e : Exec(detach, e, w) = WithoutEdges(e, {l \in Links : l.origin = p})
  BY DEF Exec
<1>7. nodes \in [Ids -> Rows] /\ kept \in [Links -> Nat]
  BY <1>3 DEF Db
<1>8. dw = [nodes |-> nodes, edges |-> kept]
  <2> DEFINE some == [l \in Links |-> IF detach /\ Touches(l, gone) THEN 0 ELSE da.edges[l]]
             left == [i \in Ids |-> IF i \in gone THEN Missing ELSE da.nodes[i]]
  <2>1. dv = WithoutNodes(detach, da, gone)
    BY <1>4, <1>5
  <2> HIDE DEF da, dv, gone
  <2>2. dv = [nodes |-> left, edges |-> some]
    BY <1>4, <2>1, NodesGo
  <2>3. left = nodes
    BY DEF da, WithNodes, gone
  <2>4. some \in [Links -> Nat] /\ da.edges = db.edges
    BY <1>4 DEF Db, da, WithNodes
  <2> HIDE DEF left, some, nodes
  <2>5. dv \in Db
    BY <1>7, <2>2, <2>3, <2>4, DbParts
  <2>6. dw = [nodes |-> dv.nodes, edges |-> [l \in Links |-> IF l \in {k \in Links : k.origin = p} THEN 0 ELSE dv.edges[l]]]
    BY <1>6, <2>5, EdgesGo
  <2>7. [l \in Links |-> IF l \in {k \in Links : k.origin = p} THEN 0 ELSE some[l]] = kept
    BY <2>4 DEF some
  <2> QED BY <2>2, <2>3, <2>6, <2>7
<1> HIDE DEF nodes, kept, da, dv, dw, d
<1>9. dw \in Db
  BY <1>7, <1>8, DbParts
<1>10. c \in Seq(TC) /\ RunAll(detach, dw, c) = WithLinks(detach, dw, links)
  BY <1>9, CreatesAre
<1>11. d = RunAll(detach, dw, c)
  <2> DEFINE ab == a \o b
  <2>1. Upsert(p, ids, {"parsed"}, links) = ab \o c
    BY DEF Upsert
  <2> HIDE DEF a, b, c, v, w, row, TA, TC
  <2>2. ab \in Seq(TA \union {v, w})
    BY <1>1, <1>2, Joined
  <2>3. RunAll(detach, db, ab) = dw
    <3>1. RunAll(detach, db, ab) = RunAll(detach, RunAll(detach, db, a), b)
      BY <1>1, <1>2, RunBoth
    <3> QED BY <1>1, <1>2, <3>1 DEF dv, dw
  <2> HIDE DEF ab
  <2>4. RunAll(detach, db, ab \o c) = RunAll(detach, RunAll(detach, db, ab), c)
    BY <1>10, <2>2, RunBoth
  <2> QED BY <2>1, <2>3, <2>4 DEF d
<1>12. \A l \in links : Matched(detach, dw, l)
  BY <1>3, <1>8 DEF Matched, Existing, nodes, Between
<1>13. d.nodes = nodes /\ d.edges = edges
  <2>1. d.nodes = nodes /\ d.edges = [l \in Links |-> IF l \in links /\ Matched(detach, dw, l) THEN kept[l] + 1 ELSE kept[l]]
    BY <1>8, <1>10, <1>11 DEF WithLinks
  <2>2. \A l \in links : kept[l] = 0
    BY DEF kept, Between
  <2> QED BY <1>12, <2>1, <2>2
<1>14. d \in Db
  <2>1. edges \in [Links -> Nat]
    BY <1>7
  <2>2. d = [nodes |-> d.nodes, edges |-> d.edges]
    BY <1>10, <1>11 DEF WithLinks
  <2> QED BY <1>7, <1>13, <2>1, <2>2, DbParts
<1> QED BY <1>13, <1>14 DEF nodes, kept, d, Upserted

\* What a pass adds.
Added(d, detach, db, ids, links) ==
  /\ d \in Db
  /\ \A i \in Ids : d.nodes[i] = IF i \in ids THEN Row(Shared, {"parsed"}) ELSE db.nodes[i]
  /\ \A l \in Links : d.edges[l] =
       IF l \in links /\ (detach => {l.src, l.dst} \subseteq ids \union Existing(db))
       THEN db.edges[l] + 1 ELSE db.edges[l]
LEMMA AddIs ==
  ASSUME NEW detach \in BOOLEAN, NEW db \in Db, Shared # "missing", NEW ids \in SUBSET Ids, NEW links \in SUBSET Links
  PROVE  Added(RunAll(detach, db, Add(ids, {"parsed"}, links)), detach, db, ids, links)
<1> DEFINE d == RunAll(detach, db, Add(ids, {"parsed"}, links))
           row == Row(Shared, {"parsed"})
           a == Merges(ids, Shared, {"parsed"})
           c == Creates(links)
           da == WithNodes(db, ids, row)
           TA == MergeSts(ids, row)
           TC == CreateSts(links)
<1>1. a \in Seq(TA) /\ RunAll(detach, db, a) = da
  BY MergesAre
<1>2. row \in Rows /\ row # Missing
  BY DEF Row, Rows, Origins, Missing
<1>3. da.nodes \in [Ids -> Rows] /\ da.edges = db.edges /\ da = [nodes |-> da.nodes, edges |-> da.edges]
  BY <1>2 DEF WithNodes, Db
<1>4. da \in Db
  <2> HIDE DEF da
  <2>1. da.edges \in [Links -> Nat]
    BY <1>3 DEF Db
  <2> QED BY <1>3, <2>1, DbParts
<1>5. \A l \in Links : Matched(detach, da, l) <=> (detach => {l.src, l.dst} \subseteq ids \union Existing(db))
  <2>1. \A i \in Ids : da.nodes[i] = IF i \in ids THEN row ELSE db.nodes[i]
    BY DEF WithNodes
  <2>2. Existing(da) = ids \union Existing(db)
    <3> HIDE DEF da, row
    <3> QED BY <1>2, <2>1 DEF Existing
  <2> HIDE DEF da
  <2> QED BY <2>2 DEF Matched
<1>6. c \in Seq(TC) /\ RunAll(detach, da, c) = WithLinks(detach, da, links)
  <2> HIDE DEF da
  <2> QED BY <1>4, CreatesAre
<1>7. d = WithLinks(detach, da, links)
  <2>1. Add(ids, {"parsed"}, links) = a \o c
    BY DEF Add
  <2> HIDE DEF a, c, TA, TC, da
  <2>2. RunAll(detach, db, a \o c) = RunAll(detach, RunAll(detach, db, a), c)
    BY <1>1, <1>6, RunBoth
  <2> QED BY <1>1, <1>6, <2>1, <2>2
<1> HIDE DEF d
<1>8. /\ d.nodes = da.nodes /\ d = [nodes |-> d.nodes, edges |-> d.edges]
      /\ d.edges = [l \in Links |-> IF l \in links /\ Matched(detach, da, l) THEN da.edges[l] + 1 ELSE da.edges[l]]
  <2> HIDE DEF da
  <2> QED BY <1>7 DEF WithLinks
<1>9. d.edges \in [Links -> Nat]
  <2> HIDE DEF da
  <2>1. da.edges \in [Links -> Nat]
    BY <1>4 DEF Db
  <2> QED BY <1>8, <2>1
<1>10. d \in Db
  <2> HIDE DEF da
  <2> QED BY <1>3, <1>8, <1>9, DbParts
<1>11. \A i \in Ids : d.nodes[i] = IF i \in ids THEN row ELSE db.nodes[i]
  BY <1>8 DEF WithNodes
<1>12. ASSUME NEW l \in Links
       PROVE  d.edges[l] = IF l \in links /\ (detach => {l.src, l.dst} \subseteq ids \union Existing(db))
                           THEN db.edges[l] + 1 ELSE db.edges[l]
  <2> HIDE DEF da
  <2> QED BY <1>3, <1>5, <1>8
<1> QED BY <1>10, <1>11, <1>12 DEF d, Added

\* A file's deletion.
Deleted(d, detach, db, p) ==
  /\ d \in Db
  /\ \A i \in Ids : d.nodes[i] = IF i \in OwnedBy(db, p) THEN Missing ELSE db.nodes[i]
  /\ \A l \in Links : d.edges[l] = IF l.origin = p \/ (detach /\ Touches(l, OwnedBy(db, p))) THEN 0 ELSE db.edges[l]
LEMMA DeleteIs ==
  ASSUME NEW detach \in BOOLEAN, NEW db \in Db, NEW p \in Paths
  PROVE  Deleted(RunAll(detach, db, DeleteFile(p)), detach, db, p)
<1> DEFINE d == RunAll(detach, db, DeleteFile(p))
           gone == OwnedBy(db, p)
           v == [do |-> "vanished", path |-> p, keep |-> {}]
           w == [do |-> "disown", path |-> p]
           dw == Exec(detach, db, w)
           some == [l \in Links |-> IF l \in {k \in Links : k.origin = p} THEN 0 ELSE db.edges[l]]
<1>1. d = Exec(detach, dw, v)
  BY RunTwo DEF DeleteFile
<1>2. \A e : Exec(detach, e, v) = WithoutNodes(detach, e, OwnedBy(e, p))
  BY DEF Exec
<1>3. dw = WithoutEdges(db, {l \in Links : l.origin = p})
  BY DEF Exec
<1> HIDE DEF dw, d
<1>4. dw = [nodes |-> db.nodes, edges |-> some]
  BY <1>3, EdgesGo
<1>5. db.nodes \in [Ids -> Rows] /\ some \in [Links -> Nat]
  BY DEF Db
<1>6. dw \in Db /\ OwnedBy(dw, p) = gone
  BY <1>4, <1>5, DbParts DEF OwnedBy
<1>7. d = WithoutNodes(detach, dw, gone)
  BY <1>1, <1>2, <1>6
<1> DEFINE nodes == [i \in Ids |-> IF i \in gone THEN Missing ELSE db.nodes[i]]
           edges == [l \in Links |-> IF detach /\ Touches(l, gone) THEN 0 ELSE some[l]]
<1>8. d = [nodes |-> nodes, edges |-> edges]
  <2> HIDE DEF gone, some
  <2> QED BY <1>4, <1>6, <1>7, NodesGo
<1>9. nodes \in [Ids -> Rows] /\ edges \in [Links -> Nat]
  <2>1. Missing \in Rows
    BY DEF Missing, Rows, Origins
  <2> QED BY <1>5, <2>1
<1>10. d \in Db
  <2> HIDE DEF nodes, edges
  <2> QED BY <1>8, <1>9, DbParts
<1> QED BY <1>8, <1>10 DEF d, Deleted

\* Taking the resolved edges of some files away, and the packages they leave alone.
LeftAlone(db, paths) ==
  {i \in Packages : i \in Existing(db) /\
     \A l \in Links : db.edges[l] > 0 /\ l \notin ResolvedOf(paths) => l.dst # i}
Cleared(d, detach, db, paths) ==
  /\ d \in Db
  /\ \A i \in Ids : d.nodes[i] = IF i \in LeftAlone(db, paths) THEN Missing ELSE db.nodes[i]
  /\ \A l \in Links : d.edges[l] =
       IF l \in ResolvedOf(paths) \/ (detach /\ Touches(l, LeftAlone(db, paths))) THEN 0 ELSE db.edges[l]
LEMMA ClearIs ==
  ASSUME NEW detach \in BOOLEAN, NEW db \in Db, NEW paths
  PROVE  Cleared(RunAll(detach, db, ClearResolved(paths)), detach, db, paths)
<1> DEFINE d == RunAll(detach, db, ClearResolved(paths))
           alone == LeftAlone(db, paths)
           u == [do |-> "unresolve", paths |-> paths]
           c == [do |-> "collect"]
           du == Exec(detach, db, u)
           some == [l \in Links |-> IF l \in ResolvedOf(paths) THEN 0 ELSE db.edges[l]]
           nodes == [i \in Ids |-> IF i \in alone THEN Missing ELSE db.nodes[i]]
           edges == [l \in Links |-> IF detach /\ Touches(l, alone) THEN 0 ELSE some[l]]
<1>1. d = Exec(detach, du, c)
  BY RunTwo DEF ClearResolved
<1>2. \A e : Exec(detach, e, c) = WithoutNodes(detach, e, Orphans(e))
  BY DEF Exec
<1>3. du = WithoutEdges(db, ResolvedOf(paths))
  BY DEF Exec
<1> HIDE DEF du, d
<1>4. du = [nodes |-> db.nodes, edges |-> some]
  BY <1>3, EdgesGo
<1>5. db.nodes \in [Ids -> Rows] /\ some \in [Links -> Nat]
  BY DEF Db
<1>6. du \in Db
  BY <1>4, <1>5, DbParts
<1>7. Orphans(du) = alone
  <2>1. Existing(du) = Existing(db)
    BY <1>4 DEF Existing
  <2>2. \A l \in Links : du.edges[l] > 0 <=> db.edges[l] > 0 /\ l \notin ResolvedOf(paths)
    <3>1. \A l \in Links : db.edges[l] \in Nat
      BY DEF Db
    <3> QED BY <1>4, <3>1
  <2> QED BY <2>1, <2>2 DEF Orphans, Stored, LeftAlone
<1>8. d = WithoutNodes(detach, du, alone)
  BY <1>1, <1>2, <1>7
<1>9. d = [nodes |-> nodes, edges |-> edges]
  <2> HIDE DEF alone, some
  <2> QED BY <1>4, <1>6, <1>8, NodesGo
<1>10. nodes \in [Ids -> Rows] /\ edges \in [Links -> Nat]
  <2>1. Missing \in Rows
    BY DEF Missing, Rows, Origins
  <2> HIDE DEF alone, some
  <2> QED BY <1>5, <2>1
<1>11. d \in Db
  <2> HIDE DEF nodes, edges
  <2> QED BY <1>9, <1>10, DbParts
<1>12. \A i \in Ids : d.nodes[i] = IF i \in alone THEN Missing ELSE db.nodes[i]
  <2> HIDE DEF alone
  <2> QED BY <1>9
<1>13. \A l \in Links : d.edges[l] =
         IF l \in ResolvedOf(paths) \/ (detach /\ Touches(l, alone)) THEN 0 ELSE db.edges[l]
  <2> HIDE DEF alone
  <2> QED BY <1>9
<1> QED BY <1>11, <1>12, <1>13 DEF d, Cleared

\* Taking the edges of a kind out of some nodes away.
ClearedOut(d, db, ids, kind) ==
  /\ d \in Db /\ d.nodes = db.nodes
  /\ \A l \in Links : d.edges[l] = IF l \in OutOf(ids, kind) THEN 0 ELSE db.edges[l]
LEMMA ClearOutIs ==
  ASSUME NEW detach \in BOOLEAN, NEW db \in Db, NEW ids, NEW kind
  PROVE  ClearedOut(RunAll(detach, db, ClearOutgoing(ids, kind)), db, ids, kind)
<1> DEFINE d == RunAll(detach, db, ClearOutgoing(ids, kind))
           st == [do |-> "clear", ids |-> ids, kind |-> kind]
           edges == [l \in Links |-> IF l \in OutOf(ids, kind) THEN 0 ELSE db.edges[l]]
<1>1. d = Exec(detach, db, st)
  BY RunOne DEF ClearOutgoing
<1> HIDE DEF d
<1>2. d = WithoutEdges(db, OutOf(ids, kind))
  BY <1>1 DEF Exec
<1>3. d = [nodes |-> db.nodes, edges |-> edges]
  BY <1>2, EdgesGo
<1>4. db.nodes \in [Ids -> Rows] /\ edges \in [Links -> Nat]
  BY DEF Db
<1> QED BY <1>3, <1>4, DbParts DEF d, ClearedOut

\* Setting attributes.
AttrsSet(d, db, id) ==
  /\ d \in Db /\ d.edges = db.edges
  /\ \A i \in Ids : d.nodes[i] = IF i = id /\ id \in Existing(db)
                                 THEN Row(db.nodes[i].origin, db.nodes[i].attrs \union {"churn"})
                                 ELSE db.nodes[i]
LEMMA SetIs ==
  ASSUME NEW detach \in BOOLEAN, NEW db \in Db, NEW id \in Ids
  PROVE  AttrsSet(RunAll(detach, db, SetAttrs(id, {"churn"})), db, id)
<1> DEFINE d == RunAll(detach, db, SetAttrs(id, {"churn"}))
           st == [do |-> "set", id |-> id, attrs |-> {"churn"}]
           row == Row(db.nodes[id].origin, db.nodes[id].attrs \union {"churn"})
           nodes == [db.nodes EXCEPT ![id] = row]
<1>1. d = Exec(detach, db, st)
  BY RunOne DEF SetAttrs
<1> HIDE DEF d
<1>2. d = SetOn(db, id, {"churn"})
  BY <1>1 DEF Exec
<1>3. db.nodes \in [Ids -> Rows] /\ db.edges \in [Links -> Nat] /\ db = [nodes |-> db.nodes, edges |-> db.edges]
  BY DEF Db
<1>4. db.nodes[id] \in Rows
  BY <1>3
<1>5. row \in Rows /\ [db.nodes[id] EXCEPT !.attrs = @ \union {"churn"}] = row
  BY <1>4 DEF Rows, Row
<1>6. CASE id \in Existing(db)
  <2>1. d = [nodes |-> nodes, edges |-> db.edges]
    BY <1>2, <1>3, <1>5, <1>6 DEF SetOn
  <2>2. nodes \in [Ids -> Rows] /\ \A i \in Ids : nodes[i] = IF i = id THEN row ELSE db.nodes[i]
    BY <1>3, <1>5
  <2> HIDE DEF nodes, row
  <2>3. d \in Db
    BY <1>3, <2>1, <2>2, DbParts
  <2> QED BY <1>6, <2>1, <2>2, <2>3 DEF row, d, AttrsSet
<1>7. CASE id \notin Existing(db)
  <2>1. d = db
    BY <1>2, <1>7 DEF SetOn
  <2> QED BY <1>7, <2>1 DEF d, AttrsSet
<1> QED BY <1>6, <1>7

(***************************************************************************)
(* What the property graph holds between two transactions.                 *)
(***************************************************************************)
\* An id belongs to one path or to none, and its row says so.
Owned(db) ==
  /\ \A p \in Paths : \A i \in IdsOf(p) : db.nodes[i].origin \in {p, "missing"}
  /\ \A i \in SharedIds : db.nodes[i].origin \in {Shared, "missing"}
  /\ \A i \in Ids : db.nodes[i].origin = "missing" => db.nodes[i] = Missing
Ended(db) == \A l \in Links : db.edges[l] > 0 => {l.src, l.dst} \subseteq Existing(db)
GivenOk == given = [p \in Paths |-> given[p]] /\ \A p \in Paths : given[p] \in Versions[p] \union {NoVersion}
Holds(db) ==
  \A p \in Paths : /\ OwnedBy(db, p) = given[p].ids
                   /\ \A l \in Links : l.origin = p /\ ~l.resolved => (db.edges[l] > 0 <=> l \in given[p].links)
Once(db) ==
  /\ \A l \in Calls : db.edges[l] <= 1 /\ (l.origin \in unresolved => db.edges[l] = 0)
  /\ \A l \in Tags : db.edges[l] <= 1 /\ (l.src \in untagged => db.edges[l] = 0)
GraphInv == graph \in Db /\ Owned(graph) /\ Ended(graph) /\ GivenOk /\ Holds(graph) /\ Once(graph)

\* A fact that goes has lost an end, or is about to be drawn again.
Outlives ==
  \A l \in Calls \union Tags : graph.edges[l] > 0 /\ graph'.edges[l] = 0 =>
    \/ ~({l.src, l.dst} \subseteq Existing(graph'))
    \/ l \in Tags /\ l.src \in untagged'
    \/ l \in Calls /\ l.origin \in unresolved'

LEMMA VersionIs ==
  ASSUME NEW p \in Paths, NEW v \in Versions[p]
  PROVE  /\ v.ids \subseteq IdsOf(p) /\ v.ids \subseteq Ids /\ v.ids # {} /\ v.links \subseteq Links
         /\ \A l \in v.links : {l.src, l.dst} \subseteq v.ids /\ l.origin = p /\ ~l.resolved /\ l.kind \notin Kinds
<1>1. /\ v \in [ids : (SUBSET Ids) \ {{}}, links : SUBSET Links]
      /\ \A l \in v.links : {l.src, l.dst} \subseteq v.ids /\ l.origin = p /\ ~l.resolved /\ l.kind \notin Kinds
  BY VersionsAssumption
<1>2. v.ids \in (SUBSET Ids) \ {{}} /\ v.links \in SUBSET Links
  BY <1>1
<1>3. v.ids \subseteq IdsOf(p)
  BY DEF IdsOf
<1>4. v.ids # {} /\ v.ids \subseteq Ids /\ v.links \subseteq Links
  BY <1>2
<1> QED BY <1>1, <1>3, <1>4

LEMMA GivenIs ==
  ASSUME GivenOk, NEW p \in Paths
  PROVE  /\ given[p].ids \subseteq IdsOf(p) /\ given[p].ids \subseteq Ids /\ given[p].links \subseteq Links
         /\ \A l \in given[p].links :
              {l.src, l.dst} \subseteq given[p].ids /\ l.origin = p /\ ~l.resolved /\ l.kind \notin Kinds
<1>1. CASE given[p] = NoVersion
  BY <1>1 DEF NoVersion
<1>2. CASE given[p] \in Versions[p]
  BY <1>2, VersionIs
<1> QED BY <1>1, <1>2 DEF GivenOk

LEMMA IdsApart ==
  /\ \A p, q \in Paths : p # q => IdsOf(p) \intersect IdsOf(q) = {}
  /\ \A p \in Paths : IdsOf(p) \subseteq Ids /\ IdsOf(p) \intersect SharedIds = {} /\ p # "missing" /\ p # Shared
  /\ \A i \in Ids : i \in SharedIds \/ \E p \in Paths : i \in IdsOf(p)
  /\ Packages \subseteq SharedIds /\ SharedIds \subseteq Ids /\ Shared # "missing"
<1>1. \A p \in Paths : IdsOf(p) \subseteq Ids
  BY VersionsAssumption DEF IdsOf
<1> QED BY <1>1, VersionsAssumption, WritersAssumption, SharedAssumption DEF SharedIds

LEMMA FactIs ==
  /\ \A l \in Calls : l \in Links /\ l.origin \in Paths /\ l.src \in IdsOf(l.origin) /\ l.resolved /\ l.kind \notin Kinds
  /\ \A l \in Tags : l \in Links /\ l.origin = Shared /\ l.dst \in SharedIds \ Packages /\ ~l.resolved /\ l.kind = "TAGGED"
  /\ \A l \in Links : /\ l.src \in Ids /\ l.dst \in Ids
                      /\ l.src \notin Packages /\ (l.dst \in Packages => l \in Calls)
                      /\ l.kind = "CHUNK_OF" => l.origin = Shared /\ ~l.resolved
BY WritersAssumption, LinksAssumption

LEMMA RowIs == \A p, attrs : Row(p, attrs).origin = p /\ (p # "missing" => Row(p, attrs) # Missing)
BY DEF Row, Missing

LEMMA MissingIs == Missing.origin = "missing"
BY DEF Missing

LEMMA DbIs == \A db \in Db : (\A l \in Links : db.edges[l] \in Nat) /\ (\A i \in Ids : db.nodes[i] \in Rows)
BY DEF Db

\* A file's nodes and edges are replaced by others, or by none.
LEMMA Replaced ==
  ASSUME GraphInv, NEW p \in Paths, NEW v \in Versions[p] \union {NoVersion}, given' = [given EXCEPT ![p] = v],
         Upserted(graph', TRUE, graph, p, v.ids, v.links)
  PROVE  /\ graph' \in Db /\ Owned(graph') /\ Ended(graph') /\ GivenOk' /\ Holds(graph)'
         /\ \A l \in Calls \union Tags : /\ graph'.edges[l] \in {0, graph.edges[l]}
                                         /\ l.origin = p => graph'.edges[l] = 0
                                         /\ {l.src, l.dst} \subseteq Existing(graph') /\ l.origin # p =>
                                              graph'.edges[l] = graph.edges[l]
<1> DEFINE gone == OwnedBy(graph, p) \ v.ids
<1>0. /\ graph' \in Db
      /\ \A i \in Ids : graph'.nodes[i] = IF i \in v.ids THEN Row(p, {"parsed"})
                                          ELSE IF i \in gone THEN Missing ELSE graph.nodes[i]
      /\ \A l \in Links : graph'.edges[l] = IF l \in v.links THEN 1
                                            ELSE IF l.origin = p \/ Touches(l, gone) THEN 0
                                            ELSE graph.edges[l]
  BY DEF Upserted
<1>1. /\ \A q \in Paths : q # p => given'[q] = given[q]
      /\ given'[p] = v /\ GivenOk'
  BY DEF GraphInv, GivenOk
<1>2. /\ v.ids \subseteq IdsOf(p) /\ v.ids \subseteq Ids /\ v.links \subseteq Links
      /\ \A l \in v.links : {l.src, l.dst} \subseteq v.ids /\ l.origin = p /\ ~l.resolved /\ l.kind \notin Kinds
  <2>1. CASE v = NoVersion
    BY <2>1 DEF NoVersion
  <2> QED BY <2>1, VersionIs
<1>3. gone \subseteq IdsOf(p) /\ gone \intersect v.ids = {}
  BY GivenIs DEF GraphInv, Holds
<1> HIDE DEF gone
<1>4. Owned(graph')
  BY <1>0, <1>2, <1>3, IdsApart, RowIs, MissingIs DEF GraphInv, Owned
<1>5. \A i \in Ids : i \in Existing(graph') <=> i \in v.ids \/ (i \in Existing(graph) /\ i \notin gone)
  <2>1. p # "missing"
    BY IdsApart
  <2> QED BY <1>0, <1>3, <2>1, RowIs DEF Existing
<1>6. Ended(graph')
  BY <1>0, <1>2, <1>5, FactIs DEF GraphInv, Ended, Touches
<1>7. OwnedBy(graph', p) = v.ids
  BY <1>0, <1>2, IdsApart, RowIs, MissingIs DEF OwnedBy, gone
<1>8. ASSUME NEW q \in Paths, q # p PROVE OwnedBy(graph', q) = given[q].ids
  <2>1. OwnedBy(graph, q) = given[q].ids /\ given[q].ids \subseteq IdsOf(q)
    BY GivenIs DEF GraphInv, Holds
  <2>2. \A i \in IdsOf(q) : i \notin v.ids /\ i \notin gone
    BY <1>2, <1>3, <1>8, IdsApart
  <2>3. \A i \in Ids : graph'.nodes[i].origin = q => i \in IdsOf(q)
    BY <1>4, IdsApart DEF Owned
  <2> QED BY <1>0, <2>1, <2>2, <2>3, IdsApart DEF OwnedBy
<1>9. ASSUME NEW q \in Paths, q # p, NEW l \in Links, l.origin = q, ~l.resolved
      PROVE  graph'.edges[l] > 0 <=> l \in given[q].links
  <2>1. graph.edges[l] > 0 <=> l \in given[q].links
    BY <1>9 DEF GraphInv, Holds
  <2>2. l \notin v.links
    BY <1>2, <1>9
  <2>3. l \in given[q].links => ~Touches(l, gone)
    BY <1>3, <1>9, IdsApart, GivenIs DEF Touches, GraphInv
  <2> QED BY <1>0, <1>9, <2>1, <2>2, <2>3
<1>10. Holds(graph)'
  <2>1. ASSUME NEW l \in Links, l.origin = p, ~l.resolved PROVE graph'.edges[l] > 0 <=> l \in v.links
    BY <1>0, <2>1
  <2> QED BY <1>1, <1>7, <1>8, <1>9, <2>1 DEF Holds
<1>11. \A l \in Calls \union Tags : graph'.edges[l] = IF l.origin = p \/ Touches(l, gone) THEN 0 ELSE graph.edges[l]
  BY <1>0, <1>2, FactIs DEF Kinds
<1>12. \A l \in Calls \union Tags : {l.src, l.dst} \subseteq Existing(graph') => ~Touches(l, gone)
  BY <1>3, <1>5, FactIs DEF Touches
<1> QED BY <1>0, <1>1, <1>4, <1>6, <1>10, <1>11, <1>12

LEMMA UpsertHolds ==
  ASSUME GraphInv, NEW p \in Paths, UpsertFile(p)
  PROVE  GraphInv' /\ Outlives
<1>1. PICK v \in Versions[p] :
        /\ Write(p, Upsert(p, v.ids, {"parsed"}, v.links))
        /\ given' = [given EXCEPT ![p] = v] /\ unresolved' = unresolved \union {p} /\ untagged' = untagged
  BY DEF UpsertFile
<1>2. Upserted(graph', TRUE, graph, p, v.ids, v.links)
  <2>1. graph' = RunAll(TRUE, graph, Upsert(p, v.ids, {"parsed"}, v.links))
    BY <1>1 DEF Write
  <2>2. graph \in Db
    BY DEF GraphInv
  <2>3. p # "missing"
    BY IdsApart
  <2>4. v.ids \in SUBSET Ids /\ v.links \in SUBSET Links
    BY VersionIs
  <2>5. Between(v.links, v.ids, p)
    BY VersionIs DEF Between
  <2> QED BY <2>1, <2>2, <2>3, <2>4, <2>5, UpsertIs
<1>3. /\ graph' \in Db /\ Owned(graph') /\ Ended(graph') /\ GivenOk' /\ Holds(graph)'
      /\ \A l \in Calls \union Tags : /\ graph'.edges[l] \in {0, graph.edges[l]}
                                      /\ l.origin = p => graph'.edges[l] = 0
                                      /\ {l.src, l.dst} \subseteq Existing(graph') /\ l.origin # p =>
                                           graph'.edges[l] = graph.edges[l]
  BY <1>1, <1>2, Replaced
<1>4. Once(graph)'
  BY <1>1, <1>3, FactIs DEF GraphInv, Once
<1>5. Outlives
  BY <1>1, <1>3, FactIs, IdsApart DEF Outlives
<1> QED BY <1>3, <1>4, <1>5 DEF GraphInv

LEMMA RemoveHolds ==
  ASSUME GraphInv, NEW p \in Paths, RemoveFile(p)
  PROVE  GraphInv' /\ Outlives
<1>1. /\ Write(Shared, DeleteFile(p)) /\ given' = [given EXCEPT ![p] = NoVersion]
      /\ unresolved' = unresolved \ {p} /\ untagged' = untagged
  BY DEF RemoveFile
<1>2. Deleted(graph', TRUE, graph, p)
  <2>1. graph' = RunAll(TRUE, graph, DeleteFile(p))
    BY <1>1 DEF Write
  <2>2. graph \in Db
    BY DEF GraphInv
  <2> QED BY <2>1, <2>2, DeleteIs
<1>3. Upserted(graph', TRUE, graph, p, NoVersion.ids, NoVersion.links)
  BY <1>2 DEF Deleted, Upserted, NoVersion
<1>4. /\ graph' \in Db /\ Owned(graph') /\ Ended(graph') /\ GivenOk' /\ Holds(graph)'
      /\ \A l \in Calls \union Tags : /\ graph'.edges[l] \in {0, graph.edges[l]}
                                      /\ l.origin = p => graph'.edges[l] = 0
                                      /\ {l.src, l.dst} \subseteq Existing(graph') /\ l.origin # p =>
                                           graph'.edges[l] = graph.edges[l]
  BY <1>1, <1>3, Replaced
<1>6. Once(graph)'
  BY <1>1, <1>4, FactIs DEF GraphInv, Once
<1>7. Outlives
  <2>1. SUFFICES ASSUME NEW l \in Calls \union Tags, graph.edges[l] > 0, graph'.edges[l] = 0,
                        {l.src, l.dst} \subseteq Existing(graph')
                 PROVE  FALSE
    BY DEF Outlives
  <2>2. l.origin = p
    BY <1>4, <2>1
  <2>3. l \in Calls /\ l.src \in IdsOf(p)
    BY <2>2, FactIs, IdsApart
  <2>4. l.src \in Ids /\ (l.src \in OwnedBy(graph, p) \/ graph.nodes[l.src] = Missing)
    BY <2>3, IdsApart, MissingIs DEF GraphInv, Owned, OwnedBy
  <2>5. graph'.nodes[l.src] = Missing
    BY <1>2, <2>4 DEF Deleted
  <2> QED BY <2>1, <2>5 DEF Existing
<1> QED BY <1>4, <1>6, <1>7 DEF GraphInv

\* What is of no file changes, and what was drawn may go.
LEMMA OthersKept ==
  ASSUME GraphInv, given' = given, graph' \in Db,
         \A i \in Ids \ SharedIds : graph'.nodes[i].origin = graph.nodes[i].origin
                                    /\ (graph'.nodes[i] = Missing <=> graph.nodes[i] = Missing),
         \A i \in SharedIds : graph'.nodes[i].origin \in {Shared, "missing"},
         \A i \in Ids : graph'.nodes[i].origin = "missing" => graph'.nodes[i] = Missing,
         \A l \in Links : /\ graph'.edges[l] > 0 => {l.src, l.dst} \subseteq Existing(graph')
                          /\ l.origin \in Paths /\ ~l.resolved =>
                               (graph'.edges[l] > 0 <=> l \in given[l.origin].links)
  PROVE  Owned(graph') /\ Ended(graph') /\ GivenOk' /\ Holds(graph)'
<1>1. Owned(graph')
  BY IdsApart DEF GraphInv, Owned
<1>2. Ended(graph')
  BY DEF Ended
<1>3. ASSUME NEW p \in Paths PROVE OwnedBy(graph', p) = given[p].ids
  <2>1. OwnedBy(graph, p) = given[p].ids
    BY DEF GraphInv, Holds
  <2>2. OwnedBy(graph', p) \intersect SharedIds = {} /\ OwnedBy(graph, p) \intersect SharedIds = {}
    BY <1>1, IdsApart DEF Owned, OwnedBy, GraphInv
  <2> QED BY <2>1, <2>2 DEF OwnedBy
<1>4. GivenOk' /\ Holds(graph)'
  BY <1>3 DEF GraphInv, GivenOk, Holds
<1> QED BY <1>1, <1>2, <1>4

LEMMA ScopeHolds ==
  ASSUME GraphInv, NEW ps, ClearScope(ps)
  PROVE  GraphInv' /\ Outlives
<1>1. /\ graph' = RunAll(TRUE, graph, ClearResolved(ps)) /\ graph \in Db
      /\ given' = given /\ unresolved' = unresolved \union ps /\ untagged' = untagged
  BY DEF ClearScope, Write, GraphInv
<1>2. Cleared(graph', TRUE, graph, ps)
  BY <1>1, ClearIs
<1> DEFINE alone == LeftAlone(graph, ps)
<1>3. alone \subseteq Packages /\ alone \subseteq SharedIds
  BY IdsApart DEF LeftAlone
<1> HIDE DEF alone
<1>4. /\ graph' \in Db
      /\ \A i \in Ids : graph'.nodes[i] = IF i \in alone THEN Missing ELSE graph.nodes[i]
      /\ \A l \in Links : graph'.edges[l] = IF l \in ResolvedOf(ps) \/ Touches(l, alone) THEN 0 ELSE graph.edges[l]
  BY <1>2 DEF Cleared, alone
<1>5. \A i \in Ids \ SharedIds : graph'.nodes[i] = graph.nodes[i]
  BY <1>3, <1>4
<1>6. \A i \in SharedIds : graph'.nodes[i].origin \in {Shared, "missing"}
  BY <1>4, IdsApart, MissingIs DEF GraphInv, Owned
<1>7. \A i \in Ids : graph'.nodes[i].origin = "missing" => graph'.nodes[i] = Missing
  BY <1>4, MissingIs DEF GraphInv, Owned
<1>8. \A l \in Links : graph'.edges[l] > 0 => {l.src, l.dst} \subseteq Existing(graph')
  BY <1>4, FactIs DEF GraphInv, Ended, Existing, Touches
<1>9. ASSUME NEW l \in Links, l.origin \in Paths, ~l.resolved
      PROVE  graph'.edges[l] > 0 <=> l \in given[l.origin].links
  <2>1. graph.edges[l] > 0 <=> l \in given[l.origin].links
    BY <1>9 DEF GraphInv, Holds
  <2>2. l \notin ResolvedOf(ps) /\ (l \in given[l.origin].links => ~Touches(l, alone))
    BY <1>3, <1>9, GivenIs, IdsApart DEF ResolvedOf, GraphInv, Touches
  <2> QED BY <1>4, <2>1, <2>2
<1>10. Owned(graph') /\ Ended(graph') /\ GivenOk' /\ Holds(graph)'
  BY <1>1, <1>4, <1>5, <1>6, <1>7, <1>8, <1>9, OthersKept
<1>11. Once(graph)'
  <2>1. \A l \in Calls : l.origin \in ps => l \in ResolvedOf(ps)
    BY FactIs DEF ResolvedOf
  <2>2. \A l \in Calls \union Tags : graph'.edges[l] \in {0, graph.edges[l]} /\ (l \in ResolvedOf(ps) => graph'.edges[l] = 0)
    BY <1>4, FactIs
  <2>0. /\ \A l \in Calls : graph.edges[l] <= 1 /\ (l.origin \in unresolved => graph.edges[l] = 0)
        /\ \A l \in Tags : graph.edges[l] <= 1 /\ (l.src \in untagged => graph.edges[l] = 0)
    BY DEF GraphInv, Once
  <2>5. unresolved' = unresolved \union ps /\ untagged' = untagged
    BY <1>1
  <2>3. \A l \in Calls : graph'.edges[l] <= 1 /\ (l.origin \in unresolved' => graph'.edges[l] = 0)
    BY <2>0, <2>1, <2>2, <2>5
  <2>4. \A l \in Tags : graph'.edges[l] <= 1 /\ (l.src \in untagged' => graph'.edges[l] = 0)
    BY <2>0, <2>2, <2>5
  <2> QED BY <2>3, <2>4 DEF Once
<1>12. Outlives
  <2>1. SUFFICES ASSUME NEW l \in Calls \union Tags, graph.edges[l] > 0, graph'.edges[l] = 0,
                        {l.src, l.dst} \subseteq Existing(graph')
                 PROVE  l \in Calls /\ l.origin \in unresolved'
    BY DEF Outlives
  <2>2. ~Touches(l, alone)
    BY <1>4, <2>1, FactIs DEF Touches, Existing
  <2>3. l \in ResolvedOf(ps)
    BY <1>4, <2>1, <2>2, FactIs
  <2> QED BY <1>1, <2>3, FactIs DEF ResolvedOf
<1> QED BY <1>4, <1>10, <1>11, <1>12 DEF GraphInv

\* A pass adds to what there is.
LEMMA AddHolds ==
  ASSUME GraphInv, NEW ids \in SUBSET SharedIds, NEW links \in SUBSET Links, given' = given,
         \A l \in links : ~(l.origin \in Paths /\ ~l.resolved),
         graph' = RunAll(TRUE, graph, Add(ids, {"parsed"}, links))
  PROVE  /\ graph' \in Db /\ Owned(graph') /\ Ended(graph') /\ GivenOk' /\ Holds(graph)'
         /\ \A l \in Links : IF l \in links THEN graph'.edges[l] \in {graph.edges[l], graph.edges[l] + 1}
                             ELSE graph'.edges[l] = graph.edges[l]
<1>1. Added(graph', TRUE, graph, ids, links)
  <2>1. graph \in Db /\ Shared # "missing" /\ ids \in SUBSET Ids
    BY IdsApart DEF GraphInv
  <2> QED BY <2>1, AddIs
<1>2. /\ graph' \in Db
      /\ \A i \in Ids : graph'.nodes[i] = IF i \in ids THEN Row(Shared, {"parsed"}) ELSE graph.nodes[i]
      /\ \A l \in Links : graph'.edges[l] =
           IF l \in links /\ {l.src, l.dst} \subseteq ids \union Existing(graph)
           THEN graph.edges[l] + 1 ELSE graph.edges[l]
  BY <1>1 DEF Added
<1> DEFINE row == Row(Shared, {"parsed"})
<1>10. row.origin = Shared /\ row # Missing /\ Shared # "missing"
  BY IdsApart, RowIs
<1> HIDE DEF row
<1>11. \A i \in Ids : graph'.nodes[i] = IF i \in ids THEN row ELSE graph.nodes[i]
  BY <1>2 DEF row
<1>3. \A i \in Ids \ SharedIds : graph'.nodes[i] = graph.nodes[i]
  BY <1>2
<1>4. \A i \in SharedIds : graph'.nodes[i].origin \in {Shared, "missing"}
  BY <1>10, <1>11, IdsApart DEF GraphInv, Owned
<1>5. \A i \in Ids : graph'.nodes[i].origin = "missing" => graph'.nodes[i] = Missing
  BY <1>10, <1>11 DEF GraphInv, Owned
<1>6. \A i \in Ids : i \in ids \union Existing(graph) => i \in Existing(graph')
  BY <1>10, <1>11 DEF Existing
<1>7. \A l \in Links : graph'.edges[l] > 0 => {l.src, l.dst} \subseteq Existing(graph')
  BY <1>2, <1>6, FactIs DEF GraphInv, Ended
<1>8. ASSUME NEW l \in Links, l.origin \in Paths, ~l.resolved
      PROVE  graph'.edges[l] > 0 <=> l \in given[l.origin].links
  BY <1>2, <1>8 DEF GraphInv, Holds
<1>9. Owned(graph') /\ Ended(graph') /\ GivenOk' /\ Holds(graph)'
  BY <1>2, <1>3, <1>4, <1>5, <1>7, <1>8, OthersKept
<1> QED BY <1>2, <1>9

LEMMA MoreOutlives ==
  ASSUME GraphInv, \A l \in Calls \union Tags : graph'.edges[l] \in {graph.edges[l], graph.edges[l] + 1}
  PROVE  Outlives
<1>1. \A l \in Calls \union Tags : graph.edges[l] \in Nat
  BY DbIs, FactIs DEF GraphInv
<1> QED BY <1>1 DEF Outlives

LEMMA ResolveHolds ==
  ASSUME GraphInv, Resolve
  PROVE  GraphInv' /\ Outlives
<1> DEFINE seen == Existing(graph) \union Packages
           drawn == {l \in Calls : l.origin \in unresolved /\ {l.src, l.dst} \subseteq seen}
           ids == {l.dst : l \in drawn} \intersect Packages
<1>1. /\ graph' = RunAll(TRUE, graph, Add(ids, {"parsed"}, drawn))
      /\ given' = given /\ unresolved' = {} /\ untagged' = untagged
  BY DEF Resolve, Write
<1>2. ids \in SUBSET SharedIds /\ drawn \in SUBSET Links
  BY FactIs, IdsApart
<1>3. \A l \in drawn : l \in Calls /\ l.origin \in unresolved /\ ~(l.origin \in Paths /\ ~l.resolved)
  BY FactIs
<1> HIDE DEF drawn, ids
<1>4. /\ graph' \in Db /\ Owned(graph') /\ Ended(graph') /\ GivenOk' /\ Holds(graph)'
      /\ \A l \in Links : IF l \in drawn THEN graph'.edges[l] \in {graph.edges[l], graph.edges[l] + 1}
                          ELSE graph'.edges[l] = graph.edges[l]
  BY <1>1, <1>2, <1>3, AddHolds
<1>5. Once(graph)'
  <2>1. \A l \in Calls : graph'.edges[l] <= 1
    <3>1. \A l \in Calls : l \in drawn => graph.edges[l] = 0
      BY <1>3 DEF GraphInv, Once
    <3>2. \A l \in Calls : graph.edges[l] <= 1 /\ l \in Links
      BY FactIs DEF GraphInv, Once
    <3> QED BY <1>4, <3>1, <3>2
  <2>2. \A l \in Tags : l \notin drawn /\ l \in Links
    BY <1>3, FactIs
  <2>3. \A l \in Tags : graph'.edges[l] = graph.edges[l]
    BY <1>4, <2>2
  <2> QED BY <1>1, <2>1, <2>3 DEF GraphInv, Once
<1>6. Outlives
  BY <1>4, FactIs, MoreOutlives
<1> QED BY <1>4, <1>5, <1>6 DEF GraphInv

LEMMA AddTagsHolds ==
  ASSUME GraphInv, AddTags
  PROVE  GraphInv' /\ Outlives
<1>1. PICK judged \in SUBSET {l \in Tags : l.src \in untagged} : Write(Shared, Add({l.dst : l \in judged}, {"parsed"}, judged))
  BY DEF AddTags
<1> DEFINE ids == {l.dst : l \in judged}
<1>2. /\ graph' = RunAll(TRUE, graph, Add(ids, {"parsed"}, judged))
      /\ given' = given /\ untagged' = {} /\ unresolved' = unresolved
  BY <1>1 DEF AddTags, Write
<1>3. ids \in SUBSET SharedIds /\ judged \in SUBSET Links
  BY FactIs
<1>4. \A l \in judged : l \in Tags /\ l.src \in untagged /\ ~(l.origin \in Paths /\ ~l.resolved)
  BY FactIs, IdsApart
<1> HIDE DEF ids
<1>5. /\ graph' \in Db /\ Owned(graph') /\ Ended(graph') /\ GivenOk' /\ Holds(graph)'
      /\ \A l \in Links : IF l \in judged THEN graph'.edges[l] \in {graph.edges[l], graph.edges[l] + 1}
                          ELSE graph'.edges[l] = graph.edges[l]
  BY <1>2, <1>3, <1>4, AddHolds
<1>6. Once(graph)'
  <2>1. \A l \in Tags : graph'.edges[l] <= 1
    <3>1. \A l \in Tags : l \in judged => graph.edges[l] = 0
      BY <1>4 DEF GraphInv, Once
    <3>2. \A l \in Tags : graph.edges[l] <= 1 /\ l \in Links
      BY FactIs DEF GraphInv, Once
    <3> QED BY <1>5, <3>1, <3>2
  <2>2. \A l \in Calls : l \notin judged /\ l \in Links
    BY <1>4, FactIs
  <2>3. \A l \in Calls : graph'.edges[l] = graph.edges[l]
    BY <1>5, <2>2
  <2> QED BY <1>2, <2>1, <2>3 DEF GraphInv, Once
<1>7. Outlives
  BY <1>5, FactIs, MoreOutlives
<1> QED BY <1>5, <1>6, <1>7 DEF GraphInv

LEMMA ChunkHolds ==
  ASSUME GraphInv, NEW p \in Paths, EmbedChunk(p)
  PROVE  GraphInv' /\ Outlives
<1> DEFINE links == {l \in Links : l.kind = "CHUNK_OF" /\ l.src = ChunkOf[p] /\ l.dst \in given[p].ids}
           ids == {ChunkOf[p]}
<1>1. /\ graph' = RunAll(TRUE, graph, Add(ids, {"parsed"}, links))
      /\ given' = given /\ untagged' = untagged /\ unresolved' = unresolved
  BY DEF EmbedChunk, Write
<1>2. ids \in SUBSET SharedIds /\ links \in SUBSET Links
  BY ChunksAssumption
<1>3. \A l \in links : l \notin Calls \union Tags /\ ~(l.origin \in Paths /\ ~l.resolved)
  BY FactIs, IdsApart DEF Kinds
<1> HIDE DEF links, ids
<1>4. /\ graph' \in Db /\ Owned(graph') /\ Ended(graph') /\ GivenOk' /\ Holds(graph)'
      /\ \A l \in Links : IF l \in links THEN graph'.edges[l] \in {graph.edges[l], graph.edges[l] + 1}
                          ELSE graph'.edges[l] = graph.edges[l]
  BY <1>1, <1>2, <1>3, AddHolds
<1>5. Once(graph)'
  BY <1>1, <1>3, <1>4, FactIs DEF GraphInv, Once
<1>6. Outlives
  BY <1>3, <1>4, FactIs, MoreOutlives
<1> QED BY <1>4, <1>5, <1>6 DEF GraphInv

LEMMA ClearTagsHolds ==
  ASSUME GraphInv, ClearTags
  PROVE  GraphInv' /\ Outlives
<1> DEFINE judged == {l.src : l \in Tags} \intersect Existing(graph)
<1>1. /\ graph' = RunAll(TRUE, graph, ClearOutgoing(judged, "TAGGED")) /\ graph \in Db
      /\ given' = given /\ untagged = {} /\ untagged' = judged /\ unresolved' = unresolved
  BY DEF ClearTags, Write, GraphInv
<1> HIDE DEF judged
<1>2. ClearedOut(graph', graph, judged, "TAGGED")
  BY <1>1, ClearOutIs
<1>3. /\ graph' \in Db /\ graph'.nodes = graph.nodes
      /\ \A l \in Links : graph'.edges[l] = IF l.src \in judged /\ l.kind = "TAGGED" THEN 0 ELSE graph.edges[l]
  BY <1>2 DEF ClearedOut, OutOf
<1>4. \A i \in SharedIds : graph'.nodes[i].origin \in {Shared, "missing"}
  BY <1>3 DEF GraphInv, Owned
<1>5. \A i \in Ids : graph'.nodes[i].origin = "missing" => graph'.nodes[i] = Missing
  BY <1>3 DEF GraphInv, Owned
<1>6. \A l \in Links : graph'.edges[l] > 0 => {l.src, l.dst} \subseteq Existing(graph')
  BY <1>3 DEF GraphInv, Ended, Existing
<1>7. ASSUME NEW l \in Links, l.origin \in Paths, ~l.resolved
      PROVE  graph'.edges[l] > 0 <=> l \in given[l.origin].links
  <2>1. graph.edges[l] > 0 <=> l \in given[l.origin].links
    BY <1>7 DEF GraphInv, Holds
  <2>2. l \in given[l.origin].links => l.kind # "TAGGED"
    BY <1>7, GivenIs DEF GraphInv, Kinds
  <2> QED BY <1>3, <2>1, <2>2
<1>8. Owned(graph') /\ Ended(graph') /\ GivenOk' /\ Holds(graph)'
  BY <1>1, <1>3, <1>4, <1>5, <1>6, <1>7, OthersKept
<1>11. \A l \in Calls : graph'.edges[l] = graph.edges[l]
  <2>1. \A l \in Calls : l \in Links /\ l.kind # "TAGGED"
    BY FactIs DEF Kinds
  <2> QED BY <1>3, <2>1
<1>12. \A l \in Tags : graph'.edges[l] = IF l.src \in judged THEN 0 ELSE graph.edges[l]
  BY <1>3, FactIs
<1>13. untagged' = judged /\ unresolved' = unresolved
  BY <1>1
<1>9. Once(graph)'
  <2>0. /\ \A l \in Calls : graph.edges[l] <= 1 /\ (l.origin \in unresolved => graph.edges[l] = 0)
        /\ \A l \in Tags : graph.edges[l] <= 1 /\ (l.src \in untagged => graph.edges[l] = 0)
    BY DEF GraphInv, Once
  <2>1. \A l \in Calls : graph'.edges[l] <= 1 /\ (l.origin \in unresolved' => graph'.edges[l] = 0)
    BY <1>11, <1>13, <2>0
  <2>2. \A l \in Tags : graph'.edges[l] <= 1 /\ (l.src \in untagged' => graph'.edges[l] = 0)
    BY <1>12, <1>13, <2>0
  <2> QED BY <2>1, <2>2 DEF Once
<1>10. Outlives
  BY <1>11, <1>12, <1>13 DEF Outlives
<1> QED BY <1>3, <1>8, <1>9, <1>10 DEF GraphInv

LEMMA ChurnHolds ==
  ASSUME GraphInv, NEW id, MineChurn(id)
  PROVE  GraphInv' /\ Outlives
<1>1. /\ graph' = RunAll(TRUE, graph, SetAttrs(id, {"churn"})) /\ graph \in Db
      /\ given' = given /\ untagged' = untagged /\ unresolved' = unresolved
  BY DEF MineChurn, Write, GraphInv, client
<1>2. id \in Ids
  BY VersionIs DEF MineChurn, ParsedIds
<1>3. AttrsSet(graph', graph, id)
  BY <1>1, <1>2, SetIs
<1>4. /\ graph' \in Db /\ graph'.edges = graph.edges
      /\ \A i \in Ids : graph'.nodes[i] = IF i = id /\ id \in Existing(graph)
                                          THEN Row(graph.nodes[i].origin, graph.nodes[i].attrs \union {"churn"})
                                          ELSE graph.nodes[i]
  BY <1>3 DEF AttrsSet
<1>5. \A i \in Ids : /\ graph'.nodes[i].origin = graph.nodes[i].origin
                     /\ graph'.nodes[i] = Missing <=> graph.nodes[i] = Missing
  <2> SUFFICES ASSUME NEW i \in Ids
               PROVE  /\ graph'.nodes[i].origin = graph.nodes[i].origin
                      /\ graph'.nodes[i] = Missing <=> graph.nodes[i] = Missing
    OBVIOUS
  <2>1. CASE i = id /\ id \in Existing(graph)
    <3> DEFINE row == Row(graph.nodes[i].origin, graph.nodes[i].attrs \union {"churn"})
    <3>1. graph'.nodes[i] = row /\ graph.nodes[i] # Missing
      BY <1>4, <2>1 DEF Existing
    <3>2. graph.nodes[i].origin # "missing"
      BY <3>1 DEF GraphInv, Owned
    <3> QED BY <3>1, <3>2, RowIs
  <2>2. CASE ~(i = id /\ id \in Existing(graph))
    BY <1>4, <2>2
  <2> QED BY <2>1, <2>2
<1>6. \A i \in SharedIds : graph'.nodes[i].origin \in {Shared, "missing"}
  BY <1>5, IdsApart DEF GraphInv, Owned
<1>7. \A i \in Ids : graph'.nodes[i].origin = "missing" => graph'.nodes[i] = Missing
  BY <1>5 DEF GraphInv, Owned
<1>8. \A l \in Links : graph'.edges[l] > 0 => {l.src, l.dst} \subseteq Existing(graph')
  BY <1>4, <1>5, FactIs DEF GraphInv, Ended, Existing
<1>9. \A l \in Links : l.origin \in Paths /\ ~l.resolved => (graph'.edges[l] > 0 <=> l \in given[l.origin].links)
  BY <1>4 DEF GraphInv, Holds
<1>10. Owned(graph') /\ Ended(graph') /\ GivenOk' /\ Holds(graph)'
  BY <1>1, <1>4, <1>5, <1>6, <1>7, <1>8, <1>9, OthersKept
<1>11. Once(graph)' /\ Outlives
  <2>1. Once(graph)'
    BY <1>1, <1>4 DEF GraphInv, Once
  <2>2. Outlives
    BY <1>4 DEF Outlives
  <2> QED BY <2>1, <2>2
<1> QED BY <1>4, <1>10, <1>11 DEF GraphInv

LEMMA GraphStep ==
  ASSUME GraphInv, [StoresNext]_storeVars
  PROVE  GraphInv' /\ Outlives
<1>1. CASE UNCHANGED <<graph, given, unresolved, untagged>>
  <2>1. GraphInv'
    BY <1>1 DEF GraphInv, GivenOk, Holds, Once
  <2>2. Outlives
    BY <1>1 DEF Outlives
  <2> QED BY <2>1, <2>2
<1>2. ASSUME NEW p, RunStatement(p) PROVE UNCHANGED <<graph, given, unresolved, untagged>>
  BY <1>2 DEF RunStatement, client
<1>3. ASSUME NEW b, RunCall(b) PROVE UNCHANGED <<graph, given, unresolved, untagged>>
  BY <1>3 DEF RunCall, client
<1>4. storeVars' = storeVars => UNCHANGED <<graph, given, unresolved, untagged>>
  BY DEF storeVars, client
<1> QED BY <1>1, <1>2, <1>3, <1>4, UpsertHolds, RemoveHolds, ScopeHolds, ResolveHolds, ClearTagsHolds, AddTagsHolds,
           ChunkHolds, ChurnHolds DEF StoresNext

LEMMA GraphInit == StoresInit => GraphInv
<1>1. SUFFICES ASSUME StoresInit PROVE GraphInv
  OBVIOUS
<1>2. graph = [nodes |-> [i \in Ids |-> Missing], edges |-> [l \in Links |-> 0]]
  BY <1>1 DEF StoresInit, EmptyDb
<1>3. graph \in Db
  <2>1. Missing \in Rows
    BY DEF Missing, Rows, Origins
  <2> QED BY <1>2, <2>1 DEF Db
<1>4. Owned(graph) /\ Ended(graph)
  BY <1>2, IdsApart, MissingIs DEF Owned, Ended
<1>5. GivenOk /\ \A p \in Paths : given[p].ids = {} /\ given[p].links = {}
  BY <1>1 DEF StoresInit, GivenOk, NoVersion
<1>6. Holds(graph)
  BY <1>2, <1>5, IdsApart, MissingIs DEF Holds, OwnedBy
<1>7. Once(graph)
  BY <1>2, FactIs DEF Once
<1> QED BY <1>3, <1>4, <1>5, <1>6, <1>7 DEF GraphInv

\* Facts of the passes that clear before they add are there once, whatever the order of the
\* passes and however often each runs, though an edge is created and never merged
\* (store/kuzu_store.py, _insert_edge).
THEOREM FactsAreOnce == StoresSpec => []NoFactTwice
<1>1. GraphInv => NoFactTwice
  BY DEF GraphInv, Once, NoFactTwice
<1> QED BY <1>1, GraphInit, GraphStep, PTL DEF StoresSpec

\* What the resolver and the enrichers drew on a symbol survives the re-extraction of its file
\* and every write about another, as long as both its ends do (ingest/pipeline.py: an upsert
\* replaces what it owns and nothing else).
THEOREM FactsAreKept == StoresSpec => FactsOutliveUpserts
<1>1. GraphInv /\ [StoresNext]_storeVars =>
        [\A l \in Calls \union Tags :
           l \in Stored(graph) /\ l \notin Stored(graph') =>
             \/ ~({l.src, l.dst} \subseteq Existing(graph'))
             \/ l \in Tags /\ l.src \in untagged'
             \/ l \in Calls /\ l.origin \in unresolved']_storeVars
  <2>1. SUFFICES ASSUME GraphInv, [StoresNext]_storeVars, NEW l \in Calls \union Tags,
                        l \in Stored(graph), l \notin Stored(graph')
                 PROVE  \/ ~({l.src, l.dst} \subseteq Existing(graph'))
                        \/ l \in Tags /\ l.src \in untagged'
                        \/ l \in Calls /\ l.origin \in unresolved'
    OBVIOUS
  <2>2. GraphInv' /\ Outlives
    BY <2>1, GraphStep
  <2>3. graph.edges[l] > 0 /\ graph'.edges[l] = 0
    <3>1. l \in Links /\ graph'.edges[l] \in Nat
      BY <2>2, FactIs, DbIs DEF GraphInv
    <3> QED BY <2>1, <3>1 DEF Stored
  <2> QED BY <2>2, <2>3 DEF Outlives
<1> QED BY <1>1, GraphInit, GraphStep, PTL DEF StoresSpec, FactsOutliveUpserts

(***************************************************************************)
(* What SurrealDB holds when its statements have run.                      *)
(***************************************************************************)
Merged(e, d, i, row) ==
  /\ e \in Db /\ \A j \in Ids : e.nodes[j] = IF j = i THEN row ELSE d.nodes[j]
  /\ \A l \in Links : e.edges[l] = d.edges[l]
Vanished(e, d, p, ids) ==
  /\ e \in Db /\ \A i \in Ids : e.nodes[i] = IF d.nodes[i].origin = p /\ i \notin ids THEN Missing ELSE d.nodes[i]
  /\ \A l \in Links : e.edges[l] = d.edges[l]
Disowned(e, d, p) ==
  /\ e \in Db /\ \A i \in Ids : e.nodes[i] = d.nodes[i]
  /\ \A l \in Links : e.edges[l] = IF l.origin = p THEN 0 ELSE d.edges[l]
Created(e, d, l) ==
  /\ e \in Db /\ \A i \in Ids : e.nodes[i] = d.nodes[i]
  /\ \A k \in Links : e.edges[k] = IF k = l THEN d.edges[k] + 1 ELSE d.edges[k]

LEMMA PartsOf ==
  ASSUME NEW d \in Db
  PROVE  d = [nodes |-> d.nodes, edges |-> d.edges] /\ d.nodes \in [Ids -> Rows] /\ d.edges \in [Links -> Nat]
BY DEF Db

LEMMA MergedIs ==
  ASSUME NEW d \in Db, NEW i \in Ids, NEW row \in Rows
  PROVE  Merged(Exec(FALSE, d, [do |-> "merge", id |-> i, row |-> row]), d, i, row)
<1> DEFINE e == Exec(FALSE, d, [do |-> "merge", id |-> i, row |-> row])
           nodes == [d.nodes EXCEPT ![i] = row]
<1>1. d = [nodes |-> d.nodes, edges |-> d.edges] /\ d.nodes \in [Ids -> Rows] /\ d.edges \in [Links -> Nat]
  BY PartsOf
<1>2. e = [d EXCEPT !.nodes[i] = row]
  BY DEF Exec, Merge
<1>3. e = [nodes |-> nodes, edges |-> d.edges]
  BY <1>1, <1>2
<1>4. nodes \in [Ids -> Rows] /\ \A j \in Ids : nodes[j] = IF j = i THEN row ELSE d.nodes[j]
  BY <1>1
<1> HIDE DEF nodes, e
<1>5. e \in Db
  BY <1>1, <1>3, <1>4, DbParts
<1>6. e.nodes = nodes /\ e.edges = d.edges
  BY <1>3
<1>7. Merged(e, d, i, row)
  BY <1>4, <1>5, <1>6 DEF Merged
<1> QED BY <1>7 DEF e

LEMMA VanishedIs ==
  ASSUME NEW d \in Db, NEW p, NEW ids
  PROVE  Vanished(Exec(FALSE, d, [do |-> "vanished", path |-> p, keep |-> ids]), d, p, ids)
<1> DEFINE e == Exec(FALSE, d, [do |-> "vanished", path |-> p, keep |-> ids])
           gone == OwnedBy(d, p) \ ids
           nodes == [i \in Ids |-> IF i \in gone THEN Missing ELSE d.nodes[i]]
           edges == [l \in Links |-> IF FALSE /\ Touches(l, gone) THEN 0 ELSE d.edges[l]]
<1>1. d.nodes \in [Ids -> Rows] /\ d.edges \in [Links -> Nat] /\ Missing \in Rows
  BY PartsOf DEF Missing, Rows, Origins
<1>2. e = WithoutNodes(FALSE, d, gone)
  BY DEF Exec
<1>3. e = [nodes |-> nodes, edges |-> edges]
  <2> HIDE DEF gone
  <2> QED BY <1>2, NodesGo
<1>4. nodes \in [Ids -> Rows] /\ edges \in [Links -> Nat]
  BY <1>1
<1>5. \A i \in Ids : nodes[i] = IF d.nodes[i].origin = p /\ i \notin ids THEN Missing ELSE d.nodes[i]
  BY DEF OwnedBy
<1>6. \A l \in Links : edges[l] = d.edges[l]
  OBVIOUS
<1> HIDE DEF nodes, edges, e
<1>7. e \in Db
  BY <1>3, <1>4, DbParts
<1>8. e.nodes = nodes /\ e.edges = edges
  BY <1>3
<1>9. Vanished(e, d, p, ids)
  BY <1>5, <1>6, <1>7, <1>8 DEF Vanished
<1> QED BY <1>9 DEF e

LEMMA DisownedIs ==
  ASSUME NEW d \in Db, NEW p
  PROVE  Disowned(Exec(FALSE, d, [do |-> "disown", path |-> p]), d, p)
<1> DEFINE e == Exec(FALSE, d, [do |-> "disown", path |-> p])
           its == {l \in Links : l.origin = p}
           edges == [l \in Links |-> IF l \in its THEN 0 ELSE d.edges[l]]
<1>1. d.nodes \in [Ids -> Rows] /\ d.edges \in [Links -> Nat]
  BY PartsOf
<1>2. e = WithoutEdges(d, its)
  BY DEF Exec
<1>3. e = [nodes |-> d.nodes, edges |-> edges]
  <2> HIDE DEF its
  <2> QED BY <1>2, EdgesGo
<1>4. edges \in [Links -> Nat] /\ \A l \in Links : edges[l] = IF l.origin = p THEN 0 ELSE d.edges[l]
  BY <1>1
<1> HIDE DEF edges, e
<1>5. e \in Db
  BY <1>1, <1>3, <1>4, DbParts
<1>6. e.nodes = d.nodes /\ e.edges = edges
  BY <1>3
<1>7. Disowned(e, d, p)
  BY <1>4, <1>5, <1>6 DEF Disowned
<1> QED BY <1>7 DEF e

LEMMA CreatedIs ==
  ASSUME NEW d \in Db, NEW l \in Links
  PROVE  Created(Exec(FALSE, d, [do |-> "create", link |-> l]), d, l)
<1> DEFINE e == Exec(FALSE, d, [do |-> "create", link |-> l])
           edges == [d.edges EXCEPT ![l] = d.edges[l] + 1]
<1>1. d = [nodes |-> d.nodes, edges |-> d.edges] /\ d.nodes \in [Ids -> Rows] /\ d.edges \in [Links -> Nat]
  BY PartsOf
<1>2. e = [d EXCEPT !.edges[l] = @ + 1]
  BY DEF Exec, Create
<1>3. e = [nodes |-> d.nodes, edges |-> edges]
  BY <1>1, <1>2
<1>4. edges \in [Links -> Nat] /\ \A k \in Links : edges[k] = IF k = l THEN d.edges[k] + 1 ELSE d.edges[k]
  BY <1>1
<1> HIDE DEF edges, e
<1>5. e \in Db
  BY <1>1, <1>3, <1>4, DbParts
<1>6. e.nodes = d.nodes /\ e.edges = edges
  BY <1>3
<1>7. Created(e, d, l)
  BY <1>4, <1>5, <1>6 DEF Created
<1> QED BY <1>7 DEF e

\* The statements of an upsert touch what is of its path.
Vanishing(p) == {[do |-> "vanished", path |-> p, keep |-> ids] : ids \in SUBSET Ids}
Disowning(p) == {[do |-> "disown", path |-> p]}
LinksOf(p) == {l \in Links : l.origin = p}
StOf(p) == MergeSts(IdsOf(p), Row(p, {"parsed"})) \union Vanishing(p) \union Disowning(p) \union CreateSts(LinksOf(p))

SamePart(p, d, e) ==
  /\ \A i \in IdsOf(p) : d.nodes[i] = e.nodes[i]
  /\ \A l \in Links : l.origin = p => d.edges[l] = e.edges[l]
SameRest(p, d, e) ==
  /\ d \in Db /\ Owned(d)
  /\ \A i \in Ids : i \notin IdsOf(p) => d.nodes[i] = e.nodes[i]
  /\ \A l \in Links : l.origin # p => d.edges[l] = e.edges[l]

\* Such a statement leaves the rest,
LEMMA StatementIs ==
  ASSUME NEW p \in Paths, NEW d \in Db, Owned(d), NEW st \in StOf(p)
  PROVE  SameRest(p, Exec(FALSE, d, st), d)
<1> DEFINE e == Exec(FALSE, d, st)
<1>0. p # "missing" /\ IdsOf(p) \subseteq Ids
  BY IdsApart
<1>1. CASE st \in MergeSts(IdsOf(p), Row(p, {"parsed"}))
  <2> DEFINE row == Row(p, {"parsed"})
  <2>1. PICK i \in IdsOf(p) : st = [do |-> "merge", id |-> i, row |-> row]
    BY <1>1 DEF MergeSts
  <2>2. row \in Rows /\ row.origin = p
    BY DEF Row, Rows, Origins
  <2> HIDE DEF row
  <2>3. Merged(e, d, i, row)
    BY <1>0, <2>1, <2>2, MergedIs
  <2> HIDE DEF e
  <2>4. Owned(e)
    BY <1>0, <2>2, <2>3, IdsApart DEF Owned, Merged
  <2>5. SameRest(p, e, d)
    BY <2>3, <2>4 DEF SameRest, Merged
  <2> QED BY <2>5 DEF e
<1>2. CASE st \in Vanishing(p)
  <2>1. PICK ids \in SUBSET Ids : st = [do |-> "vanished", path |-> p, keep |-> ids]
    BY <1>2 DEF Vanishing
  <2>2. Vanished(e, d, p, ids)
    BY <2>1, VanishedIs
  <2> HIDE DEF e
  <2>3. Owned(e)
    <3>1. \A i \in Ids : e.nodes[i] = d.nodes[i] \/ e.nodes[i] = Missing
      BY <2>2 DEF Vanished
    <3>2. Missing.origin = "missing"
      BY DEF Missing
    <3>3. \A i \in Ids : e.nodes[i].origin = d.nodes[i].origin \/ e.nodes[i].origin = "missing"
      BY <3>1, <3>2
    <3>4. \A i \in Ids : e.nodes[i].origin = "missing" => e.nodes[i] = Missing
      BY <3>1 DEF Owned
    <3>5. \A q \in Paths : IdsOf(q) \subseteq Ids
      BY IdsApart
    <3>6. \A i \in SharedIds : i \in Ids
      BY DEF SharedIds
    <3> QED BY <3>3, <3>4, <3>5, <3>6 DEF Owned
  <2>4. \A i \in Ids : d.nodes[i].origin = p => i \in IdsOf(p)
    BY <1>0, IdsApart DEF Owned
  <2>5. SameRest(p, e, d)
    BY <2>2, <2>3, <2>4 DEF SameRest, Vanished
  <2> QED BY <2>5 DEF e
<1>3. CASE st \in Disowning(p)
  <2>1. Disowned(e, d, p)
    BY <1>3, DisownedIs DEF Disowning
  <2> HIDE DEF e
  <2>2. Owned(e)
    BY <1>0, <2>1, IdsApart DEF Owned, Disowned
  <2>3. SameRest(p, e, d)
    BY <2>1, <2>2 DEF SameRest, Disowned
  <2> QED BY <2>3 DEF e
<1>4. CASE st \in CreateSts(LinksOf(p))
  <2>1. PICK l \in LinksOf(p) : st = [do |-> "create", link |-> l]
    BY <1>4 DEF CreateSts
  <2>2. l \in Links /\ l.origin = p
    BY DEF LinksOf
  <2>3. Created(e, d, l)
    BY <2>1, <2>2, CreatedIs
  <2> HIDE DEF e
  <2>4. Owned(e)
    BY <1>0, <2>3, IdsApart DEF Owned, Created
  <2>5. SameRest(p, e, d)
    BY <2>2, <2>3, <2>4 DEF SameRest, Created
  <2> QED BY <2>5 DEF e
<1> QED BY <1>1, <1>2, <1>3, <1>4 DEF StOf

\* and makes of its part the same whatever the rest is.
LEMMA StatementAlike ==
  ASSUME NEW p \in Paths, NEW d \in Db, NEW d2 \in Db, SamePart(p, d, d2), NEW st \in StOf(p)
  PROVE  SamePart(p, Exec(FALSE, d, st), Exec(FALSE, d2, st))
<1> DEFINE e == Exec(FALSE, d, st)
           e2 == Exec(FALSE, d2, st)
<1>0. IdsOf(p) \subseteq Ids
  BY IdsApart
<1>1. CASE st \in MergeSts(IdsOf(p), Row(p, {"parsed"}))
  <2> DEFINE row == Row(p, {"parsed"})
  <2>1. PICK i \in IdsOf(p) : st = [do |-> "merge", id |-> i, row |-> row]
    BY <1>1 DEF MergeSts
  <2>2. row \in Rows
    BY DEF Row, Rows, Origins
  <2> HIDE DEF row
  <2>3. Merged(e, d, i, row) /\ Merged(e2, d2, i, row)
    BY <1>0, <2>1, <2>2, MergedIs
  <2> HIDE DEF e, e2
  <2>4. SamePart(p, e, e2)
    BY <1>0, <2>3 DEF SamePart, Merged
  <2> QED BY <2>4 DEF e, e2
<1>2. CASE st \in Vanishing(p)
  <2>1. PICK ids \in SUBSET Ids : st = [do |-> "vanished", path |-> p, keep |-> ids]
    BY <1>2 DEF Vanishing
  <2>2. Vanished(e, d, p, ids) /\ Vanished(e2, d2, p, ids)
    BY <2>1, VanishedIs
  <2> HIDE DEF e, e2
  <2>3. SamePart(p, e, e2)
    BY <1>0, <2>2 DEF SamePart, Vanished
  <2> QED BY <2>3 DEF e, e2
<1>3. CASE st \in Disowning(p)
  <2>1. Disowned(e, d, p) /\ Disowned(e2, d2, p)
    BY <1>3, DisownedIs DEF Disowning
  <2> HIDE DEF e, e2
  <2>2. SamePart(p, e, e2)
    BY <1>0, <2>1 DEF SamePart, Disowned
  <2> QED BY <2>2 DEF e, e2
<1>4. CASE st \in CreateSts(LinksOf(p))
  <2>1. PICK l \in LinksOf(p) : st = [do |-> "create", link |-> l]
    BY <1>4 DEF CreateSts
  <2>2. l \in Links
    BY DEF LinksOf
  <2>3. Created(e, d, l) /\ Created(e2, d2, l)
    BY <2>1, <2>2, CreatedIs
  <2> HIDE DEF e, e2
  <2>4. SamePart(p, e, e2)
    BY <1>0, <2>3 DEF SamePart, Created
  <2> QED BY <2>4 DEF e, e2
<1> QED BY <1>1, <1>2, <1>3, <1>4 DEF StOf

\* A database after each of some statements, in words that can be cited.
Course(off, d, sts, f) ==
  /\ f[0] = d /\ f[Len(sts)] = RunAll(off, d, sts)
  /\ \A n \in 1..Len(sts) : f[n] = Exec(off, f[n - 1], sts[n])
LEMMA CourseIs == \A off, d, sts : Len(sts) \in Nat => \E f : Course(off, d, sts, f)
<1> SUFFICES ASSUME NEW off, NEW d, NEW sts, Len(sts) \in Nat PROVE \E f : Course(off, d, sts, f)
  OBVIOUS
<1>1. PICK f : /\ f[0] = d /\ f[Len(sts)] = RunAll(off, d, sts)
               /\ \A n \in 1..Len(sts) : f[n] = Exec(off, f[n - 1], sts[n])
  BY TraceIs
<1> QED BY <1>1 DEF Course

\* The same of any number of them.
LEMMA PartRuns ==
  ASSUME NEW p \in Paths, NEW d \in Db, Owned(d), NEW d2 \in Db, Owned(d2), SamePart(p, d, d2),
         NEW sts \in Seq(StOf(p))
  PROVE  RunAll(FALSE, d, sts) \in Db /\ SamePart(p, RunAll(FALSE, d, sts), RunAll(FALSE, d2, sts))
<1>0. Len(sts) \in Nat
  OBVIOUS
<1>1. PICK f : Course(FALSE, d, sts, f)
  BY <1>0, CourseIs
<1>2. PICK g : Course(FALSE, d2, sts, g)
  BY <1>0, CourseIs
<1> DEFINE Good(n) == f[n] \in Db /\ Owned(f[n]) /\ g[n] \in Db /\ Owned(g[n]) /\ SamePart(p, f[n], g[n])
           A == {n \in Nat : n <= Len(sts) => Good(n)}
<1>3. 0 \in A
  BY <1>1, <1>2 DEF Course
<1>4. ASSUME NEW n \in Nat, n \in A PROVE n + 1 \in A
  <2> SUFFICES ASSUME n + 1 <= Len(sts) PROVE Good(n + 1)
    OBVIOUS
  <2>1. n + 1 \in 1..Len(sts) /\ (n + 1) - 1 = n /\ n <= Len(sts)
    BY <1>0
  <2>2. Good(n)
    BY <1>4, <2>1
  <2>3. f[n + 1] = Exec(FALSE, f[n], sts[n + 1]) /\ g[n + 1] = Exec(FALSE, g[n], sts[n + 1])
    BY <1>1, <1>2, <2>1 DEF Course
  <2>4. sts[n + 1] \in StOf(p)
    BY <2>1
  <2>5. SameRest(p, f[n + 1], f[n]) /\ SameRest(p, g[n + 1], g[n])
    BY <2>2, <2>3, <2>4, StatementIs
  <2>6. SamePart(p, f[n + 1], g[n + 1])
    BY <2>2, <2>3, <2>4, StatementAlike
  <2> QED BY <2>5, <2>6 DEF SameRest
<1>5. Len(sts) \in A
  <2> HIDE DEF A
  <2> QED BY <1>0, <1>3, <1>4, AllNaturals
<1>6. Good(Len(sts))
  BY <1>0, <1>5
<1>7. RunAll(FALSE, d, sts) \in Db /\ SamePart(p, RunAll(FALSE, d, sts), RunAll(FALSE, d2, sts))
  BY <1>1, <1>2, <1>6 DEF Course
<1> QED BY <1>7

\* A database has the rows of another, and its edges among more, whose ends are deleted nodes.
AtLeast(l, d, g) == d.edges[l] >= g.edges[l] /\ (l.dst \in Packages => d.edges[l] = g.edges[l])
Matches(d, g) ==
  /\ d \in Db /\ Owned(d)
  /\ \A i \in Ids : d.nodes[i] = g.nodes[i]
  /\ \A l \in Links : AtLeast(l, d, g)
MatchesPart(p, d, g) ==
  /\ \A i \in IdsOf(p) : d.nodes[i] = g.nodes[i]
  /\ \A l \in Links : l.origin = p => AtLeast(l, d, g)
MatchesShared(d, g) ==
  /\ \A i \in SharedIds : d.nodes[i] = g.nodes[i]
  /\ \A l \in Links : l.origin \notin Paths => AtLeast(l, d, g)

LEMMA WholeIsParts ==
  ASSUME NEW d \in Db, NEW g \in Db, Owned(d)
  PROVE  Matches(d, g) <=> MatchesShared(d, g) /\ \A p \in Paths : MatchesPart(p, d, g)
<1>1. ASSUME Matches(d, g) PROVE MatchesShared(d, g) /\ \A p \in Paths : MatchesPart(p, d, g)
  BY <1>1, IdsApart DEF Matches, MatchesShared, MatchesPart
<1>2. ASSUME MatchesShared(d, g), \A p \in Paths : MatchesPart(p, d, g) PROVE Matches(d, g)
  <2>1. \A i \in Ids : d.nodes[i] = g.nodes[i]
    BY <1>2, IdsApart DEF MatchesShared, MatchesPart
  <2>2. \A l \in Links : AtLeast(l, d, g)
    BY <1>2 DEF MatchesShared, MatchesPart
  <2> QED BY <2>1, <2>2 DEF Matches
<1> QED BY <1>1, <1>2

LEMMA OwnedAlike ==
  ASSUME NEW d \in Db, NEW g \in Db, Owned(g), \A i \in Ids : d.nodes[i] = g.nodes[i]
  PROVE  Owned(d)
BY IdsApart DEF Owned

(***************************************************************************)
(* Each write, sent to both.                                               *)
(***************************************************************************)
\* Both ends of what goes to a package are there.
Reaches(links, ids, g) == \A l \in links : l.dst \in Packages => {l.src, l.dst} \subseteq ids \union Existing(g)

LEMMA AddMatches ==
  ASSUME NEW d \in Db, NEW g \in Db, Matches(d, g), NEW d2, NEW g2, Owned(g2), NEW ids \in SUBSET Ids, NEW links \in SUBSET Links,
         Added(d2, FALSE, d, ids, links), Added(g2, TRUE, g, ids, links),
         Reaches(links, ids, g)
  PROVE  Matches(d2, g2)
<1>1. \A i \in Ids : d2.nodes[i] = g2.nodes[i]
  BY DEF Matches, Added
<1>2. \A l \in Links : d.edges[l] \in Nat /\ g.edges[l] \in Nat
  BY DbIs
<1>3. \A l \in Links : AtLeast(l, d2, g2)
  BY <1>2 DEF Matches, Added, AtLeast, Reaches
<1>4. d2 \in Db /\ g2 \in Db
  BY DEF Added
<1> QED BY <1>1, <1>3, <1>4, OwnedAlike DEF Matches

LEMMA DeleteMatches ==
  ASSUME NEW d \in Db, NEW g \in Db, Matches(d, g), NEW d2, NEW g2, Owned(g), Owned(g2), NEW p \in Paths,
         Deleted(d2, FALSE, d, p), Deleted(g2, TRUE, g, p)
  PROVE  Matches(d2, g2)
<1>1. \A i \in Ids : d2.nodes[i] = g2.nodes[i]
  BY DEF Matches, Deleted, OwnedBy
<1>2. \A l \in Links : d.edges[l] \in Nat /\ g.edges[l] \in Nat
  BY DbIs
<1>3. OwnedBy(g, p) \subseteq IdsOf(p) /\ OwnedBy(g, p) \intersect Packages = {}
  BY IdsApart DEF Owned, OwnedBy
<1>4. ASSUME NEW l \in Links PROVE AtLeast(l, d2, g2)
  <2>1. AtLeast(l, d, g)
    BY DEF Matches
  <2>2. d2.edges[l] = IF l.origin = p THEN 0 ELSE d.edges[l]
    BY DEF Deleted
  <2>3. g2.edges[l] = IF l.origin = p \/ Touches(l, OwnedBy(g, p)) THEN 0 ELSE g.edges[l]
    BY DEF Deleted
  <2>4. ASSUME l.dst \in Packages, l.origin # p PROVE ~Touches(l, OwnedBy(g, p))
    <3>1. l \in Calls /\ l.origin \in Paths /\ l.src \in IdsOf(l.origin)
      BY <2>4, FactIs
    <3>2. l.src \notin IdsOf(p)
      BY <2>4, <3>1, IdsApart
    <3> QED BY <1>3, <2>4, <3>2 DEF Touches
  <2> QED BY <1>2, <2>1, <2>2, <2>3, <2>4 DEF AtLeast
<1>5. d2 \in Db /\ g2 \in Db
  BY DEF Deleted
<1> QED BY <1>1, <1>4, <1>5, OwnedAlike DEF Matches

LEMMA ClearMatches ==
  ASSUME NEW d \in Db, NEW g \in Db, Matches(d, g), NEW d2, NEW g2, Owned(g2), NEW ps,
         Cleared(d2, FALSE, d, ps), Cleared(g2, TRUE, g, ps)
  PROVE  Matches(d2, g2)
<1>1. \A l \in Links : d.edges[l] \in Nat /\ g.edges[l] \in Nat
  BY DbIs
<1>2. \A l \in Links : l.dst \in Packages => d.edges[l] = g.edges[l]
  BY DEF Matches, AtLeast
<1>3. \A i \in Ids : i \in Existing(d) <=> i \in Existing(g)
  BY DEF Matches, Existing
<1>4. LeftAlone(d, ps) = LeftAlone(g, ps)
  <2>1. \A i \in Packages : i \in LeftAlone(d, ps) <=> i \in LeftAlone(g, ps)
    <3> SUFFICES ASSUME NEW i \in Packages PROVE i \in LeftAlone(d, ps) <=> i \in LeftAlone(g, ps)
      OBVIOUS
    <3>1. i \in Ids
      BY SharedAssumption
    <3>2. (\A l \in Links : d.edges[l] > 0 /\ l \notin ResolvedOf(ps) => l.dst # i)
            <=> (\A l \in Links : g.edges[l] > 0 /\ l \notin ResolvedOf(ps) => l.dst # i)
      BY <1>2
    <3> QED BY <1>3, <3>1, <3>2 DEF LeftAlone
  <2> QED BY <2>1 DEF LeftAlone
<1>5. \A i \in Ids : d2.nodes[i] = g2.nodes[i]
  BY <1>4 DEF Matches, Cleared
<1>6. ASSUME NEW l \in Links PROVE AtLeast(l, d2, g2)
  <2>1. AtLeast(l, d, g)
    BY DEF Matches
  <2>2. d2.edges[l] = IF l \in ResolvedOf(ps) THEN 0 ELSE d.edges[l]
    BY DEF Cleared
  <2>3. g2.edges[l] = IF l \in ResolvedOf(ps) \/ Touches(l, LeftAlone(g, ps)) THEN 0 ELSE g.edges[l]
    BY DEF Cleared
  <2>4. ASSUME Touches(l, LeftAlone(g, ps)), l \notin ResolvedOf(ps) PROVE g.edges[l] = 0
    <3>1. l.src \notin LeftAlone(g, ps)
      BY FactIs DEF LeftAlone
    <3>2. l.dst \in LeftAlone(g, ps)
      BY <2>4, <3>1 DEF Touches
    <3>3. ~(g.edges[l] > 0)
      BY <2>4, <3>2 DEF LeftAlone
    <3> QED BY <1>1, <3>3
  <2> QED BY <1>1, <2>1, <2>2, <2>3, <2>4 DEF AtLeast
<1>7. d2 \in Db /\ g2 \in Db
  BY DEF Cleared
<1> QED BY <1>5, <1>6, <1>7, OwnedAlike DEF Matches

LEMMA ClearOutMatches ==
  ASSUME NEW d \in Db, NEW g \in Db, Matches(d, g), NEW d2, NEW g2, Owned(g2), NEW ids, NEW kind,
         ClearedOut(d2, d, ids, kind), ClearedOut(g2, g, ids, kind)
  PROVE  Matches(d2, g2)
<1>1. \A i \in Ids : d2.nodes[i] = g2.nodes[i]
  BY DEF Matches, ClearedOut
<1>2. \A l \in Links : AtLeast(l, d2, g2)
  BY DEF Matches, ClearedOut, AtLeast
<1>3. d2 \in Db /\ g2 \in Db
  BY DEF ClearedOut
<1> QED BY <1>1, <1>2, <1>3, OwnedAlike DEF Matches

LEMMA SetMatches ==
  ASSUME NEW d \in Db, NEW g \in Db, Matches(d, g), NEW d2, NEW g2, Owned(g2), NEW id \in Ids,
         AttrsSet(d2, d, id), AttrsSet(g2, g, id)
  PROVE  Matches(d2, g2)
<1>1. \A i \in Ids : d2.nodes[i] = g2.nodes[i]
  BY DEF Matches, AttrsSet, Existing
<1>2. \A l \in Links : AtLeast(l, d2, g2)
  BY DEF Matches, AttrsSet, AtLeast
<1>3. d2 \in Db /\ g2 \in Db
  BY DEF AttrsSet
<1> QED BY <1>1, <1>2, <1>3, OwnedAlike DEF Matches

\* An upsert makes the parts of its path alike and leaves the others so.
LEMMA UpsertMatches ==
  ASSUME NEW d \in Db, NEW g \in Db, Owned(g), NEW p \in Paths, NEW ids \in SUBSET IdsOf(p), NEW links \in SUBSET Links,
         NEW d2, NEW g2, MatchesPart(p, d, g), Between(links, ids, p),
         Upserted(d2, FALSE, d, p, ids, links), Upserted(g2, TRUE, g, p, ids, links)
  PROVE  /\ MatchesPart(p, d2, g2)
         /\ \A e \in Db, q \in Paths : q # p /\ MatchesPart(q, e, g) => MatchesPart(q, e, g2)
         /\ \A e \in Db : MatchesShared(e, g) => MatchesShared(e, g2)
<1> DEFINE gone == OwnedBy(g, p) \ ids
<1>1. IdsOf(p) \subseteq Ids /\ gone \subseteq IdsOf(p) /\ gone \intersect Packages = {}
  BY IdsApart DEF Owned, OwnedBy
<1>2. \A i \in Ids : g2.nodes[i] = IF i \in ids THEN Row(p, {"parsed"}) ELSE IF i \in gone THEN Missing ELSE g.nodes[i]
  BY DEF Upserted
<1>3. \A l \in Links : g2.edges[l] = IF l \in links THEN 1 ELSE IF l.origin = p \/ Touches(l, gone) THEN 0 ELSE g.edges[l]
  BY DEF Upserted
<1> HIDE DEF gone
<1>4. \A i \in Ids : i \notin IdsOf(p) => g2.nodes[i] = g.nodes[i]
  BY <1>1, <1>2
<1>5. \A e \in Db : \A l \in Links : l.origin # p /\ AtLeast(l, e, g) => AtLeast(l, e, g2)
  <2> SUFFICES ASSUME NEW e \in Db, NEW l \in Links, l.origin # p, AtLeast(l, e, g) PROVE AtLeast(l, e, g2)
    OBVIOUS
  <2>1. l \notin links /\ e.edges[l] \in Nat /\ g.edges[l] \in Nat
    BY DbIs DEF Between
  <2>2. ASSUME l.dst \in Packages PROVE ~Touches(l, gone)
    <3>1. l \in Calls /\ l.origin \in Paths /\ l.src \in IdsOf(l.origin)
      BY <2>2, FactIs
    <3>2. l.src \notin IdsOf(p)
      BY <3>1, IdsApart
    <3> QED BY <1>1, <2>2, <3>2 DEF Touches
  <2> QED BY <1>3, <2>1, <2>2 DEF AtLeast
<1>6. MatchesPart(p, d2, g2)
  <2>1. \A i \in IdsOf(p) : d2.nodes[i] = g2.nodes[i]
    BY <1>1 DEF Upserted, MatchesPart, OwnedBy
  <2>2. \A l \in Links : l.origin = p => d2.edges[l] = g2.edges[l] /\ d2.edges[l] \in Nat
    BY DEF Upserted
  <2>3. \A l \in Links : l.origin = p => AtLeast(l, d2, g2)
    BY <2>2 DEF AtLeast
  <2> QED BY <2>1, <2>3 DEF MatchesPart
<1>7. ASSUME NEW e \in Db, NEW q \in Paths, q # p, MatchesPart(q, e, g) PROVE MatchesPart(q, e, g2)
  <2>1. \A i \in IdsOf(q) : i \in Ids /\ i \notin IdsOf(p)
    BY <1>7, IdsApart
  <2> QED BY <1>4, <1>5, <1>7, <2>1 DEF MatchesPart
<1>8. ASSUME NEW e \in Db, MatchesShared(e, g) PROVE MatchesShared(e, g2)
  <2>1. \A i \in SharedIds : i \in Ids /\ i \notin IdsOf(p)
    BY IdsApart
  <2> QED BY <1>4, <1>5, <1>8, <2>1 DEF MatchesShared
<1> QED BY <1>6, <1>7, <1>8

\* What SurrealDB holds once its statements have run: those of no path run alone, those of each
\* path touch its part.
Listing(s) == Len(s) \in Nat /\ s = [n \in 1..Len(s) |-> s[n]]
DocsInv ==
  /\ pending = [q \in Paths \union {Shared} |-> pending[q]] /\ Listing(pending[Shared])
  /\ pending[Shared] # <<>> => /\ \A p \in Paths : pending[p] = <<>>
                               /\ Matches(RunAll(FALSE, docs, pending[Shared]), graph)
  /\ pending[Shared] = <<>> => /\ docs \in Db /\ Owned(docs) /\ MatchesShared(docs, graph)
                               /\ \A p \in Paths : /\ pending[p] \in Seq(StOf(p))
                                                   /\ MatchesPart(p, RunAll(FALSE, docs, pending[p]), graph)

LEMMA QuietMatches ==
  ASSUME GraphInv, DocsInv, \A p \in DOMAIN pending : pending[p] = <<>>
  PROVE  Matches(docs, graph)
<1>1. pending[Shared] = <<>> /\ \A p \in Paths : pending[p] = <<>>
  <2>1. DOMAIN pending = Paths \union {Shared}
    BY DEF DocsInv
  <2> QED BY <2>1
<1>2. docs \in Db /\ Owned(docs) /\ MatchesShared(docs, graph) /\ \A p \in Paths : MatchesPart(p, docs, graph)
  BY <1>1, RunNone DEF DocsInv
<1>3. graph \in Db
  BY DEF GraphInv
<1> QED BY <1>2, <1>3, WholeIsParts

LEMMA AllRun ==
  ASSUME pending' = [q \in Paths \union {Shared} |-> pending'[q]], graph' \in Db,
         \A p \in Paths \union {Shared} : pending'[p] = <<>>, Matches(docs', graph')
  PROVE  DocsInv'
<1>1. Listing(<<>>) /\ \A p \in Paths : <<>> \in Seq(StOf(p))
  BY DEF Listing
<1>2. docs' \in Db /\ Owned(docs')
  BY DEF Matches
<1>3. MatchesShared(docs', graph') /\ \A p \in Paths : MatchesPart(p, docs', graph')
  BY <1>2, WholeIsParts
<1> QED BY <1>1, <1>2, <1>3, RunNone DEF DocsInv

\* A write of no path.
LEMMA SharedWrite ==
  ASSUME GraphInv, DocsInv, NEW sts, Listing(sts), Write(Shared, sts), Owned(graph'), graph' \in Db,
         Matches(RunAll(FALSE, docs, sts), graph')
  PROVE  DocsInv'
<1>1. pending' = [pending EXCEPT ![Shared] = sts] /\ docs' = docs
      /\ \A p \in DOMAIN pending : pending[p] = <<>>
  BY DEF Write, Quiet, GraphQuiet
<1>2. DOMAIN pending = Paths \union {Shared}
  BY DEF DocsInv
<1>3. /\ pending' = [q \in Paths \union {Shared} |-> pending'[q]] /\ pending'[Shared] = sts
      /\ \A p \in Paths : pending'[p] = <<>>
  BY <1>1, <1>2, SharedAssumption
<1>4. CASE sts = <<>>
  <2>1. Matches(docs', graph')
    BY <1>1, <1>4, RunNone
  <2>2. \A p \in Paths \union {Shared} : pending'[p] = <<>>
    BY <1>3, <1>4
  <2> QED BY <1>3, <2>1, <2>2, AllRun
<1>5. CASE sts # <<>>
  BY <1>1, <1>3, <1>5 DEF DocsInv
<1> QED BY <1>4, <1>5

LEMMA ListingIs ==
  /\ \A T, s : s \in Seq(T) => Listing(s)
  /\ \A x : Listing(<<x>>)
  /\ \A x, y : Listing(<<x, y>>)
BY DEF Listing

LEMMA DocsRemove ==
  ASSUME GraphInv, DocsInv, GraphInv', NEW p \in Paths, RemoveFile(p)
  PROVE  DocsInv'
<1> DEFINE sts == DeleteFile(p)
<1>1. Write(Shared, sts)
  BY DEF RemoveFile
<1>2. Listing(sts)
  BY ListingIs DEF DeleteFile
<1> HIDE DEF sts
<1>3. Matches(docs, graph)
  BY <1>1, QuietMatches DEF Write, Quiet, GraphQuiet
<1>4. graph' = RunAll(TRUE, graph, sts)
  BY <1>1 DEF Write
<1>5. graph \in Db /\ Owned(graph) /\ graph' \in Db /\ Owned(graph') /\ docs \in Db
  BY <1>3 DEF GraphInv, Matches
<1>6. Deleted(RunAll(FALSE, docs, sts), FALSE, docs, p) /\ Deleted(graph', TRUE, graph, p)
  BY <1>4, <1>5, DeleteIs DEF sts
<1>7. Matches(RunAll(FALSE, docs, sts), graph')
  BY <1>3, <1>5, <1>6, DeleteMatches
<1> QED BY <1>1, <1>2, <1>5, <1>7, SharedWrite

LEMMA DocsScope ==
  ASSUME GraphInv, DocsInv, GraphInv', NEW ps \in SUBSET Paths, ClearScope(ps)
  PROVE  DocsInv'
<1> DEFINE sts == ClearResolved(ps)
<1>1. Write(Shared, sts)
  BY DEF ClearScope
<1>2. Listing(sts)
  BY ListingIs DEF ClearResolved
<1> HIDE DEF sts
<1>3. Matches(docs, graph)
  BY <1>1, QuietMatches DEF Write, Quiet, GraphQuiet
<1>4. graph' = RunAll(TRUE, graph, sts)
  BY <1>1 DEF Write
<1>5. graph \in Db /\ Owned(graph) /\ graph' \in Db /\ Owned(graph') /\ docs \in Db
  BY <1>3 DEF GraphInv, Matches
<1>6. Cleared(RunAll(FALSE, docs, sts), FALSE, docs, ps) /\ Cleared(graph', TRUE, graph, ps)
  BY <1>4, <1>5, ClearIs DEF sts
<1>7. Matches(RunAll(FALSE, docs, sts), graph')
  BY <1>3, <1>5, <1>6, ClearMatches
<1> QED BY <1>1, <1>2, <1>5, <1>7, SharedWrite

LEMMA DocsClearTags ==
  ASSUME GraphInv, DocsInv, GraphInv', ClearTags
  PROVE  DocsInv'
<1>1. PICK ids : Write(Shared, ClearOutgoing(ids, "TAGGED"))
  BY DEF ClearTags
<1> DEFINE sts == ClearOutgoing(ids, "TAGGED")
<1>2. Listing(sts)
  BY ListingIs DEF ClearOutgoing
<1> HIDE DEF sts
<1>3. Matches(docs, graph)
  BY <1>1, QuietMatches DEF Write, Quiet, GraphQuiet
<1>4. graph' = RunAll(TRUE, graph, sts)
  BY <1>1 DEF Write, sts
<1>5. graph \in Db /\ Owned(graph) /\ graph' \in Db /\ Owned(graph') /\ docs \in Db
  BY <1>3 DEF GraphInv, Matches
<1>6. ClearedOut(RunAll(FALSE, docs, sts), docs, ids, "TAGGED") /\ ClearedOut(graph', graph, ids, "TAGGED")
  BY <1>4, <1>5, ClearOutIs DEF sts
<1>7. Matches(RunAll(FALSE, docs, sts), graph')
  BY <1>3, <1>5, <1>6, ClearOutMatches
<1>8. Write(Shared, sts)
  BY <1>1 DEF sts
<1> QED BY <1>2, <1>5, <1>7, <1>8, SharedWrite

LEMMA DocsChurn ==
  ASSUME GraphInv, DocsInv, GraphInv', NEW id, MineChurn(id)
  PROVE  DocsInv'
<1> DEFINE sts == SetAttrs(id, {"churn"})
<1>1. Write(Shared, sts) /\ id \in Ids
  <2>1. id \in ParsedIds
    BY DEF MineChurn
  <2>2. PICK q \in Paths : \E v \in Versions[q] : id \in v.ids
    BY <2>1 DEF ParsedIds
  <2> QED BY <2>2, VersionIs DEF MineChurn
<1>2. Listing(sts)
  BY ListingIs DEF SetAttrs
<1> HIDE DEF sts
<1>3. Matches(docs, graph)
  BY <1>1, QuietMatches DEF Write, Quiet, GraphQuiet
<1>4. graph' = RunAll(TRUE, graph, sts)
  BY <1>1 DEF Write
<1>5. graph \in Db /\ Owned(graph) /\ graph' \in Db /\ Owned(graph') /\ docs \in Db
  BY <1>3 DEF GraphInv, Matches
<1>6. AttrsSet(RunAll(FALSE, docs, sts), docs, id) /\ AttrsSet(graph', graph, id)
  BY <1>1, <1>4, <1>5, SetIs DEF sts
<1>7. Matches(RunAll(FALSE, docs, sts), graph')
  BY <1>1, <1>3, <1>5, <1>6, SetMatches
<1> QED BY <1>1, <1>2, <1>5, <1>7, SharedWrite

\* The passes that add.
LEMMA DocsAdd ==
  ASSUME GraphInv, DocsInv, GraphInv', NEW ids \in SUBSET Ids, NEW links \in SUBSET Links,
         Write(Shared, Add(ids, {"parsed"}, links)),
         Reaches(links, ids, graph)
  PROVE  DocsInv'
<1> DEFINE sts == Add(ids, {"parsed"}, links)
<1>1. graph \in Db /\ Owned(graph) /\ graph' \in Db /\ Owned(graph')
  BY DEF GraphInv
<1>2. Listing(sts)
  <2>1. Merges(ids, Shared, {"parsed"}) \in Seq(MergeSts(ids, Row(Shared, {"parsed"})))
    BY <1>1, MergesAre
  <2>2. Creates(links) \in Seq(CreateSts(links))
    BY <1>1, CreatesAre
  <2>3. sts \in Seq(MergeSts(ids, Row(Shared, {"parsed"})) \union CreateSts(links))
    BY <2>1, <2>2, Joined DEF Add
  <2> QED BY <2>3, ListingIs
<1> HIDE DEF sts
<1>3. Write(Shared, sts)
  BY DEF sts
<1>4. Matches(docs, graph)
  BY <1>3, QuietMatches DEF Write, Quiet, GraphQuiet
<1>5. docs \in Db /\ Shared # "missing"
  BY <1>4, WritersAssumption DEF Matches
<1>6. graph' = RunAll(TRUE, graph, sts)
  BY <1>3 DEF Write
<1>7. Added(RunAll(FALSE, docs, sts), FALSE, docs, ids, links)
  BY <1>5, AddIs DEF sts
<1>8. Added(graph', TRUE, graph, ids, links)
  BY <1>1, <1>5, <1>6, AddIs DEF sts
<1>9. Matches(RunAll(FALSE, docs, sts), graph')
  BY <1>1, <1>4, <1>5, <1>7, <1>8, AddMatches
<1> QED BY <1>1, <1>2, <1>3, <1>9, SharedWrite

LEMMA DocsResolve ==
  ASSUME GraphInv, DocsInv, GraphInv', Resolve
  PROVE  DocsInv'
<1> DEFINE seen == Existing(graph) \union Packages
           drawn == {l \in Calls : l.origin \in unresolved /\ {l.src, l.dst} \subseteq seen}
           ids == {l.dst : l \in drawn} \intersect Packages
<1>1. Write(Shared, Add(ids, {"parsed"}, drawn))
  BY DEF Resolve
<1>2. drawn \subseteq Links /\ ids \subseteq Ids
  BY FactIs, SharedAssumption
<1>3. Reaches(drawn, ids, graph)
  <2> SUFFICES ASSUME NEW l \in drawn, l.dst \in Packages PROVE {l.src, l.dst} \subseteq ids \union Existing(graph)
    BY DEF Reaches
  <2>1. l \in Links /\ l.src \notin Packages
    BY <1>2, FactIs
  <2>2. l.src \in Existing(graph)
    BY <2>1
  <2> QED BY <2>2
<1> HIDE DEF drawn, ids
<1> QED BY <1>1, <1>2, <1>3, DocsAdd

LEMMA DocsAddTags ==
  ASSUME GraphInv, DocsInv, GraphInv', AddTags
  PROVE  DocsInv'
<1>1. PICK judged \in SUBSET Tags : Write(Shared, Add({l.dst : l \in judged}, {"parsed"}, judged))
  BY DEF AddTags
<1> DEFINE ids == {l.dst : l \in judged}
<1>2. judged \subseteq Links /\ ids \subseteq Ids /\ Reaches(judged, ids, graph)
  BY FactIs DEF Reaches
<1>3. Write(Shared, Add(ids, {"parsed"}, judged))
  BY <1>1
<1> HIDE DEF ids
<1> QED BY <1>2, <1>3, DocsAdd

LEMMA DocsChunk ==
  ASSUME GraphInv, DocsInv, GraphInv', NEW p \in Paths, EmbedChunk(p)
  PROVE  DocsInv'
<1> DEFINE links == {l \in Links : l.kind = "CHUNK_OF" /\ l.src = ChunkOf[p] /\ l.dst \in given[p].ids}
           ids == {ChunkOf[p]}
<1>1. Write(Shared, Add(ids, {"parsed"}, links))
  BY DEF EmbedChunk
<1>2. ids \subseteq Ids
  BY ChunksAssumption DEF SharedIds
<1>3. Reaches(links, ids, graph)
  BY FactIs DEF Reaches, Kinds
<1>4. links \subseteq Links
  OBVIOUS
<1> HIDE DEF links, ids
<1> QED BY <1>1, <1>2, <1>3, <1>4, DocsAdd

\* The statements of an upsert are those of its path.
LEMMA UpsertSts ==
  ASSUME NEW p \in Paths, NEW ids \in SUBSET IdsOf(p), NEW links \in SUBSET LinksOf(p), NEW db \in Db
  PROVE  Upsert(p, ids, {"parsed"}, links) \in Seq(StOf(p))
<1> DEFINE row == Row(p, {"parsed"})
           a == Merges(ids, p, {"parsed"})
           v == [do |-> "vanished", path |-> p, keep |-> ids]
           w == [do |-> "disown", path |-> p]
           c == Creates(links)
           T == StOf(p)
<1>1. ids \in SUBSET Ids /\ links \in SUBSET Links
  BY IdsApart DEF LinksOf
<1>2. a \in Seq(MergeSts(ids, row)) /\ c \in Seq(CreateSts(links))
  BY <1>1, MergesAre, CreatesAre
<1>3. MergeSts(ids, row) \subseteq T /\ CreateSts(links) \subseteq T
  BY DEF MergeSts, CreateSts, StOf
<1>4. v \in T /\ w \in T
  BY <1>1 DEF StOf, Vanishing, Disowning
<1> HIDE DEF a, c, v, w, T
<1>5. a \in Seq(T) /\ c \in Seq(T)
  BY <1>2, <1>3
<1>6. a \o <<v, w>> \in Seq(T)
  BY <1>4, <1>5
<1>7. (a \o <<v, w>>) \o c \in Seq(T)
  BY <1>5, <1>6
<1> QED BY <1>7 DEF Upsert, a, c, v, w, T

LEMMA DocsUpsert ==
  ASSUME GraphInv, DocsInv, GraphInv', NEW p \in Paths, UpsertFile(p)
  PROVE  DocsInv'
<1>1. PICK v \in Versions[p] : Write(p, Upsert(p, v.ids, {"parsed"}, v.links))
  BY DEF UpsertFile
<1> DEFINE sts == Upsert(p, v.ids, {"parsed"}, v.links)
           later == RunAll(FALSE, docs, sts)
<1>2. /\ graph' = RunAll(TRUE, graph, sts) /\ docs' = docs
      /\ pending' = [pending EXCEPT ![p] = sts]
      /\ pending[p] = <<>> /\ pending[Shared] = <<>>
  BY <1>1 DEF Write
<1>3. /\ v.ids \in SUBSET IdsOf(p) /\ v.ids \in SUBSET Ids /\ v.links \in SUBSET Links
      /\ \A l \in v.links : {l.src, l.dst} \subseteq v.ids /\ l.origin = p
  BY VersionIs
<1>4. Between(v.links, v.ids, p) /\ v.links \in SUBSET LinksOf(p) /\ p # "missing" /\ p # Shared
  BY <1>3, IdsApart DEF Between, LinksOf
<1>5. graph \in Db /\ Owned(graph) /\ graph' \in Db
  BY DEF GraphInv
<1>6. /\ docs \in Db /\ Owned(docs) /\ MatchesShared(docs, graph)
      /\ \A q \in Paths : pending[q] \in Seq(StOf(q)) /\ MatchesPart(q, RunAll(FALSE, docs, pending[q]), graph)
  BY <1>2 DEF DocsInv
<1>7. sts \in Seq(StOf(p))
  BY <1>3, <1>4, <1>5, UpsertSts
<1>8. Upserted(later, FALSE, docs, p, v.ids, v.links)
  BY <1>3, <1>4, <1>6, UpsertIs
<1>9. Upserted(graph', TRUE, graph, p, v.ids, v.links)
  BY <1>2, <1>3, <1>4, <1>5, UpsertIs
<1> HIDE DEF sts, later
<1>10. MatchesPart(p, docs, graph)
  BY <1>2, <1>6, RunNone
<1>11. /\ MatchesPart(p, later, graph')
       /\ \A e \in Db, q \in Paths : q # p /\ MatchesPart(q, e, graph) => MatchesPart(q, e, graph')
       /\ \A e \in Db : MatchesShared(e, graph) => MatchesShared(e, graph')
  BY <1>3, <1>4, <1>5, <1>6, <1>8, <1>9, <1>10, UpsertMatches
<1>12. pending' = [q \in Paths \union {Shared} |-> pending'[q]]
       /\ pending'[p] = sts /\ \A q \in Paths \union {Shared} : q # p => pending'[q] = pending[q]
  BY <1>2 DEF DocsInv
<1>13. pending'[Shared] = <<>> /\ Listing(pending'[Shared])
  BY <1>2, <1>4, <1>12 DEF DocsInv
<1>14. ASSUME NEW q \in Paths
       PROVE  pending'[q] \in Seq(StOf(q)) /\ MatchesPart(q, RunAll(FALSE, docs', pending'[q]), graph')
  <2>1. CASE q = p
    BY <1>2, <1>7, <1>11, <1>12, <2>1 DEF later
  <2>2. CASE q # p
    <3>1. RunAll(FALSE, docs, pending[q]) \in Db
      <4>1. SamePart(q, docs, docs)
        BY DEF SamePart
      <4> QED BY <1>6, <4>1, PartRuns
    <3>2. MatchesPart(q, RunAll(FALSE, docs, pending[q]), graph')
      BY <1>6, <1>11, <2>2, <3>1
    <3> QED BY <1>2, <1>6, <1>12, <2>2, <3>2
  <2> QED BY <2>1, <2>2
<1> QED BY <1>2, <1>6, <1>11, <1>12, <1>13, <1>14 DEF DocsInv

(***************************************************************************)
(* SurrealDB runs a statement.                                             *)
(***************************************************************************)
LEMMA TailIs ==
  ASSUME NEW s, Listing(s), s # <<>>
  PROVE  Listing(Tail(s)) /\ s \in Seq({s[n] : n \in 1..Len(s)})
<1>1. s \in Seq({s[n] : n \in 1..Len(s)})
  BY DEF Listing
<1>2. Tail(s) \in Seq({s[n] : n \in 1..Len(s)})
  <2> DEFINE T == {s[n] : n \in 1..Len(s)}
  <2>1. s \in Seq(T)
    BY <1>1
  <2> HIDE DEF T
  <2>2. Tail(s) \in Seq(T)
    BY <2>1
  <2> QED BY <2>2 DEF T
<1> QED BY <1>1, <1>2, ListingIs

LEMMA DocsRunShared ==
  ASSUME GraphInv, DocsInv, RunStatement(Shared)
  PROVE  DocsInv'
<1> DEFINE s == pending[Shared]
<1>1. /\ s # <<>> /\ docs' = Exec(FALSE, docs, s[1]) /\ pending' = [pending EXCEPT ![Shared] = Tail(s)]
      /\ graph' = graph
  BY DEF RunStatement
<1>2. Listing(s) /\ Matches(RunAll(FALSE, docs, s), graph) /\ \A p \in Paths : pending[p] = <<>>
  BY <1>1 DEF DocsInv
<1>3. /\ pending' = [q \in Paths \union {Shared} |-> pending'[q]] /\ pending'[Shared] = Tail(s)
      /\ \A p \in Paths : pending'[p] = <<>>
  BY <1>1, <1>2, SharedAssumption DEF DocsInv
<1> HIDE DEF s
<1>4. Listing(Tail(s)) /\ s \in Seq({s[n] : n \in 1..Len(s)})
  BY <1>1, <1>2, TailIs
<1>5. RunAll(FALSE, docs', Tail(s)) = RunAll(FALSE, docs, s)
  BY <1>1, <1>4, RunRest
<1>6. CASE Tail(s) = <<>>
  <2>1. Matches(docs', graph') /\ graph' \in Db
    BY <1>1, <1>2, <1>5, <1>6, RunNone DEF GraphInv
  <2>2. \A p \in Paths \union {Shared} : pending'[p] = <<>>
    BY <1>3, <1>6
  <2> QED BY <1>3, <2>1, <2>2, AllRun
<1>7. CASE Tail(s) # <<>>
  BY <1>1, <1>2, <1>3, <1>4, <1>5, <1>7 DEF DocsInv
<1> QED BY <1>6, <1>7

LEMMA DocsRunPath ==
  ASSUME GraphInv, DocsInv, NEW p \in Paths, RunStatement(p)
  PROVE  DocsInv'
<1> DEFINE s == pending[p]
<1>1. /\ s # <<>> /\ docs' = Exec(FALSE, docs, s[1]) /\ pending' = [pending EXCEPT ![p] = Tail(s)]
      /\ graph' = graph
  BY DEF RunStatement
<1>2. p # Shared /\ pending[Shared] = <<>> /\ Listing(pending[Shared])
  BY <1>1, IdsApart DEF DocsInv
<1>3. /\ docs \in Db /\ Owned(docs) /\ MatchesShared(docs, graph)
      /\ \A q \in Paths : pending[q] \in Seq(StOf(q)) /\ MatchesPart(q, RunAll(FALSE, docs, pending[q]), graph)
  BY <1>2 DEF DocsInv
<1>4. pending' = [q \in Paths \union {Shared} |-> pending'[q]]
      /\ pending'[p] = Tail(s) /\ \A q \in Paths \union {Shared} : q # p => pending'[q] = pending[q]
  BY <1>1 DEF DocsInv
<1>5. s \in Seq(StOf(p)) /\ MatchesPart(p, RunAll(FALSE, docs, s), graph)
  BY <1>3
<1> HIDE DEF s
<1> DEFINE T == StOf(p)
<1>6. s[1] \in T /\ Tail(s) \in Seq(T) /\ s \in Seq(T)
  <2>1. s \in Seq(T)
    BY <1>5
  <2> HIDE DEF T
  <2> QED BY <1>1, <2>1
<1>7. SameRest(p, docs', docs)
  BY <1>1, <1>3, <1>6, StatementIs
<1> HIDE DEF T
<1>8. RunAll(FALSE, docs', Tail(s)) = RunAll(FALSE, docs, s)
  BY <1>1, <1>6, RunRest
<1>9. docs' \in Db /\ Owned(docs')
  BY <1>7 DEF SameRest
<1>10. MatchesShared(docs', graph')
  <2>1. \A i \in SharedIds : i \in Ids /\ i \notin IdsOf(p)
    BY IdsApart
  <2> QED BY <1>1, <1>3, <1>7, <2>1 DEF MatchesShared, SameRest, AtLeast
<1>11. ASSUME NEW q \in Paths
       PROVE  pending'[q] \in Seq(StOf(q)) /\ MatchesPart(q, RunAll(FALSE, docs', pending'[q]), graph')
  <2>1. CASE q = p
    BY <1>1, <1>4, <1>5, <1>6, <1>8, <2>1 DEF T
  <2>2. CASE q # p
    <3>1. SamePart(q, docs, docs')
      <4>1. \A i \in IdsOf(q) : i \in Ids /\ i \notin IdsOf(p)
        BY <2>2, IdsApart
      <4> QED BY <1>7, <2>2, <4>1 DEF SamePart, SameRest
    <3> DEFINE a == RunAll(FALSE, docs, pending[q])
               b == RunAll(FALSE, docs', pending[q])
    <3>2. SamePart(q, a, b)
      BY <1>3, <1>9, <3>1, PartRuns
    <3>3. MatchesPart(q, a, graph)
      BY <1>3
    <3> HIDE DEF a, b
    <3>4. MatchesPart(q, b, graph)
      BY <3>2, <3>3 DEF MatchesPart, SamePart, AtLeast
    <3> QED BY <1>1, <1>3, <1>4, <2>2, <3>4 DEF b
  <2> QED BY <2>1, <2>2
<1>12. pending'[Shared] = <<>> /\ Listing(pending'[Shared])
  BY <1>2, <1>4
<1> QED BY <1>4, <1>9, <1>10, <1>11, <1>12 DEF DocsInv

LEMMA DocsStep ==
  ASSUME GraphInv, DocsInv, [StoresNext]_storeVars
  PROVE  DocsInv'
<1>1. GraphInv'
  BY GraphStep
<1>2. CASE UNCHANGED <<graph, docs, pending>>
  BY <1>2 DEF DocsInv
<1>3. ASSUME NEW b, RunCall(b) PROVE UNCHANGED <<graph, docs, pending>>
  BY <1>3 DEF RunCall
<1>4. storeVars' = storeVars => UNCHANGED <<graph, docs, pending>>
  BY DEF storeVars
<1> QED BY <1>1, <1>2, <1>3, <1>4, DocsRunShared, DocsRunPath, DocsUpsert, DocsRemove, DocsScope, DocsResolve,
           DocsClearTags, DocsAddTags, DocsChunk, DocsChurn DEF StoresNext

LEMMA DocsInit == StoresInit => DocsInv
<1> SUFFICES ASSUME StoresInit PROVE DocsInv
  OBVIOUS
<1>1. docs = graph /\ graph \in Db /\ Owned(graph)
  BY GraphInit DEF StoresInit, GraphInv
<1>2. pending = [q \in Paths \union {Shared} |-> <<>>]
  BY DEF StoresInit
<1>3. Listing(<<>>) /\ \A p \in Paths : <<>> \in Seq(StOf(p))
  BY DEF Listing
<1>4. \A l \in Links : AtLeast(l, graph, graph)
  BY <1>1, DbIs DEF AtLeast
<1>5. MatchesShared(graph, graph) /\ \A p \in Paths : MatchesPart(p, graph, graph)
  BY <1>4 DEF MatchesShared, MatchesPart
<1> QED BY <1>1, <1>2, <1>3, <1>5, RunNone DEF DocsInv

(***************************************************************************)
(* What a vector table holds when its statements have run.  There are at   *)
(* most four: a delete, and an upsert of one row.                          *)
(***************************************************************************)
Step(t, s, n) == IF n <= Len(s) THEN Perform(t, s[n]) ELSE t
After(t, s) == Step(Step(Step(Step(t, s, 1), s, 2), s, 3), s, 4)
Short(s) == Listing(s) /\ Len(s) <= 4

LEMMA AfterRest ==
  ASSUME NEW t, NEW s, Short(s), s # <<>>
  PROVE  Short(Tail(s)) /\ After(Perform(t, s[1]), Tail(s)) = After(t, s)
<1> DEFINE u == Tail(s)
<1>1. Len(s) \in 1..4 /\ Listing(u)
  <2>1. Listing(s) /\ Len(s) \in Nat /\ Len(s) <= 4 /\ s = [n \in 1..Len(s) |-> s[n]]
    BY DEF Short, Listing
  <2>2. Len(s) # 0
    BY <2>1
  <2>3. Listing(u)
    BY <2>1, TailIs
  <2> HIDE DEF u
  <2> QED BY <2>1, <2>2, <2>3
<1>2. Len(u) = Len(s) - 1 /\ \A n \in 1..(Len(s) - 1) : u[n] = s[n + 1]
  <2> DEFINE T == {s[n] : n \in 1..Len(s)}
  <2>1. s \in Seq(T)
    BY TailIs DEF Short
  <2> HIDE DEF T
  <2> QED BY <2>1
<1> HIDE DEF u
<1>3. \A x : Step(x, s, 1) = Perform(x, s[1])
  BY <1>1 DEF Step
<1>4. ASSUME NEW n \in 1..3 PROVE \A x : Step(x, u, n) = Step(x, s, n + 1)
  <2>1. n <= Len(u) <=> n + 1 <= Len(s)
    BY <1>1, <1>2
  <2>2. n <= Len(u) => u[n] = s[n + 1]
    BY <1>1, <1>2
  <2> QED BY <2>1, <2>2 DEF Step
<1>5. \A x : Step(x, u, 4) = x
  BY <1>1, <1>2 DEF Step
<1>6. \A x : Step(x, u, 1) = Step(x, s, 2) /\ Step(x, u, 2) = Step(x, s, 3) /\ Step(x, u, 3) = Step(x, s, 4)
  <2>1. 1 \in 1..3 /\ 2 \in 1..3 /\ 3 \in 1..3 /\ 1 + 1 = 2 /\ 2 + 1 = 3 /\ 3 + 1 = 4
    OBVIOUS
  <2> QED BY <1>4, <2>1
<1>7. After(Perform(t, s[1]), u) = After(t, s)
  BY <1>3, <1>5, <1>6 DEF After
<1>8. Len(u) <= 4
  BY <1>1, <1>2
<1> QED BY <1>1, <1>7, <1>8 DEF u, Short

\* The table of some rows, and what the statements do to it.
Table(made, S) == [made |-> made, rows |-> SetToBag(S)]
OfPath(S, p) == {r \in S : r.path = p}

LEMMA RowsAre == \A made, S : Table(made, S).rows = [r \in S |-> 1] /\ DOMAIN Table(made, S).rows = S
BY DEF Table, SetToBag
LEMMA RowsPut == \A made, S, B : [Table(made, S) EXCEPT !.rows = B] = [made |-> made, rows |-> B]
BY DEF Table
LEMMA RowsLeft == \A made, S, gone : Without(Table(made, S).rows, gone) = [r \in {x \in S : x \notin gone} |-> 1]
<1> SUFFICES ASSUME NEW made, NEW S, NEW gone
             PROVE  Without(Table(made, S).rows, gone) = [r \in {x \in S : x \notin gone} |-> 1]
  OBVIOUS
<1> DEFINE rows == Table(made, S).rows
<1>1. DOMAIN rows = S /\ \A r \in S : rows[r] = 1
  <2>1. rows = [r \in S |-> 1]
    BY RowsAre
  <2> HIDE DEF rows
  <2> QED BY <2>1
<1> HIDE DEF rows
<1>2. Without(rows, gone) = [r \in {x \in S : x \notin gone} |-> 1]
  BY <1>1 DEF Without
<1> QED BY <1>2 DEF rows

LEMMA BagsJoin == \A T, R : T \intersect R = {} => [r \in T |-> 1] (+) SetToBag(R) = [r \in T \union R |-> 1]
BY DEF SetToBag, (+)

LEMMA CreatingIs == ASSUME NEW made, NEW S PROVE Perform(Table(made, S), [do |-> "create"]) = Table(TRUE, S)
<1>1. Perform(Table(made, S), [do |-> "create"]) = [Table(made, S) EXCEPT !.made = TRUE]
  BY DEF Perform
<1> QED BY <1>1 DEF Table

LEMMA DroppingIs ==
  ASSUME NEW made, NEW S, NEW refs, \A r \in S : r.ref \notin refs
  PROVE  Perform(Table(made, S), [do |-> "drop", refs |-> refs]) = Table(made, S)
<1> DEFINE t == Table(made, S)
<1>1. Perform(t, [do |-> "drop", refs |-> refs]) = [t EXCEPT !.rows = Without(@, OfRefs(t, refs))]
  BY DEF Perform
<1> HIDE DEF t
<1>2. DOMAIN t.rows = S
  BY RowsAre DEF t
<1>0. \A B : [t EXCEPT !.rows = B] = [made |-> made, rows |-> B]
  BY RowsPut DEF t
<1>3. {x \in S : x \notin OfRefs(t, refs)} = S
  BY <1>2 DEF OfRefs, BagToSet
<1>4. [t EXCEPT !.rows = Without(t.rows, OfRefs(t, refs))] = [made |-> made, rows |-> [r \in S |-> 1]]
  <2>1. \A gone : Without(t.rows, gone) = [r \in {x \in S : x \notin gone} |-> 1]
    BY RowsLeft DEF t
  <2> QED BY <1>0, <1>3, <2>1
<1> QED BY <1>1, <1>4 DEF Table, SetToBag, t

LEMMA AddingIs ==
  ASSUME NEW made, NEW S, NEW R, R \intersect S = {}
  PROVE  Perform(Table(made, S), [do |-> "add", rows |-> R]) = Table(made, S \union R)
<1> DEFINE t == Table(made, S)
<1>1. Perform(t, [do |-> "add", rows |-> R]) = [t EXCEPT !.rows = @ (+) SetToBag(R)]
  BY DEF Perform
<1> HIDE DEF t
<1>2. t.rows (+) SetToBag(R) = [r \in S \union R |-> 1]
  <2>1. t.rows = [r \in S |-> 1]
    BY RowsAre DEF t
  <2> QED BY <2>1, BagsJoin
<1>0. \A B : [t EXCEPT !.rows = B] = [made |-> made, rows |-> B]
  BY RowsPut DEF t
<1>3. [t EXCEPT !.rows = t.rows (+) SetToBag(R)] = [made |-> made, rows |-> [r \in S \union R |-> 1]]
  BY <1>0, <1>2
<1> QED BY <1>1, <1>3 DEF Table, SetToBag, t

LEMMA PuttingIs ==
  ASSUME NEW made, NEW S, NEW r, \A x \in S : x.ref # r.ref
  PROVE  Perform(Table(made, S), [do |-> "put", rows |-> {r}]) = Table(made, S \union {r})
<1> DEFINE t == Table(made, S)
           gone == OfRefs(t, {x.ref : x \in {r}})
<1>1. Perform(t, [do |-> "put", rows |-> {r}]) = [t EXCEPT !.rows = Without(@, gone) (+) SetToBag({r})]
  BY DEF Perform
<1> HIDE DEF t
<1>2. DOMAIN t.rows = S
  BY RowsAre DEF t
<1>0. \A B : [t EXCEPT !.rows = B] = [made |-> made, rows |-> B]
  BY RowsPut DEF t
<1>3. {x \in S : x \notin gone} = S /\ r \notin S
  BY <1>2 DEF OfRefs, BagToSet
<1> HIDE DEF gone
<1>4. Without(t.rows, gone) = [x \in S |-> 1]
  <2>1. Without(t.rows, gone) = [x \in {y \in S : y \notin gone} |-> 1]
    BY RowsLeft DEF t
  <2> QED BY <1>3, <2>1
<1>5. Without(t.rows, gone) (+) SetToBag({r}) = [x \in S \union {r} |-> 1]
  BY <1>3, <1>4, BagsJoin
<1>6. [t EXCEPT !.rows = Without(t.rows, gone) (+) SetToBag({r})] = [made |-> made, rows |-> [x \in S \union {r} |-> 1]]
  BY <1>0, <1>5
<1> QED BY <1>1, <1>6 DEF Table, SetToBag, t

LEMMA DeletingIs ==
  ASSUME NEW made, NEW S, NEW p
  PROVE  Perform(Table(made, S), [do |-> "delete", filter |-> [path |-> p]]) = Table(made, S \ OfPath(S, p))
<1> DEFINE t == Table(made, S)
           gone == {r \in DOMAIN t.rows : Fits(r, [path |-> p])}
<1>1. Perform(t, [do |-> "delete", filter |-> [path |-> p]]) = [t EXCEPT !.rows = Without(@, gone)]
  BY DEF Perform
<1> HIDE DEF t
<1>2. DOMAIN t.rows = S
  BY RowsAre DEF t
<1>0. \A B : [t EXCEPT !.rows = B] = [made |-> made, rows |-> B]
  BY RowsPut DEF t
<1>3. \A r : Fits(r, [path |-> p]) <=> r.path = p
  BY DEF Fits
<1>4. {x \in S : x \notin gone} = S \ OfPath(S, p)
  BY <1>2, <1>3 DEF OfPath
<1> HIDE DEF gone
<1>6. Without(t.rows, gone) = [r \in {x \in S : x \notin gone} |-> 1]
  BY RowsLeft DEF t
<1>5. [t EXCEPT !.rows = Without(t.rows, gone)] = [made |-> made, rows |-> [r \in S \ OfPath(S, p) |-> 1]]
  BY <1>0, <1>4, <1>6
<1> QED BY <1>1, <1>5 DEF Table, SetToBag, t

\* One row of each text that is embedded, under the chunk of its path.
RowsOf(e) == {RowOf(ChunkOf[p], e[p]) : p \in {x \in Paths : e[x] # {}}}

LEMMA RowsRemoved ==
  ASSUME NEW e, NEW p \in Paths, e = [x \in Paths |-> e[x]]
  PROVE  RowsOf([e EXCEPT ![p] = {}]) = RowsOf(e) \ OfPath(RowsOf(e), p)
<1> DEFINE e2 == [e EXCEPT ![p] = {}]
<1>1. \A x \in Paths : e2[x] = IF x = p THEN {} ELSE e[x]
  OBVIOUS
<1>2. \A x \in Paths : \A text : RowOf(ChunkOf[x], text).path = x
  BY ChunksAssumption DEF RowOf
<1> HIDE DEF e2
<1>3. \A r : r \in RowsOf(e2) <=> \E x \in Paths : x # p /\ e[x] # {} /\ r = RowOf(ChunkOf[x], e[x])
  BY <1>1 DEF RowsOf
<1>4. \A r : r \in RowsOf(e) <=> \E x \in Paths : e[x] # {} /\ r = RowOf(ChunkOf[x], e[x])
  BY DEF RowsOf
<1>5. \A r : r \in RowsOf(e2) <=> r \in RowsOf(e) /\ r.path # p
  <2> TAKE r
  <2>1. ASSUME NEW x \in Paths, r = RowOf(ChunkOf[x], e[x]) PROVE r.path = x
    BY <1>2, <2>1
  <2> QED BY <1>3, <1>4, <2>1
<1>6. RowsOf(e2) = RowsOf(e) \ OfPath(RowsOf(e), p)
  BY <1>5 DEF OfPath
<1> QED BY <1>6 DEF e2

NoRow(S, ref) == \A x \in S : x.ref # ref

LEMMA RowsAdded ==
  ASSUME NEW e, NEW p \in Paths, e = [x \in Paths |-> e[x]], NEW text, text # {}
  PROVE  /\ RowsOf([e EXCEPT ![p] = text]) = (RowsOf(e) \ OfPath(RowsOf(e), p)) \union {RowOf(ChunkOf[p], text)}
         /\ NoRow(RowsOf(e) \ OfPath(RowsOf(e), p), ChunkOf[p])
<1> DEFINE e2 == [e EXCEPT ![p] = text]
<1>1. \A x \in Paths : e2[x] = IF x = p THEN text ELSE e[x]
  OBVIOUS
<1>2. \A x \in Paths : \A t : RowOf(ChunkOf[x], t).path = x /\ RowOf(ChunkOf[x], t).ref = ChunkOf[x]
  BY ChunksAssumption DEF RowOf
<1> HIDE DEF e2
<1>3. \A r : r \in RowsOf(e2) <=> \/ r = RowOf(ChunkOf[p], text)
                                  \/ \E x \in Paths : x # p /\ e[x] # {} /\ r = RowOf(ChunkOf[x], e[x])
  BY <1>1 DEF RowsOf
<1>4. \A r : r \in RowsOf(e) <=> \E x \in Paths : e[x] # {} /\ r = RowOf(ChunkOf[x], e[x])
  BY DEF RowsOf
<1>5. \A r : r \in RowsOf(e2) <=> r = RowOf(ChunkOf[p], text) \/ (r \in RowsOf(e) /\ r.path # p)
  BY <1>2, <1>3, <1>4
<1>6. RowsOf(e2) = (RowsOf(e) \ OfPath(RowsOf(e), p)) \union {RowOf(ChunkOf[p], text)}
  BY <1>5 DEF OfPath
<1>7. \A x \in RowsOf(e) \ OfPath(RowsOf(e), p) : x.ref # ChunkOf[p]
  <2> SUFFICES ASSUME NEW r \in RowsOf(e), r.path # p PROVE r.ref # ChunkOf[p]
    BY DEF OfPath
  <2>1. PICK x \in Paths : r = RowOf(ChunkOf[x], e[x])
    BY <1>4
  <2>2. r.ref = ChunkOf[x] /\ r.path = x /\ PathOf[ChunkOf[x]] = x /\ PathOf[ChunkOf[p]] = p
    BY <1>2, <2>1, ChunksAssumption
  <2> QED BY <2>2
<1> QED BY <1>6, <1>7 DEF e2, NoRow

LEMMA AfterNone == \A t : Short(<<>>) /\ After(t, <<>>) = t
BY DEF Short, Listing, After, Step
LEMMA AfterOne == \A t, a : Short(<<a>>) /\ After(t, <<a>>) = Perform(t, a)
BY DEF Short, Listing, After, Step
LEMMA AfterTwo == \A t, a, b : Short(<<a, b>>) /\ After(t, <<a, b>>) = Perform(Perform(t, a), b)
BY DEF Short, Listing, After, Step
LEMMA AfterThree ==
  \A t, a, b, c : Short(<<a, b, c>>) /\ After(t, <<a, b, c>>) = Perform(Perform(Perform(t, a), b), c)
BY DEF Short, Listing, After, Step
LEMMA AfterFour ==
  \A t, a, b, c, d : /\ Short(<<a, b, c, d>>)
                     /\ After(t, <<a, b, c, d>>) = Perform(Perform(Perform(Perform(t, a), b), c), d)
BY DEF Short, Listing, After, Step

LEMMA OneListed == \A x : SetToSeq({x}) = <<x>>
<1> SUFFICES ASSUME NEW x PROVE SetToSeq({x}) = <<x>>
  OBVIOUS
<1> DEFINE s == SetToSeq({x})
<1>1. IsFiniteSet({x})
  BY FS_Singleton
<1>2. /\ s \in Seq({x}) /\ Len(s) \in Nat
      /\ \A m, n \in 1..Len(s) : s[m] = s[n] => m = n
      /\ \A y \in {x} : \E n \in 1..Len(s) : s[n] = y
  BY <1>1, Listed
<1> HIDE DEF s
<1>3. \A n \in 1..Len(s) : s[n] = x
  BY <1>2
<1>4. Len(s) = 1
  <2>1. Len(s) >= 1 /\ Len(s) \in Nat
    BY <1>2
  <2>2. ASSUME Len(s) >= 2 PROVE FALSE
    <3>1. 1 \in 1..Len(s) /\ 2 \in 1..Len(s)
      BY <1>2, <2>2
    <3>2. s[1] = s[2]
      BY <1>3, <3>1
    <3>3. 1 = 2
      BY <1>2, <3>1, <3>2
    <3> QED BY <3>3
  <2>3. Len(s) < 2
    BY <2>1, <2>2
  <2> DEFINE n == Len(s)
  <2>4. n \in Nat /\ n >= 1 /\ n < 2
    BY <2>1, <2>3
  <2> HIDE DEF n
  <2>5. n = 1
    BY <2>4
  <2> QED BY <2>5 DEF n
<1>5. s = <<x>>
  BY <1>2, <1>3, <1>4
<1> QED BY <1>5 DEF s

LEMMA JoinedNone == \A s : Listing(s) => <<>> \o s = s
BY DEF Listing
LEMMA JoinedTwo == ASSUME NEW a, NEW b PROVE <<a>> \o <<b>> = <<a, b>>
<1> DEFINE s == <<a>> \o <<b>>
<1>1. s \in Seq({a, b}) /\ Len(s) = 2 /\ s[1] = a /\ s[2] = b
  OBVIOUS
<1> HIDE DEF s
<1>2. s = <<a, b>>
  BY <1>1
<1> QED BY <1>2 DEF s
LEMMA JoinedThree == ASSUME NEW a, NEW b, NEW c PROVE <<a>> \o <<b, c>> = <<a, b, c>>
<1> DEFINE s == <<a>> \o <<b, c>>
<1>1. s \in Seq({a, b, c}) /\ Len(s) = 3 /\ s[1] = a /\ s[2] = b /\ s[3] = c
  OBVIOUS
<1> HIDE DEF s
<1>2. s = <<a, b, c>>
  BY <1>1
<1> QED BY <1>2 DEF s
LEMMA JoinedFour == ASSUME NEW a, NEW b, NEW c, NEW d PROVE <<a>> \o <<b, c, d>> = <<a, b, c, d>>
<1> DEFINE s == <<a>> \o <<b, c, d>>
<1>1. s \in Seq({a, b, c, d}) /\ Len(s) = 4 /\ s[1] = a /\ s[2] = b /\ s[3] = c /\ s[4] = d
  OBVIOUS
<1> HIDE DEF s
<1>2. s = <<a, b, c, d>>
  BY <1>1
<1> QED BY <1>2 DEF s

(***************************************************************************)
(* The two writes of vectors.                                              *)
(***************************************************************************)
\* A table that is not there yet has to have no rows; SurrealDB's always is.
Fine(b, made, S) == made \in BOOLEAN /\ (made \/ S = {}) /\ (b = "surreal" => made)

Removing(b, made, p) == DeleteWhere(b, made, [path |-> p])
LEMMA RemovingIs ==
  ASSUME NEW b \in Backends, NEW S, NEW made, Fine(b, made, S), NEW p
  PROVE  Short(Removing(b, made, p)) /\ After(Table(made, S), Removing(b, made, p)) = Table(made, S \ OfPath(S, p))
<1> DEFINE d == [do |-> "delete", filter |-> [path |-> p]]
<1>1. CASE Removing(b, made, p) = <<d>>
  <2>1. Perform(Table(made, S), d) = Table(made, S \ OfPath(S, p))
    BY DeletingIs
  <2> HIDE DEF d
  <2> QED BY <1>1, <2>1, AfterOne
<1>2. CASE Removing(b, made, p) = <<>> /\ ~made
  <2>1. S = S \ OfPath(S, p)
    BY <1>2 DEF Fine
  <2> QED BY <1>2, <2>1, AfterNone
<1> QED BY <1>1, <1>2 DEF Removing, DeleteWhere, Fine

Replacing(b, made, p, r) == DeleteWhere(b, made, [path |-> p]) \o UpsertRows(b, {r})
NoneBesides(S, p, r) == NoRow(S \ OfPath(S, p), r.ref)
Exchanged(b, made, S, p, r) ==
  /\ Short(Replacing(b, made, p, r))
  /\ After(Table(made, S), Replacing(b, made, p, r)) = Table(TRUE, (S \ OfPath(S, p)) \union {r})
LEMMA ReplacingIs ==
  ASSUME NEW b \in Backends, NEW S, NEW made, Fine(b, made, S), NEW p, NEW r, NoneBesides(S, p, r)
  PROVE  Exchanged(b, made, S, p, r)
<1> DEFINE d == [do |-> "delete", filter |-> [path |-> p]]
           c == [do |-> "create"]
           a == [do |-> "add", rows |-> {r}]
           o == [do |-> "drop", refs |-> {x.ref : x \in {r}}]
           u == [do |-> "put", rows |-> {r}]
           T == S \ OfPath(S, p)
           TR == T \union {r}
<1>1. Perform(Table(made, S), d) = Table(made, T)
  BY DeletingIs
<1>2. \A m : Perform(Table(m, T), c) = Table(TRUE, T) /\ Perform(Table(m, S), c) = Table(TRUE, S)
  BY CreatingIs
<1>3. Perform(Table(TRUE, T), o) = Table(TRUE, T)
  <2> DEFINE refs == {x.ref : x \in {r}}
  <2>1. \A x \in T : x.ref \notin refs
    BY DEF NoneBesides, NoRow
  <2> HIDE DEF T, refs
  <2>2. Perform(Table(TRUE, T), [do |-> "drop", refs |-> refs]) = Table(TRUE, T)
    BY <2>1, DroppingIs
  <2> QED BY <2>2 DEF refs
<1>4. Perform(Table(TRUE, T), a) = Table(TRUE, TR)
  <2>1. {r} \intersect T = {}
    BY DEF NoneBesides, NoRow
  <2> HIDE DEF T
  <2> QED BY <2>1, AddingIs
<1>5. \A m : Perform(Table(m, T), u) = Table(m, TR)
  <2>1. \A x \in T : x.ref # r.ref
    BY DEF NoneBesides, NoRow
  <2> HIDE DEF T
  <2> QED BY <2>1, PuttingIs
<1>6. (~made => T = S) /\ made \in BOOLEAN /\ (b = "surreal" => made = TRUE)
  BY DEF Fine
<1>7. {r} # {}
  OBVIOUS
<1> HIDE DEF T, TR, d, c, a, o, u
<1>8. CASE b = "lance"
  <2>1. Replacing(b, made, p, r) = <<d, c, o, a>>
    <3>1. UpsertRows(b, {r}) = <<c, o, a>>
      BY <1>7, <1>8 DEF UpsertRows, LanceUpsert, c, o, a
    <3>2. DeleteWhere(b, made, [path |-> p]) = <<d>>
      BY <1>8 DEF DeleteWhere, d
    <3> QED BY <3>1, <3>2, JoinedFour DEF Replacing
  <2>2. Perform(Perform(Perform(Perform(Table(made, S), d), c), o), a) = Table(TRUE, TR)
    BY <1>1, <1>2, <1>3, <1>4
  <2>3. Short(<<d, c, o, a>>) /\ After(Table(made, S), <<d, c, o, a>>) = Table(TRUE, TR)
    <3> DEFINE t == Table(made, S)
    <3> HIDE DEF t
    <3>1. Short(<<d, c, o, a>>) /\ After(t, <<d, c, o, a>>) = Perform(Perform(Perform(Perform(t, d), c), o), a)
      BY AfterFour
    <3> QED BY <2>2, <3>1 DEF t
  <2> QED BY <2>1, <2>3 DEF TR, T, Exchanged
<1>9. CASE b = "pgvector" /\ made
  <2>1. Replacing(b, made, p, r) = <<d, c, u>>
    BY <1>7, <1>9, JoinedThree DEF Replacing, DeleteWhere, UpsertRows, PgUpsert, d, c, u
  <2>2. Perform(Perform(Perform(Table(made, S), d), c), u) = Table(TRUE, TR)
    BY <1>1, <1>2, <1>5
  <2>3. Short(<<d, c, u>>) /\ After(Table(made, S), <<d, c, u>>) = Table(TRUE, TR)
    <3> DEFINE t == Table(made, S)
    <3> HIDE DEF t
    <3>1. Short(<<d, c, u>>) /\ After(t, <<d, c, u>>) = Perform(Perform(Perform(t, d), c), u)
      BY AfterThree
    <3> QED BY <2>2, <3>1 DEF t
  <2> QED BY <2>1, <2>3 DEF TR, T, Exchanged
<1>10. CASE b = "pgvector" /\ ~made
  <2>1. Replacing(b, made, p, r) = <<c, u>>
    BY <1>7, <1>10, AfterTwo, JoinedNone DEF Replacing, DeleteWhere, UpsertRows, PgUpsert, c, u, Short
  <2>2. Perform(Perform(Table(made, S), c), u) = Table(TRUE, TR)
    BY <1>2, <1>5, <1>6, <1>10
  <2>3. Short(<<c, u>>) /\ After(Table(made, S), <<c, u>>) = Table(TRUE, TR)
    <3> DEFINE t == Table(made, S)
    <3> HIDE DEF t
    <3>1. Short(<<c, u>>) /\ After(t, <<c, u>>) = Perform(Perform(t, c), u)
      BY AfterTwo
    <3> QED BY <2>2, <3>1 DEF t
  <2> QED BY <2>1, <2>3 DEF TR, T, Exchanged
<1>11. CASE b = "surreal"
  <2>1. UpsertRows(b, {r}) = <<u>>
    <3>1. {[do |-> "put", rows |-> {q}] : q \in {r}} = {u}
      BY DEF u
    <3>2. UpsertRows(b, {r}) = SetToSeq({[do |-> "put", rows |-> {q}] : q \in {r}})
      BY <1>7, <1>11 DEF UpsertRows, SurrealUpsert
    <3> QED BY <3>1, <3>2, OneListed
  <2>2. Replacing(b, made, p, r) = <<d, u>>
    BY <1>11, <2>1, JoinedTwo DEF Replacing, DeleteWhere, d
  <2>3. Perform(Perform(Table(made, S), d), u) = Table(made, TR)
    BY <1>1, <1>5
  <2>4. Short(<<d, u>>) /\ After(Table(made, S), <<d, u>>) = Table(TRUE, TR)
    <3> DEFINE t == Table(made, S)
    <3> HIDE DEF t
    <3>1. Short(<<d, u>>) /\ After(t, <<d, u>>) = Perform(Perform(t, d), u)
      BY AfterTwo
    <3>2. made = TRUE
      BY <1>6, <1>11
    <3> QED BY <2>3, <3>1, <3>2 DEF t
  <2> QED BY <2>2, <2>4 DEF TR, T, Exchanged
<1> QED BY <1>8, <1>9, <1>10, <1>11 DEF Backends

\* Every table comes to the rows of what is embedded; one that does not exist yet has to have none.
VectorsInv ==
  /\ tables = [b \in Backends |-> tables[b]] /\ calls = [b \in Backends |-> calls[b]]
  /\ embedded = [p \in Paths |-> embedded[p]]
  /\ \A b \in Backends :
       /\ Short(calls[b])
       /\ \E made : Fine(b, made, RowsOf(embedded)) /\ After(tables[b], calls[b]) = Table(made, RowsOf(embedded))

\* Between two writes.
LEMMA TablesAre ==
  ASSUME VectorsInv, \A b \in Backends : calls[b] = <<>>, NEW b \in Backends
  PROVE  \E made : Fine(b, made, RowsOf(embedded)) /\ tables[b] = Table(made, RowsOf(embedded))
<1>1. calls[b] = <<>>
  OBVIOUS
<1>2. PICK made : Fine(b, made, RowsOf(embedded)) /\ After(tables[b], calls[b]) = Table(made, RowsOf(embedded))
  BY DEF VectorsInv
<1>3. After(tables[b], <<>>) = tables[b]
  BY AfterNone
<1> QED BY <1>1, <1>2, <1>3

LEMMA MadeIs == \A made, S : Table(made, S).made = made
BY DEF Table

LEMMA RowsEmpty == \A e : (RowsOf(e) = {}) <=> (\A p \in Paths : e[p] = {})
BY DEF RowsOf

LEMMA VectorsRemove ==
  ASSUME VectorsInv, ~OpensEarly, NEW p \in Paths, RemoveFile(p)
  PROVE  VectorsInv'
<1> DEFINE seen == tables["pgvector"].made
           S == RowsOf(embedded)
           T == S \ OfPath(S, p)
<1>1. /\ calls' = [b \in Backends |-> DeleteWhere(b, seen, [path |-> p])]
      /\ embedded' = [embedded EXCEPT ![p] = {}] /\ tables' = tables
      /\ \A b \in Backends : calls[b] = <<>>
  BY DEF RemoveFile, Seen, Write
<1>2. RowsOf(embedded') = T
  BY <1>1, RowsRemoved DEF VectorsInv
<1>3. ASSUME NEW b \in Backends
      PROVE  /\ Short(calls'[b])
             /\ \E made : /\ Fine(b, made, RowsOf(embedded'))
                          /\ After(tables'[b], calls'[b]) = Table(made, RowsOf(embedded'))
  <2>1. PICK made : Fine(b, made, S) /\ tables[b] = Table(made, S)
    BY <1>1, TablesAre
  <2>2. DeleteWhere(b, seen, [path |-> p]) = Removing(b, made, p)
    <3>1. b = "pgvector" => seen = made
      BY <2>1, MadeIs
    <3> QED BY <3>1 DEF Removing, DeleteWhere
  <2>3. Short(Removing(b, made, p)) /\ After(Table(made, S), Removing(b, made, p)) = Table(made, T)
    BY <2>1, RemovingIs
  <2>4. Fine(b, made, T)
    BY <2>1 DEF Fine
  <2> QED BY <1>1, <1>2, <2>1, <2>2, <2>3, <2>4
<1>4. /\ tables' = [b \in Backends |-> tables'[b]] /\ calls' = [b \in Backends |-> calls'[b]]
      /\ embedded' = [q \in Paths |-> embedded'[q]]
  BY <1>1 DEF VectorsInv
<1> QED BY <1>3, <1>4 DEF VectorsInv

LEMMA VectorsEmbed ==
  ASSUME GraphInv, VectorsInv, ~OpensEarly, NEW p \in Paths, EmbedChunk(p)
  PROVE  VectorsInv'
<1> DEFINE seen == tables["pgvector"].made
           S == RowsOf(embedded)
           T == S \ OfPath(S, p)
           text == given[p].ids
           r == RowOf(ChunkOf[p], text)
           TR == T \union {r}
<1>1. /\ calls' = [b \in Backends |-> DeleteWhere(b, seen, [path |-> p]) \o UpsertRows(b, {r})]
      /\ embedded' = [embedded EXCEPT ![p] = text] /\ tables' = tables
      /\ \A b \in Backends : calls[b] = <<>>
  BY DEF EmbedChunk, Write
<1>2. text # {}
  <2>1. given[p] \in Versions[p]
    BY DEF EmbedChunk, GraphInv, GivenOk
  <2> QED BY <2>1, VersionIs
<1>3. RowsOf(embedded') = TR /\ NoRow(T, r.ref)
  <2>1. r.ref = ChunkOf[p]
    BY DEF RowOf
  <2> HIDE DEF text
  <2>2. embedded = [q \in Paths |-> embedded[q]]
    BY DEF VectorsInv
  <2>3. RowsOf([embedded EXCEPT ![p] = text]) = T \union {RowOf(ChunkOf[p], text)} /\ NoRow(T, ChunkOf[p])
    BY <1>2, <2>2, RowsAdded
  <2> QED BY <1>1, <2>1, <2>3
<1> HIDE DEF r
<1>4. ASSUME NEW b \in Backends
      PROVE  /\ Short(calls'[b])
             /\ \E made : /\ Fine(b, made, RowsOf(embedded'))
                          /\ After(tables'[b], calls'[b]) = Table(made, RowsOf(embedded'))
  <2>1. PICK made : Fine(b, made, S) /\ tables[b] = Table(made, S)
    BY <1>1, TablesAre
  <2>2. calls'[b] = Replacing(b, made, p, r)
    <3>1. b = "pgvector" => seen = made
      BY <2>1, MadeIs
    <3>2. DeleteWhere(b, seen, [path |-> p]) = DeleteWhere(b, made, [path |-> p])
      BY <3>1 DEF DeleteWhere
    <3> QED BY <1>1, <3>2 DEF Replacing
  <2>3. /\ Short(Replacing(b, made, p, r))
        /\ After(Table(made, S), Replacing(b, made, p, r)) = Table(TRUE, TR)
    <3>1. NoneBesides(S, p, r)
      BY <1>3 DEF NoneBesides
    <3> HIDE DEF S
    <3>2. Exchanged(b, made, S, p, r)
      BY <2>1, <3>1, ReplacingIs
    <3> QED BY <3>2 DEF Exchanged
  <2>4. Fine(b, TRUE, TR)
    BY DEF Fine
  <2> QED BY <1>1, <1>3, <2>1, <2>2, <2>3, <2>4
<1>5. /\ tables' = [b \in Backends |-> tables'[b]] /\ calls' = [b \in Backends |-> calls'[b]]
      /\ embedded' = [q \in Paths |-> embedded'[q]]
  BY <1>1 DEF VectorsInv
<1> QED BY <1>4, <1>5 DEF VectorsInv

(***************************************************************************)
(* Every step keeps the tables, and a search sees no more than they hold.  *)
(***************************************************************************)
LEMMA VectorsRun ==
  ASSUME VectorsInv, NEW b \in Backends, RunCall(b)
  PROVE  VectorsInv'
<1>1. /\ calls[b] # <<>> /\ embedded' = embedded
      /\ tables' = [tables EXCEPT ![b] = Perform(@, calls[b][1])] /\ calls' = [calls EXCEPT ![b] = Tail(@)]
  BY DEF RunCall
<1>2. /\ tables' = [c \in Backends |-> tables'[c]] /\ calls' = [c \in Backends |-> calls'[c]]
      /\ embedded' = [p \in Paths |-> embedded'[p]]
  BY <1>1 DEF VectorsInv
<1>3. ASSUME NEW c \in Backends
      PROVE  Short(calls'[c]) /\ After(tables'[c], calls'[c]) = After(tables[c], calls[c])
  <2>1. Short(calls[c])
    BY DEF VectorsInv
  <2>2. CASE c # b
    <3>1. tables'[c] = tables[c] /\ calls'[c] = calls[c]
      BY <1>1, <2>2 DEF VectorsInv
    <3> QED BY <2>1, <3>1
  <2>3. CASE c = b
    <3>1. tables'[c] = Perform(tables[c], calls[c][1]) /\ calls'[c] = Tail(calls[c])
      BY <1>1, <2>3 DEF VectorsInv
    <3> QED BY <1>1, <2>1, <2>3, <3>1, AfterRest
  <2> QED BY <2>2, <2>3
<1>4. ASSUME NEW c \in Backends
      PROVE  /\ Short(calls'[c])
             /\ \E made : /\ Fine(c, made, RowsOf(embedded'))
                          /\ After(tables'[c], calls'[c]) = Table(made, RowsOf(embedded'))
  <2>1. PICK made : Fine(c, made, RowsOf(embedded)) /\ After(tables[c], calls[c]) = Table(made, RowsOf(embedded))
    BY DEF VectorsInv
  <2> QED BY <1>1, <1>3, <2>1
<1> QED BY <1>2, <1>4 DEF VectorsInv

LEMMA VectorsStep ==
  ASSUME ~OpensEarly, GraphInv, VectorsInv, [StoresNext]_storeVars
  PROVE  VectorsInv'
<1>1. CASE UNCHANGED <<tables, calls, embedded>>
  BY <1>1 DEF VectorsInv
<1>2. storeVars' = storeVars => UNCHANGED <<tables, calls, embedded>>
  BY DEF storeVars, vectors
<1>3. ASSUME NEW p, RunStatement(p) \/ UpsertFile(p) PROVE UNCHANGED <<tables, calls, embedded>>
  BY <1>3 DEF RunStatement, UpsertFile, vectors
<1>4. ASSUME NEW ps, ClearScope(ps) PROVE UNCHANGED <<tables, calls, embedded>>
  BY <1>4 DEF ClearScope, vectors
<1>5. ASSUME Resolve \/ ClearTags \/ AddTags PROVE UNCHANGED <<tables, calls, embedded>>
  BY <1>5 DEF Resolve, ClearTags, AddTags, vectors
<1>6. ASSUME NEW i, MineChurn(i) PROVE UNCHANGED <<tables, calls, embedded>>
  BY <1>6 DEF MineChurn, vectors
<1> QED BY <1>1, <1>2, <1>3, <1>4, <1>5, <1>6, VectorsRun, VectorsRemove, VectorsEmbed DEF StoresNext

LEMMA VectorsInit == StoresInit => VectorsInv
<1> SUFFICES ASSUME StoresInit PROVE VectorsInv
  OBVIOUS
<1>1. /\ tables = [b \in Backends |-> NoTable(b)] /\ calls = [b \in Backends |-> <<>>]
      /\ embedded = [p \in Paths |-> {}]
  BY DEF StoresInit
<1>2. RowsOf(embedded) = {}
  BY <1>1, RowsEmpty
<1>3. ASSUME NEW b \in Backends PROVE tables[b] = Table(b = "surreal", {}) /\ Fine(b, b = "surreal", {})
  <2>1. SetToBag({}) = EmptyBag
    BY DEF EmptyBag
  <2> QED BY <1>1, <2>1 DEF NoTable, Table, Fine
<1>4. \A b \in Backends : Short(calls[b]) /\ After(tables[b], calls[b]) = tables[b]
  BY <1>1, AfterNone
<1>5. /\ tables = [b \in Backends |-> tables[b]] /\ calls = [b \in Backends |-> calls[b]]
      /\ embedded = [p \in Paths |-> embedded[p]]
  BY <1>1
<1> QED BY <1>2, <1>3, <1>4, <1>5 DEF VectorsInv

\* A search looks at the rows alone.
Left(S, filter) == [r \in {x \in S : Fits(x, filter)} |-> 1]
Found(t, filter) == [t EXCEPT !.rows = Without(@, {r \in DOMAIN @ : ~Fits(r, filter)})]
LEMMA FoundIs == ASSUME NEW made, NEW S, NEW filter PROVE Found(Table(made, S), filter).rows = Left(S, filter)
<1> DEFINE t == Table(made, S)
           gone == {r \in DOMAIN t.rows : ~Fits(r, filter)}
<1>1. Found(t, filter) = [t EXCEPT !.rows = Without(t.rows, gone)]
  BY DEF Found
<1>2. DOMAIN t.rows = S
  BY RowsAre
<1>3. \A B : [t EXCEPT !.rows = B] = [made |-> made, rows |-> B]
  BY RowsPut
<1>4. \A g : Without(t.rows, g) = [r \in {x \in S : x \notin g} |-> 1]
  BY RowsLeft
<1>5. {x \in S : x \notin gone} = {x \in S : Fits(x, filter)}
  BY <1>2
<1> HIDE DEF t, gone
<1>6. Without(t.rows, gone) = Left(S, filter)
  BY <1>4, <1>5 DEF Left
<1>7. Found(t, filter) = [made |-> made, rows |-> Left(S, filter)]
  BY <1>1, <1>3, <1>6
<1>8. Found(t, filter).rows = Left(S, filter)
  BY <1>7
<1> QED BY <1>8 DEF t

LEMMA NearestLooks ==
  ASSUME NEW t, NEW q, NEW k, NEW filter
  PROVE  Nearest(t, q, k, filter)
           = {r.ref : r \in {x \in DOMAIN Found(t, filter).rows : Nearer(Found(t, filter), q, x) < k}}
BY DEF Nearest, Found

LEMMA NearestIs ==
  ASSUME NEW made, NEW other, NEW S, NEW q, NEW k, NEW filter
  PROVE  Nearest(Table(made, S), q, k, filter) = Nearest(Table(other, S), q, k, filter)
<1> DEFINE f == Found(Table(made, S), filter)
           g == Found(Table(other, S), filter)
<1>1. f.rows = g.rows
  BY FoundIs
<1>2. /\ Nearest(Table(made, S), q, k, filter) = {r.ref : r \in {x \in DOMAIN f.rows : Nearer(f, q, x) < k}}
      /\ Nearest(Table(other, S), q, k, filter) = {r.ref : r \in {x \in DOMAIN g.rows : Nearer(g, q, x) < k}}
  BY NearestLooks
<1> HIDE DEF f, g
<1>3. \A x : Nearer(f, q, x) = Nearer(g, q, x)
  BY <1>1 DEF Nearer
<1>4. {x \in DOMAIN f.rows : Nearer(f, q, x) < k} = {x \in DOMAIN g.rows : Nearer(g, q, x) < k}
  BY <1>1, <1>3
<1> QED BY <1>2, <1>4

LEMMA NearestOfNone ==
  ASSUME NEW made, NEW S, S = {}, NEW q, NEW k, NEW filter
  PROVE  Nearest(Table(made, S), q, k, filter) = {}
<1> DEFINE f == Found(Table(made, S), filter)
<1>1. f.rows = Left(S, filter)
  BY FoundIs
<1>2. Nearest(Table(made, S), q, k, filter) = {r.ref : r \in {x \in DOMAIN f.rows : Nearer(f, q, x) < k}}
  BY NearestLooks
<1> HIDE DEF f
<1>3. DOMAIN f.rows = {}
  BY <1>1 DEF Left
<1> QED BY <1>2, <1>3

LEMMA VectorsAre ==
  ASSUME ~OpensEarly, VectorsInv
  PROVE  VectorsAlike
<1> DEFINE S == RowsOf(embedded)
<1>1. SUFFICES ASSUME Quiet, NEW b \in Backends
               PROVE  /\ tables[b].rows = SetToBag(S)
                      /\ \A seen \in Seen, q \in Queries, k \in 1..Cardinality(Paths), p \in Paths :
                           \A filter \in {<<>>, [path |-> p]} :
                             Search(b, seen, tables[b], q, k, filter) = Nearest(tables["surreal"], q, k, filter)
  BY DEF VectorsAlike, RowsOf
<1>2. \A c \in Backends : calls[c] = <<>>
  BY <1>1 DEF Quiet
<1> HIDE DEF S
<1>3. \A c \in Backends : \E made : Fine(c, made, S) /\ tables[c] = Table(made, S)
  BY <1>2, TablesAre DEF S
<1>4. PICK made : Fine(b, made, S) /\ tables[b] = Table(made, S)
  BY <1>3
<1>5. PICK other : Fine("surreal", other, S) /\ tables["surreal"] = Table(other, S)
  BY <1>3 DEF Backends
<1>6. ASSUME NEW seen \in Seen, NEW q, NEW k, NEW filter
      PROVE  Search(b, seen, Table(made, S), q, k, filter) = Nearest(Table(other, S), q, k, filter)
  <2>1. b = "pgvector" => seen = made
    BY <1>4, MadeIs DEF Seen
  <2>2. CASE made
    <3>1. Search(b, seen, Table(made, S), q, k, filter) = Nearest(Table(made, S), q, k, filter)
      BY <2>1, <2>2, MadeIs DEF Search
    <3>2. Nearest(Table(made, S), q, k, filter) = Nearest(Table(other, S), q, k, filter)
      BY NearestIs
    <3> QED BY <3>1, <3>2
  <2>3. CASE ~made
    <3>1. Search(b, seen, Table(made, S), q, k, filter) = {} /\ S = {}
      BY <1>4, <2>3, MadeIs DEF Search, Fine
    <3> QED BY <3>1, NearestOfNone
  <2> QED BY <2>2, <2>3
<1>7. tables[b].rows = SetToBag(S)
  BY <1>4 DEF Table
<1>8. \A seen \in Seen, q \in Queries, k \in 1..Cardinality(Paths), p \in Paths :
        \A filter \in {<<>>, [path |-> p]} :
          Search(b, seen, tables[b], q, k, filter) = Nearest(tables["surreal"], q, k, filter)
  <2> TAKE seen \in Seen, q \in Queries, k \in 1..Cardinality(Paths), p \in Paths
  <2> TAKE filter \in {<<>>, [path |-> p]}
  <2>1. Search(b, seen, Table(made, S), q, k, filter) = Nearest(Table(other, S), q, k, filter)
    BY <1>6
  <2> QED BY <1>4, <1>5, <2>1
<1> QED BY <1>7, <1>8

LEMMA GivenIsHeld ==
  ASSUME GraphInv, NEW p \in Paths
  PROVE  /\ OwnedBy(graph, p) = given[p].ids
         /\ {l \in Stored(graph) : l.origin = p /\ ~l.resolved} = given[p].links
<1>1. given[p].links \subseteq Links /\ \A l \in given[p].links : l.origin = p /\ ~l.resolved
  BY GivenIs DEF GraphInv
<1>2. /\ OwnedBy(graph, p) = given[p].ids
      /\ \A l \in Links : l.origin = p /\ ~l.resolved => (graph.edges[l] > 0 <=> l \in given[p].links)
  BY DEF GraphInv, Holds
<1> QED BY <1>1, <1>2 DEF Stored

LEMMA DocsAre ==
  ASSUME GraphInv, DocsInv, Quiet
  PROVE  docs.nodes = graph.nodes /\ \A l \in Links : docs.edges[l] >= graph.edges[l]
<1>1. Matches(docs, graph)
  BY QuietMatches DEF Quiet, GraphQuiet
<1>2. docs \in Db /\ graph \in Db
  BY <1>1 DEF GraphInv, Matches
<1>3. docs.nodes = [i \in Ids |-> docs.nodes[i]] /\ graph.nodes = [i \in Ids |-> graph.nodes[i]]
  BY <1>2 DEF Db
<1>4. docs.nodes = graph.nodes
  BY <1>1, <1>3 DEF Matches
<1> QED BY <1>1, <1>4 DEF Matches, AtLeast

\* Whatever the order in which SurrealDB runs the statements of two files, and whenever the
\* vector stores answer, every store comes to hold what the passes wrote (store/facade.py),
\* if no client of Postgres was open before the table of the vectors was made.
THEOREM BackendsHold ==
  ASSUME ~OpensEarly
  PROVE  StoresSpec => []BackendsHoldWhatWasGiven
<1> DEFINE StoresInv == GraphInv /\ DocsInv /\ VectorsInv
<1>1. StoresInit => StoresInv
  BY GraphInit, DocsInit, VectorsInit
<1>2. StoresInv /\ [StoresNext]_storeVars => StoresInv'
  <2> SUFFICES ASSUME StoresInv, [StoresNext]_storeVars PROVE StoresInv'
    OBVIOUS
  <2>1. GraphInv'
    BY GraphStep
  <2>2. DocsInv'
    BY DocsStep
  <2>3. VectorsInv'
    BY VectorsStep
  <2> QED BY <2>1, <2>2, <2>3
<1>3. StoresInv => BackendsHoldWhatWasGiven
  <2> SUFFICES ASSUME StoresInv PROVE BackendsHoldWhatWasGiven
    OBVIOUS
  <2>1. VectorsAlike
    BY VectorsAre
  <2>2. Quiet => docs.nodes = graph.nodes /\ \A l \in Links : docs.edges[l] >= graph.edges[l]
    BY DocsAre
  <2> QED BY <2>1, <2>2, GivenIsHeld DEF BackendsHoldWhatWasGiven
<1> QED BY <1>1, <1>2, <1>3, PTL DEF StoresSpec
=============================================================================
