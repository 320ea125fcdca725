---------------------------- MODULE SymbolHistory ----------------------------
(***************************************************************************)
(* The history of a repository's symbols as the temporal layer tells it:   *)
(* the live index writes the log at the commits it runs at, a backfill     *)
(* (temporal/backfill.py) replays older commits into the same log, churn   *)
(* mining (temporal/mining.py, recorder.py) keeps a roll-up per symbol,    *)
(* and temporal/index.py answers from both.  The history is linear and     *)
(* committer times grow with it, so a commit stands for its time.          *)
(***************************************************************************)
EXTENDS TemporalLog, Sequences, FiniteSets, FiniteSetsExt

CONSTANTS
  Symbols,
  FileOf,       \* symbol -> its file
  Trees,        \* what a commit may hold: symbol -> its lines, numbered in the order they keep in the file
  Depths,       \* values of --history, Full among them
  Full,
  Window,       \* ChurnMiner's window, in commits
  Aligned,      \* backfills only replay from, and up to, commits the live index ran at
  MaxCommits, MaxBackfills, MaxFailures

Absent == {}

ASSUME HistoryAssumption ==
  /\ Trees \subseteq [Symbols -> SUBSET Nat]
  /\ Window \in Nat /\ MaxCommits \in Nat /\ MaxBackfills \in Nat /\ MaxFailures \in Nat
\* parse_history: a number is no less than nothing.
ASSUME DepthsAssumption == Depths \subseteq Nat \union {Full}

VARIABLES
  past,        \* the commits' trees; HEAD is the last
  indexedAt,   \* the commit the live graph is of, 0 before the first index
  log,         \* temporal.db: events, the rows of each symbol
  aggregates,  \* temporal.db: the roll-up of each symbol, NoAggregate if none
  cursor,      \* temporal.db: backfilled_through, 0 if unset
  job,         \* the backfill under way
  backfills, failures,
  \* kept for the properties only:
  observed,    \* commits at which the log was told of the whole tree
  indexed,     \* those the live index ran at
  tornFrom     \* the oldest commit of a replay that did not get to its end, 0 if none

live == <<indexedAt, aggregates>>
bounds == <<backfills, failures>>
vars == <<past, live, log, cursor, job, bounds, observed, indexed, tornFrom>>

HEAD == Len(past)
\* The symbols that are extracted from the tree of a commit.
Present(c) == {s \in Symbols : past[c][s] # Absent}
NoJob == [pc |-> "idle"]
NoAggregate == [last |-> 0, first |-> 0, commits |-> 0]

Init ==
  /\ past \in {<<t>> : t \in Trees}
  /\ indexedAt = 0
  /\ log = [s \in Symbols |-> {}]
  /\ aggregates = [s \in Symbols |-> NoAggregate]
  /\ cursor = 0 /\ job = NoJob
  /\ backfills = 0 /\ failures = 0
  /\ observed = {} /\ indexed = {} /\ tornFrom = 0

Commit ==
  /\ HEAD < MaxCommits
  /\ \E t \in Trees : past' = Append(past, t)
  /\ UNCHANGED <<live, log, cursor, job, bounds, observed, indexed, tornFrom>>

(***************************************************************************)
(* Writing the log: what a run over the difference of two trees records.   *)
(***************************************************************************)
Recorded(rows, opened, closed, c) ==
  [s \in Symbols |-> IF s \in opened THEN Record(rows[s], "opened", c)
                     ELSE IF s \in closed THEN Record(rows[s], "closed", c) ELSE rows[s]]

\* Files whose content differs between two commits.
TouchedFiles(old, new) == {FileOf[s] : s \in {t \in Symbols : past[old][t] # past[new][t]}}

\* The symbols of the touched files before and after.
BeforeIn(old, new) == {s \in Present(old) : FileOf[s] \in TouchedFiles(old, new)}
AfterIn(old, new) == {s \in Present(new) : FileOf[s] \in TouchedFiles(old, new)}

\* Mistake: a symbol that leaves a file that stays is not closed.
ClosedFilesOnly(old, new) ==
  {s \in BeforeIn(old, new) : \A t \in AfterIn(old, new) : FileOf[t] # FileOf[s]}
ClosedBetween(old, new) == BeforeIn(old, new) \ AfterIn(old, new)
OpenedBetween(old, new) == AfterIn(old, new) \ BeforeIn(old, new)

(***************************************************************************)
(* Churn mining: the commits in the window with a hunk whose lines, by the *)
(* numbers they had in that commit, overlap where the symbol stands now.   *)
(* A symbol no hunk falls on keeps the roll-up it has.                     *)
(***************************************************************************)
\* The lines of a file at a commit; before the first there is none.
Lines(k, f) == IF k = 0 THEN {} ELSE UNION {past[k][s] : s \in {t \in Symbols : FileOf[t] = f}}
NumberOf(line, text) == Cardinality({l \in text : l <= line})

Changed(old, new) == (old \ new) \union (new \ old)
\* diff -U0: changed lines with no kept line between them are one hunk.
HunkOf(line, old, new) ==
  {l \in Changed(old, new) : \A kept \in old \intersect new : kept < line <=> kept < l}
\* Mistake: the numbers before the commit.
NumbersBefore(hunk, old, new) == {NumberOf(l, old) : l \in hunk}
\* The hunk's new lines; one that only removes lines sits on the line before them.
NewNumbers(hunk, old, new) ==
  IF hunk \intersect new # {} THEN {NumberOf(l, new) : l \in hunk \intersect new}
  ELSE {NumberOf(Min(hunk), new)}
Span(s, c) == LET own == {NumberOf(l, Lines(c, FileOf[s])) : l \in past[c][s]} IN Min(own)..Max(own)
Overlapping(s, now, old, new) ==
  \E l \in Changed(old, new) : NewNumbers(HunkOf(l, old, new), old, new) \intersect Span(s, now) # {}

HunksOf(s, now) ==
  {k \in 1..now : /\ k > now - Window
                  /\ Overlapping(s, now, Lines(k - 1, FileOf[s]), Lines(k, FileOf[s]))}
Rollup(hunks) == [last |-> Max(hunks), first |-> Min(hunks), commits |-> Cardinality(hunks)]
Mined(files, now) ==
  [s \in {t \in Present(now) : FileOf[t] \in files /\ HunksOf(t, now) # {}} |-> Rollup(HunksOf(s, now))]
\* INSERT OR REPLACE.
UpsertedAggregates(mined) == [s \in Symbols |-> IF s \in DOMAIN mined THEN mined[s] ELSE aggregates[s]]

\* index the first time (seed_symbols opens everything), refresh from then on.
\* How a run is made of steps, and may be killed, is the matter of IncrementalIndex.
IndexHead ==
  /\ indexedAt # HEAD
  /\ indexedAt' = HEAD
  /\ IF indexedAt = 0
     THEN /\ log' = Recorded(log, Present(HEAD), {}, HEAD)
          /\ aggregates' = UpsertedAggregates(Mined({FileOf[s] : s \in Present(HEAD)}, HEAD))
     ELSE /\ log' = Recorded(log, OpenedBetween(indexedAt, HEAD), ClosedBetween(indexedAt, HEAD), HEAD)
          /\ aggregates' = UpsertedAggregates(Mined(TouchedFiles(indexedAt, HEAD), HEAD))
  /\ observed' = observed \union {HEAD} /\ indexed' = indexed \union {HEAD}
  /\ UNCHANGED <<past, cursor, job, bounds, tornFrom>>

(***************************************************************************)
(* Backfill.                                                               *)
(***************************************************************************)
\* rev-list: a baseline and n steps, or everything.
OldestOf(n) == IF n = Full \/ HEAD - n < 1 THEN 1 ELSE HEAD - n
Steps(n) == HEAD - OldestOf(n)

AlreadyCovered(lo) == cursor # 0 /\ cursor <= lo

Skip(n) == Steps(n) = 0 \/ n = 0 \/ AlreadyCovered(OldestOf(n))

\* ckg index --history: the index runs first, at a HEAD that may have moved since.
StartBackfill(n) ==
  /\ job = NoJob /\ indexedAt # 0 /\ backfills < MaxBackfills
  /\ ~Skip(n)
  /\ Aligned => OldestOf(n) <= Min(indexed) /\ indexedAt = HEAD
  /\ backfills' = backfills + 1
  /\ job' = [pc |-> "baseline", lo |-> OldestOf(n), hi |-> HEAD, at |-> OldestOf(n)]
  /\ UNCHANGED <<past, live, log, cursor, failures, observed, indexed, tornFrom>>

\* The baseline is indexed into a throwaway store and its symbols are seeded.
Baseline ==
  /\ job.pc = "baseline"
  /\ log' = Recorded(log, Present(job.lo), {}, job.lo)
  /\ job' = [job EXCEPT !.pc = "replay"]
  /\ tornFrom' = IF tornFrom = 0 \/ job.lo < tornFrom THEN job.lo ELSE tornFrom
  /\ UNCHANGED <<past, live, cursor, bounds, observed, indexed>>

\* A replay tells the log of openings and closings alone: what is mined is about HEAD.
LifecycleOnly(old, new) == Recorded(log, OpenedBetween(old, new), ClosedBetween(old, new), new)

Replay ==
  /\ job.pc = "replay" /\ job.at < job.hi
  /\ log' = LifecycleOnly(job.at, job.at + 1)
  /\ job' = [job EXCEPT !.at = @ + 1]
  /\ UNCHANGED <<past, live, cursor, bounds, observed, indexed, tornFrom>>

SetCursor ==
  /\ job.pc = "replay" /\ job.at = job.hi
  /\ cursor' = job.lo
  /\ observed' = observed \union (job.lo..job.hi)
  /\ tornFrom' = IF job.lo <= tornFrom THEN 0 ELSE tornFrom
  /\ job' = NoJob
  /\ UNCHANGED <<past, live, log, bounds, indexed>>

\* Killed, or git or a store fails: every flush before it stays.
FailBackfill ==
  /\ job # NoJob /\ failures < MaxFailures
  /\ failures' = failures + 1
  /\ job' = NoJob
  /\ UNCHANGED <<past, live, log, cursor, backfills, observed, indexed, tornFrom>>

Next == \/ Commit \/ IndexHead \/ (\E n \in Depths : StartBackfill(n))
        \/ Baseline \/ Replay \/ SetCursor \/ FailBackfill

Spec == Init /\ [][Next]_vars

(***************************************************************************)
(* Reading.                                                                *)
(***************************************************************************)
OpenedRows(s) == {r \in log[s] : r.event = "opened"}

\* Mistake: the latest opening.
IntroducedLast(s) == IF OpenedRows(s) # {} THEN Max({r.at : r \in OpenedRows(s)})
                     ELSE aggregates[s].first
\* history(): the earliest opening, or else what was mined.
Introduced(s) == IF OpenedRows(s) # {} THEN Min({r.at : r \in OpenedRows(s)})
                 ELSE aggregates[s].first

\* changed_since(): the latest event after c, or else a mined modification.
RowsAfter(s, c) == {r \in log[s] : r.at > c}
ChangeKind(s, c) ==
  IF RowsAfter(s, c) # {} THEN LastRow(RowsAfter(s, c)).event
  ELSE IF aggregates[s].last > c THEN "modified" ELSE "none"

(***************************************************************************)
(* Properties.                                                             *)
(***************************************************************************)
\* Types of every variable.
TypeOK ==
  /\ past \in Seq(Trees) /\ HEAD \in 1..MaxCommits
  /\ indexedAt \in 0..HEAD /\ cursor \in 0..HEAD /\ tornFrom \in 0..HEAD
  /\ log \in [Symbols -> SUBSET EventRow]
  /\ \A s \in Symbols : aggregates[s].first \in 0..aggregates[s].last /\ aggregates[s].last \in 0..HEAD
  /\ indexed \subseteq observed /\ observed \subseteq 1..HEAD

\* alive_at is exact for every commit the live index ran at and every commit a finished
\* backfill covers: older events that are appended later change no answer about them.
AliveExact ==
  tornFrom = 0 =>
    \A c \in observed : \A s \in Symbols : AliveAt(log[s], c) <=> s \in Present(c)

\* A backfill makes a symbol's introduction exact within what it covers: the commit
\* history() names has the symbol, and the covered commit before it has not.
IntroducedExact ==
  tornFrom = 0 =>
    \A s \in UNION {Present(c) : c \in observed} :
      /\ s \in Present(Introduced(s))
      /\ Introduced(s) - 1 \in observed => s \notin Present(Introduced(s) - 1)

\* At each change to it after commit c the symbol got a line whose number lies where the symbol
\* stands at commit now: it has not moved away from its changes.
InPlace(s, c, now) ==
  \A k \in (c + 1)..now : past[k][s] # past[k - 1][s] =>
    \E l \in past[k][s] \ Lines(k - 1, FileOf[s]) : NumberOf(l, Lines(k, FileOf[s])) \in Span(s, now)

\* changed_since tells everything there is to tell: a symbol that was there at an observed
\* commit and is not at an indexed HEAD, or the other way round, is listed, and what is said
\* of it last fits; since a commit the live index ran at, so is one whose lines differ and
\* that still stands where it was changed, whatever moved around it meanwhile.
ChangedSinceComplete ==
  tornFrom = 0 /\ indexedAt = HEAD =>
    /\ \A c \in observed : \A s \in Symbols :
         (s \in Present(c)) # (s \in Present(HEAD)) =>
           ChangeKind(s, c) = IF s \in Present(HEAD) THEN "opened" ELSE "closed"
    /\ \A c \in indexed : \A s \in Present(HEAD) :
         past[c][s] # past[HEAD][s] /\ InPlace(s, c, HEAD) => ChangeKind(s, c) \in {"opened", "modified"}

(***************************************************************************)
(* What is said of the program and is not so: see README.md.               *)
(***************************************************************************)
\* Each symbol whose lines differ is listed, wherever it stands now: lines that were added
\* above it since, or a change that only took its first lines, hide it from the miner.
EveryChangeListed ==
  tornFrom = 0 /\ indexedAt = HEAD =>
    \A c \in indexed : \A s \in Present(HEAD) :
      past[c][s] # past[HEAD][s] => ChangeKind(s, c) \in {"opened", "modified"}
=============================================================================
