---------------------------- MODULE TemporalLog -----------------------------
(***************************************************************************)
(* The evolution log of one symbol (temporal/store.py, temporal/index.py): *)
(* the rows of the events table that carry its id.  A row is [event, at,   *)
(* second]: `at' is the commit, numbered by its committer time, `second'   *)
(* says that the symbol's other event at that commit was inserted before.  *)
(* The rows of one commit are never more than two, so (at, second) orders  *)
(* them as (ts, rowid) does.                                               *)
(***************************************************************************)
EXTENDS Integers

EventRow == [event : {"opened", "closed"}, at : Nat, second : BOOLEAN]

\* Mistake: the newest event of a kind replaces the older ones.
RecordLatest(rows, event, at) ==
  {r \in rows : r.event # event} \union {[event |-> event, at |-> at, second |-> FALSE]}

\* INSERT OR IGNORE under the unique index (symbol_id, commit_sha, event, ref).
Record(rows, event, at) ==
  IF \E r \in rows : r.event = event /\ r.at = at THEN rows
  ELSE rows \union {[event |-> event, at |-> at, second |-> \E r \in rows : r.at = at]}

\* Mistake: retention drops opened rows too.
PruneAll(rows, horizon) == {r \in rows : r.at >= horizon}

\* Retention: closed rows older than the horizon go, opened rows stay.
Prune(rows, horizon) == {r \in rows : ~(r.event = "closed" /\ r.at < horizon)}

\* alive_at: the last row up to commit c is an opening.
UpTo(rows, c) == {r \in rows : r.at <= c}
LastRow(rows) ==
  CHOOSE r \in rows : \A q \in rows : q.at < r.at \/ (q.at = r.at /\ (q.second => r.second))

AliveAt(rows, c) == UpTo(rows, c) # {} /\ LastRow(UpTo(rows, c)).event = "opened"
=============================================================================
