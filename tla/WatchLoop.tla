------------------------------ MODULE WatchLoop ------------------------------
(***************************************************************************)
(* `ckg watch' (ingest/watch/): file and git events reach a queue through  *)
(* the watcher task; one loop pulls them, a trigger policy decides when    *)
(* they become a refresh, and a branch gate whether they count at all.     *)
(*                                                                         *)
(* Time is in ticks and relative: what the policy keeps as time stamps is  *)
(* kept as ages, which stop growing at Horizon.                            *)
(***************************************************************************)
EXTENDS Integers, Sequences

CONSTANTS
  Branches,   \* what HEAD can name; a detached HEAD is one of them
  Detached,   \* no branch is checked out, or there is no repository
  Include, Exclude,   \* the branches that the settings' patterns match
  Paths,      \* what can change below the root
  GitDir, Refs, HeadFile, \* those in .git, those of them that name commits, .git/HEAD
  Sources,    \* the paths that a language pack reads
  Excluded,   \* those that the index leaves out: ingest.exclude, max_file_kb
  Ignored,    \* those that the watch leaves out: the default excludes, watch.ignore
  Triggers,   \* the settings to consider
  Window,     \* trigger -> ticks: debounce_ms, idle_ms or interval_ms
  Horizon,    \* an age at which every window has elapsed
  MaxQueue,   \* events the queue may hold, the watcher stalls beyond
  NoTimer

Kinds == {"file", "git"}

ASSUME TriggersAssumption ==
  Triggers \subseteq {"on-commit", "on-idle", "on-save", "interval", "manual"}
ASSUME WindowAssumption ==
  /\ Horizon \in Nat /\ Window \in [Triggers -> 0..Horizon]
  /\ NoTimer \notin Nat
ASSUME BranchAssumption == Detached \in Branches /\ Include \subseteq Branches /\ Exclude \subseteq Branches
ASSUME PathsAssumption ==
  /\ Refs \subseteq GitDir /\ GitDir \subseteq Paths /\ Sources \subseteq Paths
  /\ HeadFile \in Refs
ASSUME QueueAssumption == MaxQueue \in Nat /\ MaxQueue >= 2

VARIABLES
  trigger,     \* settings.trigger
  branch,      \* what .git/HEAD names
  unseen,      \* kinds of change the watcher has not queued yet
  queue,       \* WatchfilesSource._queue
  pc,          \* "opening" the store, "waiting" in pull, "refreshing" or "stopped"
  timer,       \* ticks left of the pull's timeout
  active,      \* the gate, as last evaluated
  pending,     \* TriggerPolicy._pending
  sinceEvent,  \* age of _last_git (on-commit) or _last_event (the others)
  sinceFire,   \* age of _last_fire
  owed         \* a change that counts is in the tree and no refresh has read it

policy == <<active, pending, sinceEvent, sinceFire>>
user   == <<branch, unseen, owed>>
vars   == <<trigger, user, queue, pc, timer, policy>>

(***************************************************************************)
(* TriggerPolicy.                                                          *)
(***************************************************************************)
\* branch_active: there is no name to gate on, or one that is included and not excluded.
Included == {b \in Branches : b = Detached \/ b \in Include \ Exclude}

Counts(kind) == trigger # "manual" /\ (trigger = "on-commit" => kind = "git")

AgeOfEvent(event, fire) == event              \* mistake: interval counts from the event
Age(event, fire) == IF trigger = "interval" THEN fire ELSE event
Unclamped(event, fire) == Window[trigger] - Age(event, fire)      \* mistake: no max(0, .)
Remaining(event, fire) ==
  IF Age(event, fire) >= Window[trigger] THEN 0 ELSE Window[trigger] - Age(event, fire)

Due(waits, event, fire) ==
  waits /\ trigger # "manual" /\ Remaining(event, fire) = 0
NeverDueIn(waits, event, fire) == NoTimer     \* mistake: wait for an event only
NextDueIn(waits, event, fire) ==
  IF waits /\ trigger # "manual" THEN Remaining(event, fire) ELSE NoTimer

(***************************************************************************)
(* WatchFilter and RepoSource: what raises an event, and what an index     *)
(* would read.                                                             *)
(***************************************************************************)
Raises(kind) == IF kind = "git" THEN Refs ELSE Sources \ (GitDir \union Ignored)
Classify(p) == {kind \in Kinds : p \in Raises(kind)}
Ingested == Sources \ Excluded

\* The watch's settings leave nothing out that the index has: they are not derived from
\* each other, see README.md.
FilterFits == Ingested \subseteq Raises("file")

(***************************************************************************)
(* The user.  An editor writes files, git writes objects and moves HEAD or *)
(* refs; a checkout may write files too.                                   *)
(***************************************************************************)
Change(paths) ==
  /\ unseen' = unseen \union UNION {Classify(p) : p \in paths}
  /\ owed' = \/ owed
             \/ Counts("file") /\ paths \intersect Ingested # {}
             \/ Counts("git") /\ paths \intersect Refs # {}
  /\ UNCHANGED <<trigger, queue, pc, timer, policy>>

Save == (\E p \in Paths \ GitDir : Change({p})) /\ UNCHANGED branch
CommitRefs == (\E p \in GitDir : Change({p})) /\ UNCHANGED branch
Checkout == branch' \in Branches \ {branch} /\ \E p \in Paths : Change({HeadFile, p})

\* awatch yields a batch of changes, a set: they are queued in any order.
Batches == {<<"file">>, <<"git">>, <<"file", "git">>, <<"git", "file">>}
Notify == \E batch \in Batches :
  /\ unseen = {batch[i] : i \in DOMAIN batch}
  /\ Len(queue) + Len(batch) <= MaxQueue
  /\ queue' = queue \o batch
  /\ unseen' = {}
  /\ UNCHANGED <<trigger, branch, owed, pc, timer, policy>>

(***************************************************************************)
(* The loop.  An iteration ends in the next pull, with the timeout the     *)
(* policy gives, or in a refresh, which reads the tree when it starts.     *)
(***************************************************************************)
Pull == /\ pc' = "waiting"
        /\ timer' = IF active' THEN NextDueIn(pending', sinceEvent', sinceFire') ELSE NoTimer
        /\ UNCHANGED owed
StartRefresh == pc' = "refreshing" /\ timer' = NoTimer /\ owed' = FALSE

Fires == active' /\ Due(pending', sinceEvent', sinceFire')

\* The watcher is started before the store is open.
Begin ==
  /\ pc = "opening"
  /\ active' = (branch \in Included) /\ sinceFire' = 0
  /\ UNCHANGED <<trigger, branch, unseen, queue, pending, sinceEvent>>
  /\ Pull

TakeEvent ==
  /\ pc = "waiting" /\ queue # <<>>
  /\ queue' = Tail(queue)
  /\ active' = IF Head(queue) = "git" THEN branch \in Included ELSE active
  /\ LET counted == active' /\ Counts(Head(queue))
     IN  /\ pending' = (pending \/ counted)
         /\ sinceEvent' = IF counted THEN 0 ELSE sinceEvent
  /\ UNCHANGED <<trigger, branch, unseen, sinceFire>>
  /\ IF Fires THEN StartRefresh ELSE Pull

\* An event queued as the timeout expires may miss this pull: it stays queued.
Timeout ==
  /\ pc = "waiting" /\ timer = 0
  /\ UNCHANGED <<trigger, branch, unseen, queue, policy>>
  /\ IF Fires THEN StartRefresh ELSE Pull

\* What was queued during a refresh is taken by the next pulls.
Drained == <<>>                              \* mistake: reset forgets the buffer
Buffered == queue

PendingKept == pending                       \* mistake: reset leaves it pending
PendingAfter == FALSE

FinishRefresh ==
  /\ pc = "refreshing"
  /\ pending' = PendingAfter /\ sinceFire' = 0
  /\ queue' = Buffered
  /\ UNCHANGED <<trigger, branch, unseen, active, sinceEvent>>
  /\ Pull

\* Ctrl-C, or an exception out of the refresh: only WatchStopped is caught.
Stop ==
  /\ pc # "stopped"
  /\ pc' = "stopped" /\ timer' = NoTimer
  /\ UNCHANGED <<trigger, user, queue, policy>>

Older(age) == IF age < Horizon THEN age + 1 ELSE age
Tick ==
  /\ sinceEvent' = Older(sinceEvent) /\ sinceFire' = Older(sinceFire)
  /\ timer' = IF timer \in {NoTimer, 0} THEN timer ELSE timer - 1
  /\ UNCHANGED <<trigger, user, queue, pc, active, pending>>

Init ==
  /\ trigger \in Triggers /\ branch \in Branches
  /\ unseen = {} /\ queue = <<>> /\ owed = FALSE
  /\ pc = "opening" /\ timer = NoTimer
  /\ active = FALSE /\ pending = FALSE
  /\ sinceEvent = Horizon /\ sinceFire = 0

Loop == Begin \/ TakeEvent \/ Timeout \/ FinishRefresh
User == Save \/ CommitRefs \/ Checkout
Next == User \/ Notify \/ Loop \/ Stop \/ Tick

Spec == Init /\ [][Next]_vars

\* The store opens, the watcher and the loop keep running, a refresh ends, time goes on.
FairSpec == Spec /\ WF_vars(Notify) /\ WF_vars(Loop) /\ WF_vars(Tick)

(***************************************************************************)
(* Properties.                                                             *)
(***************************************************************************)
\* Types of every variable.
TypeOK ==
  /\ trigger \in Triggers /\ branch \in Branches
  /\ unseen \subseteq Kinds /\ queue \in Seq(Kinds)
  /\ pc \in {"opening", "waiting", "refreshing", "stopped"}
  /\ timer \in Nat \union {NoTimer}
  /\ active \in BOOLEAN /\ pending \in BOOLEAN /\ owed \in BOOLEAN
  /\ sinceEvent \in Nat /\ sinceFire \in Nat

\* No lost wake-up: when the loop waits with no timeout and no event is on its
\* way, no change that counts is left unread on a branch that is watched:
\* neither one made during a refresh, nor one made while the gate was closed.
Quiet == pc = "waiting" /\ timer = NoTimer /\ queue = <<>> /\ unseen = {}
NothingOwedWhenQuiet == Quiet /\ branch \in Included => ~owed

\* Refreshes are rate limited: each starts a window or more after the one before
\* it ended, so a burst of events, however it is cut up by the watcher, by the
\* refresh itself or by a closed gate, costs one refresh per window at most.
RefreshesApart ==
  [][pc = "waiting" /\ pc' = "refreshing" => sinceFire' >= Window[trigger]]_vars

\* When the user stops on a watched branch, the index catches up.
CatchesUp ==
  <>[][~User]_vars /\ <>[](branch \in Included /\ pc # "stopped") => <>[]~owed

\* Under the interval trigger it does so again and again although the user
\* never stops: editing cannot starve it.
IntervalKeepsUp ==
  trigger = "interval" /\ <>[](branch \in Included /\ pc # "stopped") => []<>~owed

\* A refresh starts only on a branch that is watched.
RefreshesWatchedBranch == [][pc = "waiting" /\ pc' = "refreshing" => branch \in Included]_vars
=============================================================================
