--------------------------- MODULE WatchLoopProofs ---------------------------
(***************************************************************************)
(* The watch loop loses no wake-up and keeps its refreshes a window apart, *)
(* for every set of branches, every trigger and every window.              *)
(***************************************************************************)
EXTENDS WatchLoop, TLAPS

USE DEF Kinds, Batches, policy, user, vars

InFlight(kind) == kind \in unseen \/ \E i \in 1..Len(queue) : queue[i] = kind
CountedInFlight == \E kind \in Kinds : Counts(kind) /\ InFlight(kind)

\* The gate is right unless the event that will correct it is on its way.
GateFollows == pc \in {"waiting", "refreshing"} => (active <=> branch \in Included) \/ InFlight("git")

\* A pending change has the loop wait with a timeout.
PendingIsTimed == pc = "waiting" /\ active /\ pending => timer # NoTimer

\* What is owed is pending, or an event that will make it pending is on its
\* way; during a refresh, which ends by forgetting what is pending, the latter.
OwedIsComing ==
  /\ pc \in {"opening", "refreshing"} /\ owed => CountedInFlight
  /\ pc = "waiting" /\ owed /\ branch \in Included => pending \/ InFlight("git") \/ CountedInFlight

ManualOwesNothing == trigger = "manual" => ~owed /\ ~pending

\* What is pending came in after the last refresh ended, or the loop began.
PendingIsRecent == pending => sinceEvent <= sinceFire /\ pc # "opening"

WatchInv == /\ TypeOK /\ GateFollows /\ PendingIsTimed /\ OwedIsComing
            /\ ManualOwesNothing /\ PendingIsRecent

\* Taking the head of a queue leaves the others in it.
LEMMA TailKeeps ==
  ASSUME NEW q \in Seq(Kinds), q # <<>>, NEW k, k # Head(q),
         \E i \in 1..Len(q) : q[i] = k
  PROVE  \E i \in 1..Len(Tail(q)) : Tail(q)[i] = k
<1>1. PICK i \in 1..Len(q) : q[i] = k
  OBVIOUS
<1>2. i # 1
  BY <1>1
<1>3. i - 1 \in 1..Len(Tail(q)) /\ Tail(q)[i - 1] = q[i]
  BY <1>1, <1>2
<1> QED BY <1>1, <1>3

\* A batch is queued behind what is there, whole.
LEMMA BatchArrives ==
  ASSUME NEW q \in Seq(Kinds), NEW b \in Seq(Kinds), NEW k,
         (\E i \in 1..Len(q) : q[i] = k) \/ (\E i \in DOMAIN b : b[i] = k)
  PROVE  \E i \in 1..Len(q \o b) : (q \o b)[i] = k
<1>1. CASE \E i \in 1..Len(q) : q[i] = k
  <2>1. PICK i \in 1..Len(q) : q[i] = k
    BY <1>1
  <2>2. i \in 1..Len(q \o b) /\ (q \o b)[i] = k
    BY <2>1
  <2> QED BY <2>2
<1>2. CASE \E i \in DOMAIN b : b[i] = k
  <2>1. PICK i \in 1..Len(b) : b[i] = k
    BY <1>2
  <2>2. Len(q) + i \in 1..Len(q \o b) /\ (q \o b)[Len(q) + i] = k
    BY <2>1
  <2> QED BY <2>2
<1> QED BY <1>1, <1>2

\* A wait is never negative.
LEMMA RemainingType ==
  ASSUME TypeOK, NEW event \in Nat, NEW fire \in Nat
  PROVE  Remaining(event, fire) \in Nat
  BY WindowAssumption DEF TypeOK, Remaining, Age

\* The loop starts with nothing owed.
LEMMA WatchInit == Init => WatchInv
<1> SUFFICES ASSUME Init PROVE WatchInv
  OBVIOUS
<1>1. TypeOK
  <2>1. queue \in Seq(Kinds) /\ unseen \subseteq Kinds /\ pc = "opening"
    BY DEF Init
  <2>2. trigger \in Triggers /\ branch \in Branches /\ timer = NoTimer
    BY DEF Init
  <2>3. active \in BOOLEAN /\ pending \in BOOLEAN /\ owed \in BOOLEAN
    BY DEF Init
  <2>4. sinceEvent \in Nat /\ sinceFire \in Nat
    BY WindowAssumption DEF Init
  <2> QED BY <2>1, <2>2, <2>3, <2>4 DEF TypeOK
<1>2. GateFollows /\ PendingIsTimed /\ OwedIsComing /\ ManualOwesNothing /\ PendingIsRecent
  BY DEF Init, GateFollows, PendingIsTimed, OwedIsComing, ManualOwesNothing, PendingIsRecent
<1> QED BY <1>1, <1>2 DEF WatchInv

\* The user's changes: the event is on its way with the change.
LEMMA ChangeStep ==
  ASSUME FilterFits, WatchInv, NEW paths \in SUBSET Paths, Change(paths), branch' \in Branches,
         branch' = branch \/ HeadFile \in paths
  PROVE  WatchInv'
<1> DEFINE kinds == UNION {Classify(p) : p \in paths}
<1> USE DEF WatchInv, Change
<1>0. /\ kinds \subseteq Kinds
      /\ \A p \in paths : (p \in Ingested => "file" \in kinds) /\ (p \in Refs => "git" \in kinds)
  <2>1. \A p \in Ingested : "file" \in Classify(p)
    BY DEF FilterFits, Classify
  <2>2. \A p \in Refs : "git" \in Classify(p)
    BY DEF Classify, Raises
  <2> QED BY <2>1, <2>2 DEF Classify
<1>1. TypeOK'
  <2>1. unseen' \subseteq Kinds
    BY <1>0 DEF TypeOK
  <2>2. owed' \in BOOLEAN
    BY DEF TypeOK
  <2> QED BY <2>1, <2>2 DEF TypeOK
<1>2. \A k \in Kinds : (InFlight(k) => InFlight(k)') /\ (k \in kinds => InFlight(k)') /\ (Counts(k)' <=> Counts(k))
  BY DEF InFlight, Counts
<1>3. GateFollows' /\ PendingIsTimed' /\ ManualOwesNothing' /\ PendingIsRecent'
  BY <1>0, <1>2, PathsAssumption DEF GateFollows, PendingIsTimed, ManualOwesNothing, PendingIsRecent, Counts
<1>4. owed' => owed \/ CountedInFlight'
  BY <1>0, <1>2 DEF CountedInFlight
<1>5. OwedIsComing'
  BY <1>0, <1>2, <1>4, PathsAssumption DEF OwedIsComing, CountedInFlight
<1> QED BY <1>1, <1>3, <1>5

\* Queueing a batch only moves what is on its way.
LEMMA NotifyStep == ASSUME WatchInv, Notify PROVE WatchInv'
<1> USE DEF WatchInv
<1>1. PICK batch \in Batches : /\ unseen = {batch[i] : i \in DOMAIN batch}
                               /\ queue' = queue \o batch /\ unseen' = {}
  BY DEF Notify
<1>2. batch \in Seq(Kinds) /\ queue \in Seq(Kinds)
  <2>1. \A a, b \in Kinds : <<a>> \in Seq(Kinds) /\ <<a, b>> \in Seq(Kinds)
    OBVIOUS
  <2> QED BY <2>1, <1>1 DEF TypeOK
<1>3. UNCHANGED <<trigger, branch, owed, pc, timer, policy>>
  BY DEF Notify
<1>4. TypeOK'
  BY <1>1, <1>2, <1>3 DEF TypeOK
<1>5. \A k \in Kinds : (InFlight(k) => InFlight(k)') /\ (Counts(k)' <=> Counts(k))
  <2>1. ASSUME NEW k \in Kinds, InFlight(k) PROVE InFlight(k)'
    <3>1. (\E i \in 1..Len(queue) : queue[i] = k) \/ (\E i \in DOMAIN batch : batch[i] = k)
      BY <1>1, <2>1 DEF InFlight
    <3>2. \E i \in 1..Len(queue \o batch) : (queue \o batch)[i] = k
      BY <1>2, <3>1, BatchArrives
    <3> QED BY <1>1, <3>2 DEF InFlight
  <2> QED BY <1>3, <2>1 DEF Counts
<1>6. GateFollows' /\ PendingIsTimed' /\ ManualOwesNothing' /\ OwedIsComing' /\ PendingIsRecent'
  BY <1>3, <1>5
     DEF GateFollows, PendingIsTimed, ManualOwesNothing, OwedIsComing, PendingIsRecent, CountedInFlight
<1> QED BY <1>4, <1>6

\* The timeout a pull is given is a wait or none.
LEMMA PullTyped ==
  ASSUME Pull, Remaining(sinceEvent', sinceFire') \in Nat
  PROVE  timer' \in Nat \union {NoTimer}
<1>1. timer' = NoTimer \/ timer' = Remaining(sinceEvent', sinceFire')
  BY Zenon DEF Pull, NextDueIn
<1> QED BY <1>1

\* A pull with a pending change on an open gate has a timeout.
LEMMA PullTimer ==
  ASSUME TypeOK, TypeOK', Pull, trigger' = trigger, pending' => trigger # "manual"
  PROVE  PendingIsTimed'
<1>1. active' /\ pending' => timer' = Remaining(sinceEvent', sinceFire')
  BY DEF Pull, NextDueIn
<1>2. Remaining(sinceEvent', sinceFire') \in Nat
  BY RemainingType DEF TypeOK
<1> QED BY <1>1, <1>2, WindowAssumption DEF PendingIsTimed

\* The gate is evaluated as the loop begins; what came in before is in the queue.
LEMMA BeginStep == ASSUME WatchInv, Begin PROVE WatchInv'
<1> USE DEF WatchInv
<1>1. /\ pc = "opening" /\ Pull /\ active' = (branch \in Included) /\ sinceFire' = 0
      /\ UNCHANGED <<trigger, branch, unseen, queue, pending, sinceEvent, owed>>
  BY DEF Begin, Pull
<1>2. ~pending /\ ~pending'
  BY <1>1 DEF PendingIsRecent
<1>3. TypeOK'
  <2>1. Remaining(sinceEvent', sinceFire') \in Nat
    BY <1>1, RemainingType DEF TypeOK
  <2>2. timer' \in Nat \union {NoTimer}
    BY <1>1, <2>1, PullTyped
  <2>3. active' \in BOOLEAN
    <3>1. (branch \in Included) \in BOOLEAN
      OBVIOUS
    <3> QED BY <1>1, <3>1
  <2> QED BY <1>1, <2>2, <2>3 DEF TypeOK, Pull
<1>4. \A k \in Kinds : (InFlight(k)' <=> InFlight(k)) /\ (Counts(k)' <=> Counts(k))
  BY <1>1 DEF InFlight, Counts
<1>5. GateFollows'
  <2>1. active' <=> (branch \in Included)'
    BY <1>1
  <2> QED BY <2>1 DEF GateFollows
<1>6. ManualOwesNothing' /\ OwedIsComing' /\ PendingIsTimed' /\ PendingIsRecent'
  BY <1>1, <1>2, <1>4
     DEF ManualOwesNothing, OwedIsComing, PendingIsTimed, PendingIsRecent, CountedInFlight, Pull
<1> QED BY <1>3, <1>5, <1>6

\* An event taken becomes pending, corrects the gate, or counts for nothing.
LEMMA TakeEventStep == ASSUME WatchInv, TakeEvent PROVE WatchInv'
<1> USE DEF WatchInv
<1>1. /\ pc = "waiting" /\ queue # <<>> /\ queue \in Seq(Kinds) /\ queue' = Tail(queue)
      /\ active' = (IF Head(queue) = "git" THEN branch \in Included ELSE active)
      /\ UNCHANGED <<trigger, branch, unseen, sinceFire>>
  BY DEF TakeEvent, TypeOK
<1>2. Head(queue) \in Kinds /\ queue' \in Seq(Kinds)
  BY <1>1
<1> DEFINE counted == active' /\ Counts(Head(queue))
<1>3. pending' = (pending \/ counted) /\ sinceEvent' = IF counted THEN 0 ELSE sinceEvent
  BY DEF TakeEvent
<1>4. (pc' = "refreshing" /\ timer' = NoTimer /\ owed' = FALSE) \/ Pull
  BY DEF TakeEvent, StartRefresh
<1>5. TypeOK'
  <2>1. trigger' \in Triggers /\ branch' \in Branches /\ unseen' \subseteq Kinds
    BY <1>1 DEF TypeOK
  <2>2. active' \in BOOLEAN
    <3>1. CASE Head(queue) = "git"
      <4>1. active' = (branch \in Included)
        BY <1>1, <3>1
      <4>2. (branch \in Included) \in BOOLEAN
        OBVIOUS
      <4> QED BY <4>1, <4>2
    <3>2. CASE Head(queue) # "git"
      BY <1>1, <3>2 DEF TypeOK
    <3> QED BY <3>1, <3>2
  <2>3. sinceEvent' \in Nat /\ sinceFire' \in Nat
    BY <1>1, <1>3 DEF TypeOK
  <2>4. counted \in BOOLEAN /\ pending' \in BOOLEAN
    BY <1>3, <2>2 DEF TypeOK, Counts
  <2>5. Remaining(sinceEvent', sinceFire') \in Nat
    BY <2>1, <2>3, RemainingType
  <2>6. /\ pc' \in {"waiting", "refreshing"} /\ owed' \in BOOLEAN
        /\ timer' \in Nat \union {NoTimer}
    <3>1. CASE Pull
      BY <2>5, <3>1, PullTyped DEF TypeOK, Pull
    <3> QED BY <1>4, <3>1
  <2> QED BY <1>2, <2>1, <2>2, <2>3, <2>4, <2>6 DEF TypeOK
<1>6. \A k \in Kinds : k # Head(queue) => (InFlight(k) => InFlight(k)')
  BY <1>1, TailKeeps DEF InFlight
<1>7. GateFollows'
  BY <1>1, <1>2, <1>6 DEF GateFollows, TypeOK
<1>8. ManualOwesNothing'
  BY <1>1, <1>3, <1>4 DEF ManualOwesNothing, Counts, Pull
<1>9. PendingIsTimed'
  <2>1. CASE Pull
    BY <1>1, <1>5, <1>8, <2>1, PullTimer DEF ManualOwesNothing
  <2> QED BY <1>4, <2>1 DEF PendingIsTimed
<1>10. OwedIsComing'
  <2>1. SUFFICES ASSUME Pull, owed, branch \in Included
                 PROVE  pending' \/ InFlight("git")' \/ CountedInFlight'
    BY <1>1, <1>4 DEF OwedIsComing, Pull
  <2>2. trigger # "manual"
    BY <2>1 DEF ManualOwesNothing
  <2>3. CASE Head(queue) = "git"
    BY <1>1, <1>3, <2>1, <2>2, <2>3 DEF Counts
  <2>4. CASE Head(queue) = "file"
    <3>1. CASE InFlight("git")
      BY <1>6, <2>4, <3>1
    <3>2. CASE ~InFlight("git")
      <4>1. active' /\ active
        BY <1>1, <2>1, <2>4, <3>2 DEF GateFollows
      <4>2. CASE pending
        BY <1>3, <4>2
      <4>3. CASE CountedInFlight
        <5>1. Counts("file")
          BY <3>2, <4>3 DEF CountedInFlight
        <5> QED BY <1>3, <2>4, <4>1, <5>1
      <4> QED BY <1>1, <2>1, <3>2, <4>2, <4>3 DEF OwedIsComing
    <3> QED BY <3>1, <3>2
  <2> QED BY <1>2, <2>3, <2>4
<1>11. PendingIsRecent'
  BY <1>1, <1>3, <1>4 DEF PendingIsRecent, TypeOK, Pull
<1> QED BY <1>5, <1>7, <1>8, <1>9, <1>10, <1>11

\* A timeout that passes starts the refresh it was set for.
LEMMA TimeoutStep == ASSUME WatchInv, Timeout PROVE WatchInv'
<1> USE DEF WatchInv
<1>1. pc = "waiting" /\ UNCHANGED <<trigger, branch, unseen, queue, policy>>
  BY DEF Timeout
<1>2. (pc' = "refreshing" /\ timer' = NoTimer /\ owed' = FALSE) \/ Pull
  BY DEF Timeout, StartRefresh
<1>3. TypeOK'
  <2>1. Remaining(sinceEvent', sinceFire') \in Nat
    BY <1>1, RemainingType DEF TypeOK
  <2>2. /\ pc' \in {"waiting", "refreshing"} /\ owed' \in BOOLEAN
        /\ timer' \in Nat \union {NoTimer}
    <3>1. CASE Pull
      BY <2>1, <3>1, PullTyped DEF TypeOK, Pull
    <3> QED BY <1>2, <3>1
  <2> QED BY <1>1, <2>2 DEF TypeOK
<1>4. \A k \in Kinds : (InFlight(k)' <=> InFlight(k)) /\ (Counts(k)' <=> Counts(k))
  BY <1>1 DEF InFlight, Counts
<1>5. GateFollows' /\ ManualOwesNothing' /\ OwedIsComing' /\ PendingIsRecent'
  BY <1>1, <1>2, <1>4
     DEF GateFollows, ManualOwesNothing, OwedIsComing, PendingIsRecent, CountedInFlight, Pull
<1>6. PendingIsTimed'
  <2>1. CASE Pull
    BY <1>1, <1>3, <1>5, <2>1, PullTimer DEF ManualOwesNothing
  <2> QED BY <1>2, <2>1 DEF PendingIsTimed
<1> QED BY <1>3, <1>5, <1>6

\* A refresh forgets what was pending, all of which it has read.
LEMMA FinishStep == ASSUME WatchInv, FinishRefresh PROVE WatchInv'
<1> USE DEF WatchInv
<1>1. /\ pc = "refreshing" /\ Pull /\ ~pending' /\ sinceFire' = 0 /\ pending' \in BOOLEAN
      /\ UNCHANGED <<trigger, branch, unseen, queue, active, sinceEvent, owed>>
  BY DEF FinishRefresh, Buffered, PendingAfter, Pull
<1>2. TypeOK'
  BY <1>1 DEF TypeOK, Pull, NextDueIn
<1>3. \A k \in Kinds : (InFlight(k)' <=> InFlight(k)) /\ (Counts(k)' <=> Counts(k))
  BY <1>1 DEF InFlight, Counts
<1>4. GateFollows' /\ ManualOwesNothing' /\ OwedIsComing' /\ PendingIsTimed' /\ PendingIsRecent'
  BY <1>1, <1>3
     DEF GateFollows, ManualOwesNothing, OwedIsComing, PendingIsTimed, PendingIsRecent, CountedInFlight, Pull
<1> QED BY <1>2, <1>4

\* Time does not turn a timeout into none.
LEMMA TickTimer ==
  ASSUME NEW t \in Nat \union {NoTimer}, NEW u,
         u = IF t \in {NoTimer, 0} THEN t ELSE t - 1
  PROVE  u \in Nat \union {NoTimer} /\ (u = NoTimer <=> t = NoTimer)
<1>1. CASE t = NoTimer
  BY <1>1
<1>2. CASE t # NoTimer
  <2>1. u \in Nat
    BY <1>2
  <2> QED BY <1>2, <2>1, WindowAssumption
<1> QED BY <1>1, <1>2

\* Stopping and the passing of time.
LEMMA OtherSteps == ASSUME WatchInv, Stop \/ Tick \/ UNCHANGED vars PROVE WatchInv'
<1> USE DEF WatchInv
<1>1. TypeOK'
  <2>1. CASE Stop
    BY <2>1 DEF TypeOK, Stop
  <2>2. CASE Tick
    <3>1. sinceEvent' \in Nat /\ sinceFire' \in Nat
      BY <2>2, WindowAssumption DEF TypeOK, Tick, Older
    <3>2. timer' \in Nat \union {NoTimer}
      BY <2>2, TickTimer DEF TypeOK, Tick
    <3> QED BY <2>2, <3>1, <3>2 DEF TypeOK, Tick
  <2>3. CASE UNCHANGED vars
    BY <2>3 DEF TypeOK
  <2> QED BY <2>1, <2>2, <2>3
<1>2. \A k \in Kinds : (InFlight(k)' <=> InFlight(k)) /\ (Counts(k)' <=> Counts(k))
  BY DEF InFlight, Counts, Stop, Tick
<1>3. CountedInFlight' <=> CountedInFlight
  BY <1>2 DEF CountedInFlight
<1>4. GateFollows' /\ ManualOwesNothing' /\ OwedIsComing'
  BY <1>2, <1>3 DEF GateFollows, ManualOwesNothing, OwedIsComing, Stop, Tick
<1>5. PendingIsTimed'
  <2>1. CASE Tick
    BY <2>1, TickTimer DEF PendingIsTimed, Tick, TypeOK
  <2>2. CASE Stop
    BY <2>2 DEF PendingIsTimed, Stop
  <2>3. CASE UNCHANGED vars
    BY <2>3 DEF PendingIsTimed
  <2> QED BY <2>1, <2>2, <2>3
<1>6. PendingIsRecent'
  <2>1. CASE Tick
    BY <2>1, WindowAssumption DEF PendingIsRecent, Tick, Older, TypeOK
  <2> QED BY <2>1 DEF PendingIsRecent, Stop
<1> QED BY <1>1, <1>4, <1>5, <1>6

\* Every step keeps the invariant.
LEMMA WatchNext == ASSUME FilterFits PROVE WatchInv /\ [Next]_vars => WatchInv'
<1> SUFFICES ASSUME WatchInv, [Next]_vars PROVE WatchInv'
  OBVIOUS
<1>1. CASE User
  <2>1. PICK paths \in SUBSET Paths : Change(paths) /\ branch' \in Branches
                                      /\ (branch' = branch \/ HeadFile \in paths)
    BY <1>1, PathsAssumption DEF User, Save, CommitRefs, Checkout, WatchInv, TypeOK
  <2> QED BY <2>1, ChangeStep
<1> QED BY <1>1, NotifyStep, BeginStep, TakeEventStep, TimeoutStep, FinishStep, OtherSteps DEF Next, Loop

\* No lost wake-up, if the watch leaves nothing out that the index has.
THEOREM NoLostWakeup == ASSUME FilterFits PROVE Spec => []NothingOwedWhenQuiet
<1>1. Init => WatchInv
  BY WatchInit
<1>2. WatchInv /\ [Next]_vars => WatchInv'
  BY WatchNext
<1>3. WatchInv => NothingOwedWhenQuiet
  <2> SUFFICES ASSUME WatchInv, Quiet, branch \in Included, owed PROVE FALSE
    BY DEF NothingOwedWhenQuiet
  <2>1. \A k \in Kinds : ~InFlight(k)
    BY DEF Quiet, InFlight
  <2>2. active /\ pending
    BY <2>1 DEF WatchInv, GateFollows, OwedIsComing, CountedInFlight, Quiet
  <2> QED BY <2>2 DEF WatchInv, PendingIsTimed, Quiet
<1> QED BY <1>1, <1>2, <1>3, PTL DEF Spec

\* Refreshes are rate limited: a refresh starts a window or more after the one
\* before it ended.
THEOREM RateLimited == ASSUME FilterFits PROVE Spec => RefreshesApart
<1> DEFINE Apart == pc = "waiting" /\ pc' = "refreshing" => sinceFire' >= Window[trigger]
<1>1. Init => WatchInv
  BY WatchInit
<1>2. WatchInv /\ [Next]_vars => WatchInv'
  BY WatchNext
<1>3. WatchInv /\ [Next]_vars => [Apart]_vars
  <2> SUFFICES ASSUME WatchInv, WatchInv', [Next]_vars, pc = "waiting", pc' = "refreshing"
               PROVE  sinceFire' >= Window[trigger]
    BY <1>2
  <2>1. Fires /\ trigger' = trigger
    BY DEF Next, User, Loop, Save, CommitRefs, Checkout, Change, Notify, TakeEvent, Timeout,
           FinishRefresh, Begin, Stop, Tick, Pull
  <2>2. pending' /\ Remaining(sinceEvent', sinceFire') = 0
    BY <2>1 DEF Fires, Due
  <2>3. sinceEvent' \in Nat /\ sinceFire' \in Nat /\ Window[trigger] \in Nat
    BY WindowAssumption DEF WatchInv, TypeOK
  <2>4. Age(sinceEvent', sinceFire') >= Window[trigger]
    BY <2>2, <2>3 DEF Remaining, Age
  <2>5. sinceEvent' <= sinceFire'
    BY <2>2 DEF WatchInv, PendingIsRecent
  <2> QED BY <2>3, <2>4, <2>5 DEF Age
<1> QED BY <1>1, <1>2, <1>3, PTL DEF Spec, RefreshesApart
=============================================================================
