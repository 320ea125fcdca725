-------------------------- MODULE WorkspaceProofs ---------------------------
(***************************************************************************)
(* A build goes over all members and reports each, what it has built       *)
(* stays, and the server answers from it, for every workspace whose        *)
(* members keep out of each other's way.                                   *)
(***************************************************************************)
EXTENDS Workspace, TLAPS

USE DEF vars, world, build, server

Status == {"ok", "skipped", "FAILED"}
Pcs == {"idle", "member", "clone", "fetch", "pull", "checkout", "index", "save"}

(***************************************************************************)
(* Every member is reported.                                               *)
(***************************************************************************)
\* The report has a row for each member before the present one.
ReportInv ==
  /\ at \in 1..(Len(Order) + 1) /\ pc \in Pcs
  /\ rows \in Seq(Members \X Status)
  /\ pc # "idle" => Len(rows) = at - 1
  /\ pc \notin {"idle", "member"} => at <= Len(Order)

\* A row is added and the next member's turn comes.
LEMMA ReportStep ==
  ASSUME ReportInv, pc # "idle", at <= Len(Order), NEW s \in Status, Report(s)
  PROVE  ReportInv' /\ pc' # "idle"
<1>1. Len(Order) \in Nat /\ Member \in Members
  BY MembersAssumption DEF Member, ReportInv
<1>2. at' = at + 1 /\ pc' = "member" /\ rows' = Append(rows, <<Member, s>>)
  BY DEF Report, After
<1>3. rows' \in Seq(Members \X Status) /\ Len(rows') = Len(rows) + 1
  BY <1>1, <1>2 DEF ReportInv
<1> QED BY <1>1, <1>2, <1>3 DEF ReportInv, Pcs

\* A step of a build that is under way keeps the invariant and ends it only at its end.
LEMMA ReportKept ==
  ASSUME ReportInv, [Next]_vars
  PROVE  ReportInv' /\ (pc # "idle" /\ pc' = "idle" => KillBuild \/ Len(rows) = Len(Order))
<1> DEFINE Ends == pc # "idle" /\ pc' = "idle" => KillBuild \/ Len(rows) = Len(Order)
<1>0. Len(Order) \in Nat
  BY MembersAssumption
<1>1. ASSUME UNCHANGED <<pc, at, rows>> PROVE ReportInv' /\ Ends
  BY <1>1 DEF ReportInv
<1>2. ASSUME NEW online, StartBuild(online) PROVE ReportInv' /\ Ends
  BY <1>0, <1>2 DEF StartBuild, ReportInv, Pcs
<1>3. CASE NextMember
  <2>1. CASE Report("skipped")
    BY <1>3, <2>1, ReportStep DEF NextMember, Status
  <2>2. CASE ~Report("skipped")
    BY <1>3, <2>2 DEF NextMember, ReportInv, Pcs
  <2> QED BY <2>1, <2>2
<1>4. CASE EndBuild
  BY <1>0, <1>4 DEF EndBuild, ReportInv, Pcs
<1>5. CASE Clone
  BY <1>5 DEF Clone, ReportInv, Pcs
<1>6. CASE Fetch \/ Pull
  BY <1>6 DEF Fetch, Pull, ReportInv, Pcs
<1>7. CASE CheckoutRef
  <2>1. CASE Report("FAILED")
    BY <1>7, <2>1, ReportStep DEF CheckoutRef, Status, ReportInv
  <2>2. CASE ~Report("FAILED")
    BY <1>7, <2>2 DEF CheckoutRef, ReportInv, Pcs
  <2> QED BY <2>1, <2>2
<1>8. CASE IndexGraph
  <2>1. CASE Report("FAILED")
    BY <1>8, <2>1, ReportStep DEF IndexGraph, Status, ReportInv
  <2>2. CASE ~Report("FAILED")
    BY <1>8, <2>2 DEF IndexGraph, WriteGraph, ReportInv, Pcs
  <2> QED BY <2>1, <2>2
<1>9. CASE SaveMeta
  BY <1>9, ReportStep DEF SaveMeta, Status, ReportInv
<1>10. CASE MemberFails
  BY <1>10, ReportStep DEF MemberFails, Status, ReportInv
<1>11. CASE KillBuild
  BY <1>0, <1>11 DEF KillBuild, ReportInv, Pcs
<1>12. ASSUME NEW r, Push(r) \/ Tag(r) PROVE UNCHANGED <<pc, at, rows>>
  BY <1>12 DEF Push, Tag
<1>13. ASSUME NEW w, Edit(w) \/ Commit(w) PROVE UNCHANGED <<pc, at, rows>>
  BY <1>13 DEF Edit, Commit
<1>14. ASSUME NEW c, CallStep(c) \/ \E ms \in Asks : Ask(c, ms) PROVE UNCHANGED <<pc, at, rows>>
  BY <1>14 DEF CallStep, FindEngine, OpenEngine, ReadGraph, ReadEnvelope, Ask
<1>15. CASE Stop \/ UNCHANGED vars
  BY <1>1, <1>15 DEF Stop
<1> QED
  BY <1>1, <1>2, <1>3, <1>4, <1>5, <1>6, <1>7, <1>8, <1>9, <1>10, <1>11, <1>12, <1>13, <1>14, <1>15
     DEF Next, BuildStep

\* A member that fails never keeps the build from the others: unless it is killed, a build of
\* any workspace ends with a row for every member (cli.py _workspace_run).
THEOREM EveryMemberReported == Spec => AllReported
<1>1. Init => ReportInv
  BY MembersAssumption DEF Init, ReportInv, Pcs
<1>2. ReportInv /\ [Next]_vars => ReportInv'
  BY ReportKept
<1>3. ReportInv /\ [Next]_vars => [pc # "idle" /\ pc' = "idle" => KillBuild \/ Len(rows) = Len(Order)]_vars
  BY ReportKept
<1> QED BY <1>1, <1>2, <1>3, PTL DEF Spec, AllReported

(***************************************************************************)
(* What is built stays.                                                    *)
(***************************************************************************)
\* No two members have one index, and a pinned member has a clone of its own.
RootsApart == \A m, n \in Members : BuildRoot(m) = BuildRoot(n) => m = n
PinsApart ==
  \A pins \in Refs : \A m \in Members : pins[m] = "tag" =>
    Copy[m] \notin Local /\ \A n \in Members : Copy[n] = Copy[m] => n = m

Remote == [main : Nat, tag : Nat]
CopyState == [text : Nat, head : Nat, main : Nat]
Index == [from : Copies \union {None}, text : Nat, commit : Int]

Typing ==
  /\ ref \in Refs /\ remote \in [Remotes -> Remote] /\ copy \in [Copies -> CopyState]
  /\ store \in [Roots -> Index]
  /\ fetch = TRUE /\ seen \in Nat /\ built \subseteq Members

TagOf(m) == remote[Source[Copy[m]]].tag
AtTag(m, text) == ref[m] = "tag" => text = TagOf(m) /\ text # 0

\* Branches have commits, a working tree too; an index has a manifest once it was opened.
Populated ==
  /\ \A r \in Remotes : remote[r].main > 0
  /\ \A w \in Local : copy[w].text > 0 /\ copy[w].head > 0
  /\ \A r \in Roots : store[r].commit < 0 => store[r] = NoIndex

\* Where the build is with its member: it indexes a clone only at its pin.
MemberInv ==
  /\ pc \in {"clone", "fetch", "pull", "checkout"} => Copy[Member] \notin Local
  /\ pc \in {"fetch", "pull", "checkout", "index"} => copy[Copy[Member]].head > 0
  /\ pc = "pull" => ref[Member] = None
  /\ pc = "checkout" => ref[Member] # None
  /\ pc = "index" => AtTag(Member, copy[Copy[Member]].text)
  /\ pc = "save" => LET i == store[BuildRoot(Member)]
                    IN seen > 0 /\ i.from = Copy[Member] /\ i.commit >= 0 /\ AtTag(Member, i.text)

Stored(m) == LET i == store[BuildRoot(m)]
             IN i.from = Copy[m] /\ i.commit > 0 /\ AtTag(m, i.text)

BuiltInv == Typing /\ Populated /\ ReportInv /\ MemberInv /\ \A m \in built : Stored(m)

LEMMA MemberIs == ReportInv /\ pc \notin {"idle", "member"} => Member \in Members
  BY MembersAssumption DEF ReportInv, Member

LEMMA Where ==
  ASSUME NEW m \in Members
  PROVE  BuildRoot(m) \in Roots /\ ServeRoot(m) \in Roots /\ Copy[m] \in Copies
  BY MembersAssumption DEF Roots

LEMMA RemoteIs == \A w \in Copies : w \notin Local => Source[w] \in Remotes
  BY MembersAssumption DEF Local, Remotes

\* Opening a store changes nothing where there is an index.
LEMMA CreatedKeeps ==
  ASSUME Typing, Populated, NEW r
  PROVE  /\ Created(r) \in [Roots -> Index]
         /\ \A q \in Roots : /\ Created(r)[q].commit < 0 => Created(r)[q] = NoIndex
                             /\ store[q].commit >= 0 => Created(r)[q] = store[q]
         /\ r \in Roots => Created(r)[r].commit >= 0
<1>1. NoIndex \in Index /\ EmptyIndex \in Index /\ NoIndex.commit = -1 /\ EmptyIndex.commit = 0
  BY DEF NoIndex, EmptyIndex, Index
<1>2. CASE store[r] = NoIndex /\ r \in Roots
  <2>1. Created(r) = [store EXCEPT ![r] = EmptyIndex]
    BY <1>2 DEF Created
  <2>2. Created(r) \in [Roots -> Index] /\ Created(r)[r] = EmptyIndex
    BY <1>1, <1>2, <2>1 DEF Typing
  <2>3. \A q \in Roots \ {r} : Created(r)[q] = store[q]
    BY <2>1 DEF Typing
  <2>4. \A q \in Roots : Created(r)[q].commit < 0 => Created(r)[q] = NoIndex
    BY <1>1, <2>2, <2>3 DEF Populated
  <2>5. \A q \in Roots : store[q].commit >= 0 => Created(r)[q] = store[q]
    BY <1>1, <1>2, <2>3
  <2> QED BY <1>1, <2>2, <2>4, <2>5
<1>3. CASE ~(store[r] = NoIndex /\ r \in Roots)
  <2>1. Created(r) = store
    BY <1>3 DEF Created, Typing
  <2>2. r \in Roots => store[r] \in Index
    BY DEF Typing
  <2> QED BY <1>3, <2>1, <2>2 DEF Typing, Populated, Index
<1> QED BY <1>2, <1>3

\* Setting a part of a working copy, of a repository, of an index.
LEMMA TextSet ==
  ASSUME NEW c \in [Copies -> CopyState], NEW w \in Copies, NEW x \in Nat, NEW d,
         d = [c EXCEPT ![w].text = x]
  PROVE  /\ d \in [Copies -> CopyState] /\ d[w].text = x /\ d[w].head = c[w].head
         /\ \A v \in Copies : v # w => d[v] = c[v]
  BY DEF CopyState

LEMMA HeadSet ==
  ASSUME NEW c \in [Copies -> CopyState], NEW w \in Copies, NEW x \in Nat, NEW d,
         d = [c EXCEPT ![w].head = x]
  PROVE  /\ d \in [Copies -> CopyState] /\ d[w].text = c[w].text /\ d[w].head = x
         /\ \A v \in Copies : v # w => d[v] = c[v]
  BY DEF CopyState

LEMMA MainSet ==
  ASSUME NEW c \in [Remotes -> Remote], NEW w \in Remotes, NEW x \in Nat, NEW d,
         d = [c EXCEPT ![w].main = x]
  PROVE  /\ d \in [Remotes -> Remote] /\ d[w].main = x /\ d[w].tag = c[w].tag
         /\ \A v \in Remotes : v # w => d[v] = c[v]
  BY DEF Remote

LEMMA TagSet ==
  ASSUME NEW c \in [Remotes -> Remote], NEW w \in Remotes, NEW x \in Nat, NEW d,
         d = [c EXCEPT ![w].tag = x]
  PROVE  /\ d \in [Remotes -> Remote] /\ d[w].main = c[w].main /\ d[w].tag = x
         /\ \A v \in Remotes : v # w => d[v] = c[v]
  BY DEF Remote

LEMMA GraphSet ==
  ASSUME NEW i \in Index, NEW w \in Copies, copy[w] \in CopyState
  PROVE  /\ GraphWritten(i, w) \in Index
         /\ GraphWritten(i, w).from = w /\ GraphWritten(i, w).text = copy[w].text
         /\ GraphWritten(i, w).commit = i.commit
  BY DEF GraphWritten, Index, CopyState

(***************************************************************************)
(* Developers and clients.                                                 *)
(***************************************************************************)
\* A tag that is pushed stays.
LEMMA RemoteStep ==
  ASSUME BuiltInv, PinsApart, NEW r \in Remotes, Push(r) \/ Tag(r), ReportInv'
  PROVE  BuiltInv'
<1>1. /\ remote' \in [Remotes -> Remote] /\ \A q \in Remotes : remote'[q].main > 0
      /\ \A q \in Remotes : remote[q].tag # 0 => remote'[q].tag = remote[q].tag
  <2>0. remote \in [Remotes -> Remote] /\ remote[r].main \in Nat /\ remote[r].main > 0
    BY DEF BuiltInv, Typing, Populated, Remote
  <2>1. CASE Push(r)
    <3>1. remote' = [remote EXCEPT ![r].main = remote[r].main + 1] /\ remote[r].main + 1 \in Nat
      BY <2>0, <2>1 DEF Push
    <3>2. /\ remote' \in [Remotes -> Remote] /\ remote'[r].main = remote[r].main + 1
          /\ remote'[r].tag = remote[r].tag /\ \A q \in Remotes : q # r => remote'[q] = remote[q]
      BY <2>0, <3>1, MainSet
    <3> QED BY <2>0, <3>2 DEF BuiltInv, Populated
  <2>2. CASE Tag(r)
    <3>1. remote' = [remote EXCEPT ![r].tag = 1] /\ remote[r].tag = 0
      BY <2>2 DEF Tag
    <3>2. /\ remote' \in [Remotes -> Remote] /\ remote'[r].main = remote[r].main
          /\ \A q \in Remotes : q # r => remote'[q] = remote[q]
      BY <2>0, <3>1, TagSet
    <3> QED BY <2>0, <3>1, <3>2 DEF BuiltInv, Populated
  <2> QED BY <2>1, <2>2
<1>2. UNCHANGED <<ref, copy, store, build>>
  BY DEF Push, Tag
<1>3. \A m \in Members : \A text : AtTag(m, text) =>
        (ref'[m] = "tag" => text = remote'[Source[Copy[m]]].tag /\ text # 0)
  BY <1>1, <1>2, Where, RemoteIs DEF AtTag, TagOf, PinsApart, BuiltInv, Typing
<1>4. Typing' /\ Populated'
  BY <1>1, <1>2 DEF BuiltInv, Typing, Populated
<1>5. MemberInv'
  BY <1>2, <1>3, MemberIs DEF BuiltInv, MemberInv, AtTag, TagOf, Member, BuildRoot
<1>6. \A m \in built' : Stored(m)'
  BY <1>2, <1>3 DEF BuiltInv, Typing, Stored, AtTag, TagOf
<1> QED BY <1>4, <1>5, <1>6 DEF BuiltInv

\* Who edits or commits does it in no clone.
LEMMA LocalStep ==
  ASSUME BuiltInv, PinsApart, NEW w \in Local, Edit(w) \/ Commit(w), ReportInv'
  PROVE  BuiltInv'
<1>0. w \in Copies /\ copy \in [Copies -> CopyState] /\ copy[w].text \in Nat /\ copy[w].text > 0
      /\ copy[w].head > 0 /\ copy[w].head \in Nat
  BY DEF BuiltInv, Typing, Populated, Local, CopyState
<1>1. /\ copy' \in [Copies -> CopyState] /\ copy'[w].text > 0 /\ copy'[w].head > 0
      /\ \A v \in Copies : v # w => copy'[v] = copy[v]
  <2>1. CASE Edit(w)
    <3>1. copy' = [copy EXCEPT ![w].text = copy[w].text + 1] /\ copy[w].text + 1 \in Nat
      BY <1>0, <2>1 DEF Edit
    <3>2. /\ copy' \in [Copies -> CopyState] /\ copy'[w].text = copy[w].text + 1
          /\ copy'[w].head = copy[w].head /\ \A v \in Copies : v # w => copy'[v] = copy[v]
      BY <1>0, <3>1, TextSet
    <3> QED BY <1>0, <3>2
  <2>2. CASE Commit(w)
    <3>1. copy' = [copy EXCEPT ![w].head = copy[w].text]
      BY <2>2 DEF Commit
    <3>2. /\ copy' \in [Copies -> CopyState] /\ copy'[w].text = copy[w].text
          /\ copy'[w].head = copy[w].text /\ \A v \in Copies : v # w => copy'[v] = copy[v]
      BY <1>0, <3>1, HeadSet
    <3> QED BY <1>0, <3>2
  <2> QED BY <2>1, <2>2
<1>2. UNCHANGED <<ref, remote, store, build>>
  BY DEF Edit, Commit
<1>3. Typing' /\ Populated'
  BY <1>1, <1>2 DEF BuiltInv, Typing, Populated, Local
<1>4. pc \notin {"idle", "member"} => Member' = Member /\ Copy[Member] \in Copies
  BY <1>2, MemberIs, Where DEF BuiltInv, Member
<1>5. \A m \in Members : ref[m] = "tag" => Copy[m] # w
  BY DEF PinsApart, BuiltInv, Typing
<1>6. MemberInv'
  BY <1>1, <1>2, <1>4, <1>5, MemberIs DEF BuiltInv, MemberInv, AtTag, TagOf, BuildRoot
<1>7. \A m \in built' : Stored(m)'
  BY <1>2 DEF BuiltInv, Stored, AtTag, TagOf
<1> QED BY <1>3, <1>6, <1>7 DEF BuiltInv

\* The server creates an index where there is none, and writes nothing else.
LEMMA CallsKeep ==
  ASSUME BuiltInv, NEW c, CallStep(c) \/ \E ms \in Asks : Ask(c, ms), ReportInv'
  PROVE  BuiltInv'
<1>1. UNCHANGED <<ref, remote, copy, build>>
  BY DEF CallStep, FindEngine, OpenEngine, ReadGraph, ReadEnvelope, Ask
<1>2. UNCHANGED store \/ \E r : store' = Created(r)
  BY DEF CallStep, FindEngine, OpenEngine, ReadGraph, ReadEnvelope, Ask
<1>3. /\ store' \in [Roots -> Index]
      /\ \A q \in Roots : /\ store'[q].commit < 0 => store'[q] = NoIndex
                          /\ store[q].commit >= 0 => store'[q] = store[q]
  BY <1>2, CreatedKeeps DEF BuiltInv, Typing, Populated
<1>4. Typing' /\ Populated'
  BY <1>1, <1>3 DEF BuiltInv, Typing, Populated
<1>5. pc = "save" => BuildRoot(Member) \in Roots
  BY MemberIs, Where DEF BuiltInv
<1>6. MemberInv'
  BY <1>1, <1>3, <1>5 DEF BuiltInv, MemberInv, AtTag, TagOf, Member, BuildRoot
<1>7. \A m \in built' : Stored(m)'
  <2> SUFFICES ASSUME NEW m \in built PROVE Stored(m)'
    BY <1>1
  <2>1. BuildRoot(m) \in Roots /\ Stored(m) /\ store[BuildRoot(m)].commit \in Int
    BY Where DEF BuiltInv, Typing, Index
  <2>2. store'[BuildRoot(m)] = store[BuildRoot(m)]
    BY <1>3, <2>1 DEF Stored
  <2> QED BY <1>1, <2>1, <2>2 DEF Stored, AtTag, TagOf
<1> QED BY <1>4, <1>6, <1>7 DEF BuiltInv

(***************************************************************************)
(* The build.                                                              *)
(***************************************************************************)
\* Between two members nothing is claimed of one.
LEMMA BetweenMembers ==
  ASSUME BuiltInv, pc' \in {"idle", "member"}, UNCHANGED <<ref, remote, store, built>>,
         Typing', Populated', ReportInv'
  PROVE  BuiltInv'
<1>1. \A m \in built' : Stored(m)'
  BY DEF BuiltInv, Stored, AtTag, TagOf
<1> QED BY <1>1 DEF BuiltInv, MemberInv

\* A member that fails or is skipped.
LEMMA NotBuilt ==
  ASSUME BuiltInv, NEW s, s # "ok", Report(s), UNCHANGED world, UNCHANGED store, ReportInv'
  PROVE  BuiltInv'
<1>1. pc' = "member" /\ built' = built /\ seen' = 0 /\ fetch' = fetch
  BY DEF Report, After
<1>2. Typing' /\ Populated'
  BY <1>1 DEF BuiltInv, Typing, Populated
<1> QED BY <1>1, <1>2, BetweenMembers

\* The working copy is taken to a commit, and nothing else is.
LEMMA CopyStep ==
  ASSUME BuiltInv, PinsApart, NEW w, w = Copy[Member], pc \in {"clone", "pull", "checkout"},
         NEW x \in Nat, x > 0, copy'[w].text = x, copy'[w].head = x,
         copy' \in [Copies -> CopyState], \A v \in Copies : v # w => copy'[v] = copy[v],
         pc' \in {"checkout", "index"}, pc' = "checkout" => ref[Member] # None,
         pc' = "index" => AtTag(Member, x),
         UNCHANGED <<at, fetch, seen, rows, built, builds, ref, remote, store>>, ReportInv'
  PROVE  BuiltInv'
<1>1. Member \in Members /\ w \in Copies /\ Member' = Member /\ w \notin Local
  BY MemberIs, Where DEF BuiltInv, MemberInv, Member
<1>2. Typing' /\ Populated'
  BY <1>1 DEF BuiltInv, Typing, Populated, Local
<1>3. MemberInv'
  BY <1>1 DEF MemberInv, AtTag, TagOf
<1>4. \A m \in built' : Stored(m)'
  BY DEF BuiltInv, Stored, AtTag, TagOf
<1> QED BY <1>2, <1>3, <1>4 DEF BuiltInv

\* A clone or a pull ends at the tip of the branch.
LEMMA AtMain ==
  ASSUME BuiltInv, pc \in {"clone", "pull"}, NEW w, w = Copy[Member],
         copy' = [copy EXCEPT ![w] = [text |-> remote[Source[w]].main, head |-> remote[Source[w]].main,
                                      main |-> remote[Source[w]].main]]
  PROVE  /\ copy' \in [Copies -> CopyState] /\ \A v \in Copies : v # w => copy'[v] = copy[v]
         /\ remote[Source[w]].main \in Nat /\ remote[Source[w]].main > 0
         /\ copy'[w].text = remote[Source[w]].main /\ copy'[w].head = remote[Source[w]].main
<1>1. w \in Copies /\ w \notin Local
  BY MemberIs, Where DEF BuiltInv, MemberInv
<1>2. remote[Source[w]].main \in Nat /\ remote[Source[w]].main > 0
  BY <1>1, RemoteIs DEF BuiltInv, Typing, Populated, Remote
<1> QED BY <1>1, <1>2 DEF BuiltInv, Typing, CopyState

LEMMA CloneStep ==
  ASSUME BuiltInv, PinsApart, Clone, ReportInv'
  PROVE  BuiltInv'
<1> DEFINE w == Copy[Member]
           x == remote[Source[w]].main
<1>1. pc = "clone" /\ copy' = [copy EXCEPT ![w] = [text |-> x, head |-> x, main |-> x]]
  BY DEF Clone
<1>2. /\ copy' \in [Copies -> CopyState] /\ \A v \in Copies : v # w => copy'[v] = copy[v]
      /\ x \in Nat /\ x > 0 /\ copy'[w].text = x /\ copy'[w].head = x
  BY <1>1, AtMain
<1>3. pc' = "index" => AtTag(Member, x)
  BY MembersAssumption DEF Clone, AtTag
<1>4. /\ pc' \in {"checkout", "index"}
      /\ pc' = "checkout" => ref[Member] # None
      /\ UNCHANGED <<at, fetch, seen, rows, built, builds, ref, remote, store>>
  BY DEF Clone
<1> HIDE DEF w, x
<1>5. w = Copy[Member]
  BY DEF w
<1> QED BY <1>1, <1>2, <1>3, <1>4, <1>5, CopyStep

LEMMA PullStep ==
  ASSUME BuiltInv, PinsApart, Pull, ReportInv'
  PROVE  BuiltInv'
<1> DEFINE w == Copy[Member]
           x == remote[Source[w]].main
<1>1. pc = "pull" /\ copy' = [copy EXCEPT ![w] = [text |-> x, head |-> x, main |-> x]]
  BY DEF Pull
<1>2. /\ copy' \in [Copies -> CopyState] /\ \A v \in Copies : v # w => copy'[v] = copy[v]
      /\ x \in Nat /\ x > 0 /\ copy'[w].text = x /\ copy'[w].head = x
  BY <1>1, AtMain
<1>3. AtTag(Member, x)
  BY <1>1, MembersAssumption DEF AtTag, BuiltInv, MemberInv
<1>4. /\ pc' = "index"
      /\ UNCHANGED <<at, fetch, seen, rows, built, builds, ref, remote, store>>
  BY DEF Pull
<1> HIDE DEF w, x
<1>5. w = Copy[Member]
  BY DEF w
<1> QED BY <1>1, <1>2, <1>3, <1>4, <1>5, CopyStep

LEMMA CheckoutStep ==
  ASSUME BuiltInv, PinsApart, CheckoutRef, ReportInv'
  PROVE  BuiltInv'
<1> DEFINE w == Copy[Member]
           x == IF ref[Member] = "branch" THEN copy[w].main ELSE remote[Source[w]].tag
<1>1. CASE x = 0
  BY <1>1, NotBuilt DEF CheckoutRef
<1>2. CASE x # 0
  <2>0. w \in Copies /\ w \notin Local /\ pc = "checkout"
    BY MemberIs, Where DEF BuiltInv, MemberInv, CheckoutRef
  <2>1. x \in Nat /\ x > 0
    BY <1>2, <2>0, RemoteIs DEF BuiltInv, Typing, CopyState, Remote
  <2>2. copy' = [copy EXCEPT ![w].text = x, ![w].head = x]
    BY <1>2 DEF CheckoutRef, Checkout
  <2>3. AtTag(Member, x)
    BY <1>2 DEF AtTag, TagOf
  <2>4. /\ pc' = "index"
        /\ UNCHANGED <<at, fetch, seen, rows, built, builds, ref, remote, store>>
    BY <1>2 DEF CheckoutRef
  <2> HIDE DEF w, x
  <2>5. w = Copy[Member]
    BY DEF w
  <2>6. /\ copy' \in [Copies -> CopyState] /\ copy'[w].text = x /\ copy'[w].head = x
        /\ \A v \in Copies : v # w => copy'[v] = copy[v]
    BY <2>0, <2>1, <2>2 DEF BuiltInv, Typing, CopyState
  <2> QED BY <2>0, <2>1, <2>3, <2>4, <2>5, <2>6, CopyStep
<1> QED BY <1>1, <1>2

\* The member's turn begins: with an index, a clone or a fetch.
LEMMA NextStep ==
  ASSUME BuiltInv, PinsApart, NextMember, ReportInv'
  PROVE  BuiltInv'
<1>1. CASE Report("skipped")
  BY <1>1, NotBuilt DEF NextMember
<1>2. CASE ~Report("skipped")
  <2>1. /\ pc = "member" /\ at <= Len(Order)
        /\ pc' = IF Copy[Member] \in Local THEN "index"
                 ELSE IF ~Cloned(Copy[Member]) THEN "clone" ELSE "fetch"
        /\ UNCHANGED <<at, fetch, seen, rows, built, builds, ref, remote, copy, store>>
    BY <1>2 DEF NextMember
  <2>2. Member \in Members /\ Copy[Member] \in Copies /\ Member' = Member
    BY <2>1, MembersAssumption, Where DEF BuiltInv, ReportInv, Member
  <2>3. copy[Copy[Member]].head \in Nat /\ ref \in Refs
    BY <2>2 DEF BuiltInv, Typing, CopyState
  <2>4. MemberInv'
    BY <2>1, <2>2, <2>3 DEF MemberInv, BuiltInv, Populated, Cloned, AtTag, PinsApart
  <2>5. Typing' /\ Populated' /\ \A m \in built' : Stored(m)'
    BY <2>1 DEF BuiltInv, Typing, Populated, Stored, AtTag, TagOf
  <2> QED BY <2>4, <2>5 DEF BuiltInv
<1> QED BY <1>1, <1>2

\* A copy that was fetched is taken to its ref, if it has one.
LEMMA FetchStep ==
  ASSUME BuiltInv, Fetch, ReportInv'
  PROVE  BuiltInv'
<1>1. /\ pc = "fetch" /\ fetch
      /\ pc' = IF ref[Member] = None THEN "pull" ELSE "checkout"
      /\ UNCHANGED <<at, fetch, seen, rows, built, builds, ref, remote, copy, store>>
  BY DEF Fetch, BuiltInv, Typing
<1>2. MemberInv'
  BY <1>1 DEF BuiltInv, MemberInv, Member, AtTag
<1>3. Typing' /\ Populated' /\ \A m \in built' : Stored(m)'
  BY <1>1 DEF BuiltInv, Typing, Populated, Stored, AtTag, TagOf
<1> QED BY <1>2, <1>3 DEF BuiltInv

\* The graph is written from the copy, at its pin, under the member's own root.
LEMMA IndexStep ==
  ASSUME BuiltInv, RootsApart, IndexGraph, ReportInv'
  PROVE  BuiltInv'
<1> DEFINE r == BuildRoot(Member)
           w == Copy[Member]
<1>0. pc = "index" /\ Member \in Members /\ r \in Roots /\ w \in Copies
  BY MemberIs, Where DEF BuiltInv, IndexGraph
<1>1. /\ Created(r) \in [Roots -> Index] /\ Created(r)[r].commit >= 0
      /\ \A q \in Roots : /\ Created(r)[q].commit < 0 => Created(r)[q] = NoIndex
                          /\ store[q].commit >= 0 => Created(r)[q] = store[q]
  BY <1>0, CreatedKeeps DEF BuiltInv
<1>2. \A m \in built : m \in Members /\ BuildRoot(m) \in Roots /\ store[BuildRoot(m)].commit > 0
        /\ Created(r)[BuildRoot(m)] = store[BuildRoot(m)]
  BY <1>1, Where DEF BuiltInv, Typing, Stored, Index
<1>3. CASE store' = Created(r) /\ Report("FAILED")
  <2>1. pc' = "member" /\ UNCHANGED <<ref, remote, copy, built, fetch>> /\ seen' = 0
    BY <1>3 DEF IndexGraph, Report, After
  <2>2. Typing' /\ Populated'
    BY <1>1, <1>3, <2>1 DEF BuiltInv, Typing, Populated
  <2>3. \A m \in built' : Stored(m)'
    BY <1>2, <1>3, <2>1 DEF BuiltInv, Stored, AtTag, TagOf
  <2> QED BY <2>1, <2>2, <2>3 DEF BuiltInv, MemberInv
<1>4. CASE WriteGraph
  <2>1. /\ store' = [Created(r) EXCEPT ![r] = GraphWritten(Created(r)[r], w)]
        /\ seen' = copy[w].head /\ pc' = "save"
        /\ UNCHANGED <<at, fetch, rows, built, builds, ref, remote, copy>>
    BY <1>1, <1>4 DEF WriteGraph, IndexGraph
  <2>2. Created(r)[r] \in Index /\ copy[w] \in CopyState /\ copy[w].head > 0
    BY <1>0, <1>1 DEF BuiltInv, Typing, MemberInv
  <2>3. /\ GraphWritten(Created(r)[r], w) \in Index /\ GraphWritten(Created(r)[r], w).from = w
        /\ GraphWritten(Created(r)[r], w).text = copy[w].text
        /\ GraphWritten(Created(r)[r], w).commit = Created(r)[r].commit
    BY <1>0, <2>2, GraphSet
  <2> HIDE DEF r, w
  <2>4. /\ store' \in [Roots -> Index] /\ store'[r].from = w /\ store'[r].text = copy[w].text
        /\ store'[r].commit = Created(r)[r].commit
        /\ \A q \in Roots : q # r => store'[q] = Created(r)[q]
    BY <1>0, <1>1, <2>1, <2>3
  <2>5. Typing' /\ Populated'
    <3>1. seen' \in Nat
      BY <2>1, <2>2 DEF CopyState
    <3>2. Created(r)[r].commit \in Int /\ ~(store'[r].commit < 0)
      BY <1>0, <1>1, <2>4 DEF Index
    <3> QED BY <1>1, <2>1, <2>4, <3>1, <3>2 DEF BuiltInv, Typing, Populated
  <2>6. AtTag(Member, copy[w].text)
    BY <1>0 DEF BuiltInv, MemberInv, w
  <2>7. MemberInv'
    BY <1>1, <2>1, <2>2, <2>4, <2>6 DEF MemberInv, AtTag, TagOf, Member, r, w, BuildRoot
  <2>8. \A m \in built' : Stored(m)'
    <3> SUFFICES ASSUME NEW m \in built PROVE Stored(m)'
      BY <2>1
    <3>1. CASE m = Member
      BY <1>2, <2>1, <2>4, <2>6, <3>1 DEF Stored, AtTag, TagOf, r, w
    <3>2. CASE m # Member
      <4>1. store'[BuildRoot(m)] = store[BuildRoot(m)]
        BY <1>0, <1>2, <2>4, <3>2 DEF RootsApart, r
      <4> QED BY <2>1, <4>1 DEF BuiltInv, Stored, AtTag, TagOf
    <3> QED BY <3>1, <3>2
  <2> QED BY <2>5, <2>7, <2>8 DEF BuiltInv
<1> QED BY <1>3, <1>4 DEF IndexGraph

\* The manifest names the commit that was read before the graph was written.
LEMMA SaveStep ==
  ASSUME BuiltInv, RootsApart, SaveMeta, ReportInv'
  PROVE  BuiltInv'
<1> DEFINE r == BuildRoot(Member)
<1>0. pc = "save" /\ Member \in Members /\ r \in Roots /\ seen \in Nat /\ seen > 0
  BY MemberIs, Where DEF BuiltInv, SaveMeta, Typing, MemberInv
<1>1. /\ store' = [store EXCEPT ![r].commit = seen]
      /\ built' = built \union {Member} /\ pc' = "member" /\ seen' = 0
      /\ UNCHANGED <<ref, remote, copy, fetch>>
  BY DEF SaveMeta, Report, After
<1>2. /\ store[r].from = Copy[Member] /\ AtTag(Member, store[r].text) /\ store \in [Roots -> Index]
  BY <1>0 DEF BuiltInv, MemberInv, Typing
<1> HIDE DEF r
<1>3. /\ store' \in [Roots -> Index] /\ store'[r].commit = seen /\ store'[r].from = store[r].from
      /\ store'[r].text = store[r].text /\ \A q \in Roots : q # r => store'[q] = store[q]
  BY <1>0, <1>1, <1>2 DEF Index
<1>4. Typing' /\ Populated'
  BY <1>0, <1>1, <1>3 DEF BuiltInv, Typing, Populated
<1>5. ASSUME NEW m \in built' PROVE Stored(m)'
  <2>1. CASE m = Member
    BY <1>0, <1>1, <1>2, <1>3, <2>1 DEF Stored, AtTag, TagOf, r, BuildRoot
  <2>2. CASE m # Member
    <3>1. m \in built /\ BuildRoot(m) \in Roots /\ BuildRoot(m) # r
      BY <1>0, <1>1, <1>5, <2>2, Where DEF BuiltInv, Typing, RootsApart, r
    <3> QED BY <1>1, <1>3, <3>1 DEF BuiltInv, Stored, AtTag, TagOf
  <2> QED BY <2>1, <2>2
<1> QED BY <1>1, <1>4, <1>5 DEF BuiltInv, MemberInv

LEMMA BuiltStep ==
  ASSUME BuiltInv, RootsApart, PinsApart, ~Offline, [Next]_vars
  PROVE  BuiltInv'
<1>0. ReportInv'
  BY ReportKept DEF BuiltInv
<1>1. ASSUME NEW r \in Remotes, Push(r) \/ Tag(r) PROVE BuiltInv'
  BY <1>0, <1>1, RemoteStep
<1>2. ASSUME NEW w \in Local, Edit(w) \/ Commit(w) PROVE BuiltInv'
  BY <1>0, <1>2, LocalStep
<1>3. ASSUME NEW c, CallStep(c) \/ \E ms \in Asks : Ask(c, ms) PROVE BuiltInv'
  BY <1>0, <1>3, CallsKeep
<1>4. ASSUME NEW online \in {TRUE, ~Offline}, StartBuild(online) PROVE BuiltInv'
  <2>1. /\ pc' = "member" /\ fetch' = TRUE
        /\ UNCHANGED <<ref, remote, copy, store, seen, built>>
    BY <1>4 DEF StartBuild
  <2>2. Typing' /\ Populated'
    BY <2>1 DEF BuiltInv, Typing, Populated
  <2> QED BY <1>0, <2>1, <2>2, BetweenMembers
<1>5. CASE EndBuild \/ KillBuild
  <2>1. /\ pc' = "idle" /\ seen' \in {0, seen}
        /\ UNCHANGED <<ref, remote, copy, store, built, fetch>>
    BY <1>5 DEF EndBuild, KillBuild
  <2>2. Typing' /\ Populated'
    BY <2>1 DEF BuiltInv, Typing, Populated
  <2> QED BY <1>0, <2>1, <2>2, BetweenMembers
<1>6. CASE MemberFails
  BY <1>0, <1>6, NotBuilt DEF MemberFails
<1>7. CASE Stop \/ UNCHANGED vars
  <2>1. UNCHANGED <<world, store, build>>
    BY <1>7 DEF Stop
  <2> QED BY <1>0, <2>1 DEF BuiltInv, Typing, Populated, MemberInv, Stored, AtTag, TagOf, Member, BuildRoot
<1>8. CASE BuildStep
  BY <1>0, <1>5, <1>8, NextStep, CloneStep, FetchStep, PullStep, CheckoutStep, IndexStep, SaveStep
     DEF BuildStep
<1> QED BY <1>1, <1>2, <1>3, <1>4, <1>5, <1>6, <1>7, <1>8 DEF Next

LEMMA BuiltInit == Init => BuiltInv
<1> SUFFICES ASSUME Init PROVE BuiltInv
  OBVIOUS
<1>1. remote \in [Remotes -> Remote] /\ \A r \in Remotes : remote[r].main > 0
  <2>1. remote = [r \in Remotes |-> [main |-> 1, tag |-> 0]]
    BY DEF Init
  <2> QED BY <2>1 DEF Remote
<1>2. copy \in [Copies -> CopyState] /\ \A w \in Local : copy[w].text > 0 /\ copy[w].head > 0
  BY DEF Init, CopyState, NoCopy, Local
<1>3. store \in [Roots -> Index] /\ \A r \in Roots : store[r].commit < 0 => store[r] = NoIndex
  <2>1. NoIndex \in Index
    BY DEF NoIndex, Index
  <2>2. ASSUME NEW m \in Members PROVE Elsewhere(m) \in Index /\ Elsewhere(m).commit = 1
    BY Where DEF Elsewhere, Index
  <2>3. PICK there \in SUBSET {m \in Members : ReadOnly(m)} :
          store = [r \in Roots |-> IF \E m \in there : r = ServeRoot(m)
                                   THEN Elsewhere(CHOOSE m \in there : r = ServeRoot(m)) ELSE NoIndex]
    BY DEF Init
  <2>4. ASSUME NEW r \in Roots
        PROVE  store[r] = NoIndex \/ \E m \in Members : store[r] = Elsewhere(m)
    <3>1. CASE \E m \in there : r = ServeRoot(m)
      <4>1. (CHOOSE m \in there : r = ServeRoot(m)) \in Members
        BY <3>1
      <4> QED BY <2>3, <3>1, <4>1
    <3> QED BY <2>3, <3>1
  <2>5. ASSUME NEW r \in Roots PROVE store[r] \in Index /\ (store[r].commit < 0 => store[r] = NoIndex)
    BY <2>1, <2>2, <2>4
  <2>6. DOMAIN store = Roots /\ store = [r \in DOMAIN store |-> store[r]]
    BY <2>3
  <2> QED BY <2>5, <2>6
<1>4. ReportInv
  BY MembersAssumption DEF Init, ReportInv, Pcs
<1> QED BY <1>1, <1>2, <1>3, <1>4 DEF BuiltInv, Typing, Populated, MemberInv, Init

\* What a build has reported ok stays, whatever fails, is killed or is asked meanwhile, and a
\* member pinned to a tag has the tag's graph (cli.py _workspace_run, serve/checkout.py), for
\* every workspace whose members share no index and no pinned clone, built with --fetch.
THEOREM BuildsAreKept ==
  ASSUME RootsApart, PinsApart, ~Offline
  PROVE  Spec => []BuiltStays
<1>1. Init => BuiltInv
  BY BuiltInit
<1>2. BuiltInv /\ [Next]_vars => BuiltInv'
  BY BuiltStep
<1>3. BuiltInv => BuiltStays
  BY DEF BuiltInv, Stored, AtTag, TagOf, BuiltStays
<1> QED BY <1>1, <1>2, <1>3, PTL DEF Spec

(***************************************************************************)
(* The server answers from what was built.                                 *)
(***************************************************************************)
CallsInv ==
  /\ call = [c \in Clients |-> call[c]]
  /\ \A c \in Clients : call[c] = Quiet \/
       /\ call[c] = [pc |-> call[c].pc, todo |-> call[c].todo, read |-> call[c].read]
       /\ call[c].pc \in {"engine", "open", "read", "envelope"}
       /\ call[c].todo \in Seq(Members) /\ call[c].todo # <<>>

\* An index that is open is there and nobody else's to write: what a call has read is
\* what is in it until the call has made its envelope.
EnginesInv ==
  /\ engine = [m \in Members |-> engine[m]]
  /\ \A m \in Members : engine[m] # None => engine[m] = ServeRoot(m) /\ store[ServeRoot(m)].commit >= 0
  /\ pc = "save" => ~Opened(BuildRoot(Member))
  /\ \A c \in Clients : call[c].pc \in {"read", "envelope"} => engine[AskedNow(c)] # None
  /\ \A c \in Clients : call[c].pc = "envelope" => call[c].read = store[ServeRoot(AskedNow(c))]

ServeInv == CallsInv /\ EnginesInv

LEMMA ServeInit == Init => ServeInv
BY DEF Init, ServeInv, CallsInv, EnginesInv, Quiet

LEMMA AskedIs ==
  ASSUME CallsInv, NEW c \in Clients, call[c].pc # "idle"
  PROVE  AskedNow(c) \in Members
BY DEF CallsInv, AskedNow, Quiet

\* The build and the developers leave an open index alone.
LEMMA LeftAlone ==
  ASSUME ServeInv, UNCHANGED <<engine, call>>,
         \A m \in Members : engine[m] # None => store'[ServeRoot(m)] = store[ServeRoot(m)],
         pc' = "save" => ~Opened(BuildRoot(Member))'
  PROVE  ServeInv'
<1>1. CallsInv' /\ \A c : AskedNow(c)' = AskedNow(c)
  BY DEF ServeInv, CallsInv, AskedNow, Quiet
<1>2. ASSUME NEW c \in Clients, call[c].pc = "envelope"
      PROVE  call[c].read = store'[ServeRoot(AskedNow(c))]
  <2>1. AskedNow(c) \in Members /\ engine[AskedNow(c)] # None /\ call[c].read = store[ServeRoot(AskedNow(c))]
    BY <1>2, AskedIs DEF ServeInv, EnginesInv
  <2> QED BY <2>1
<1>3. EnginesInv'
  BY <1>1, <1>2 DEF ServeInv, EnginesInv, AskedNow
<1> QED BY <1>1, <1>3 DEF ServeInv

\* A step of the build writes no index that is open.
LEMMA BuildLeavesAlone ==
  ASSUME BuiltInv, ServeInv, Exclusive, BuildStep \/ MemberFails \/ KillBuild \/ \E o : StartBuild(o)
  PROVE  ServeInv'
<1>1. UNCHANGED <<engine, call>>
  BY DEF BuildStep, MemberFails, KillBuild, StartBuild, NextMember, EndBuild, Clone, Fetch, Pull, CheckoutRef,
         IndexGraph, SaveMeta
<1>2. CASE IndexGraph
  <2> DEFINE r == BuildRoot(Member)
  <2>1. pc = "index" /\ Member \in Members /\ r \in Roots
    BY <1>2, MemberIs, Where DEF BuiltInv, IndexGraph
  <2>2. \A m \in Members : engine[m] # None => Created(r)[ServeRoot(m)] = store[ServeRoot(m)]
    BY <2>1, Where, CreatedKeeps DEF BuiltInv, ServeInv, EnginesInv
  <2>3. CASE Refused
    <3>1. store' = Created(r) /\ pc' = "member"
      BY <1>2, <2>3 DEF IndexGraph, Report, After
    <3> QED BY <1>1, <2>2, <3>1, LeftAlone
  <2>4. CASE ~Refused
    <3>1. /\ store' = [Created(r) EXCEPT ![r] = GraphWritten(Created(r)[r], Copy[Member])]
          /\ UNCHANGED at /\ ~Opened(r)
      BY <1>2, <2>4 DEF IndexGraph, WriteGraph, Refused
    <3>2. \A m \in Members : engine[m] # None => ServeRoot(m) # r
      BY <3>1 DEF Opened, ServeInv, EnginesInv
    <3>3. \A m \in Members : engine[m] # None => store'[ServeRoot(m)] = store[ServeRoot(m)]
      BY <2>1, <2>2, <3>1, <3>2
    <3>4. ~Opened(BuildRoot(Member))'
      BY <1>1, <3>1 DEF Opened, Member, BuildRoot
    <3> QED BY <1>1, <3>3, <3>4, LeftAlone
  <2> QED BY <2>3, <2>4
<1>3. CASE SaveMeta
  <2> DEFINE r == BuildRoot(Member)
  <2>1. /\ store' = [store EXCEPT ![r].commit = seen] /\ pc' = "member" /\ pc = "save"
    BY <1>3 DEF SaveMeta, Report, After
  <2>2. \A m \in Members : engine[m] # None => ServeRoot(m) # r
    BY <2>1 DEF Opened, ServeInv, EnginesInv
  <2>3. \A m \in Members : engine[m] # None => store'[ServeRoot(m)] = store[ServeRoot(m)]
    BY <2>1, <2>2
  <2> QED BY <1>1, <2>1, <2>3, LeftAlone
<1>4. CASE ~IndexGraph /\ ~SaveMeta
  <2>1. UNCHANGED store /\ pc' # "save"
    BY <1>4 DEF BuildStep, MemberFails, KillBuild, StartBuild, NextMember, EndBuild, Clone, Fetch, Pull, CheckoutRef,
                Report, After
  <2> QED BY <1>1, <2>1, LeftAlone
<1> QED BY <1>2, <1>3, <1>4

\* A call moves on, to another place with the same members left.
LEMMA CallMoves ==
  ASSUME CallsInv, NEW c \in Clients, call[c] # Quiet,
         NEW p \in {"engine", "open", "read", "envelope"}, NEW i,
         call' = [call EXCEPT ![c].pc = p, ![c].read = i]
  PROVE  /\ CallsInv' /\ call'[c].pc = p /\ call'[c].read = i /\ call'[c].todo = call[c].todo
         /\ \A d \in Clients : d # c => call'[d] = call[d]
<1>1. /\ call[c] = [pc |-> call[c].pc, todo |-> call[c].todo, read |-> call[c].read]
      /\ call[c].todo \in Seq(Members) /\ call[c].todo # <<>>
  BY DEF CallsInv
<1>2. call'[c] = [pc |-> p, todo |-> call[c].todo, read |-> i]
  BY <1>1 DEF CallsInv
<1>3. \A d \in Clients : d # c => call'[d] = call[d]
  BY DEF CallsInv
<1>4. call' = [d \in Clients |-> call'[d]]
  BY DEF CallsInv
<1> QED BY <1>1, <1>2, <1>3, <1>4 DEF CallsInv, Quiet

\* A call ends, begins or goes on to the next member.
LEMMA CallTurns ==
  ASSUME CallsInv, NEW c \in Clients, NEW q, call' = [call EXCEPT ![c] = q],
         q = Quiet \/ \E ms \in Seq(Members) \ {<<>>} : q = Asking(ms)
  PROVE  /\ CallsInv' /\ call'[c].pc \in {"idle", "engine"}
         /\ \A d \in Clients : d # c => call'[d] = call[d]
<1>1. call'[c] = q /\ call' = [d \in Clients |-> call'[d]] /\ \A d \in Clients : d # c => call'[d] = call[d]
  BY DEF CallsInv
<1> QED BY <1>1 DEF CallsInv, Quiet, Asking

\* The other calls, when one takes a step, and the engines that were open.
LEMMA OtherCalls ==
  ASSUME EnginesInv, CallsInv, CallsInv', NEW c \in Clients, UNCHANGED build,
         \A d \in Clients : d # c => call'[d] = call[d],
         engine' = [m \in Members |-> engine'[m]],
         \A m \in Members : engine[m] # None =>
           engine'[m] = engine[m] /\ store'[ServeRoot(m)] = store[ServeRoot(m)],
         \A m \in Members : engine[m] = None /\ engine'[m] # None =>
           engine'[m] = ServeRoot(m) /\ store'[ServeRoot(m)].commit >= 0
             /\ ~(pc = "save" /\ BuildRoot(Member) = ServeRoot(m)),
         call'[c].pc \in {"read", "envelope"} => engine'[call'[c].todo[1]] # None,
         call'[c].pc = "envelope" => call'[c].read = store'[ServeRoot(call'[c].todo[1])]
  PROVE  ServeInv'
<1>1. \A d \in Clients : d # c => AskedNow(d)' = AskedNow(d)
  BY DEF AskedNow
<1>2. \A m \in Members : engine'[m] # None => engine'[m] = ServeRoot(m) /\ store'[ServeRoot(m)].commit >= 0
  BY DEF EnginesInv
<1>3. pc' = "save" => ~Opened(BuildRoot(Member))'
  <2> SUFFICES ASSUME pc = "save", NEW m \in Members, engine'[m] = BuildRoot(Member) PROVE FALSE
    BY DEF Opened, Member, BuildRoot
  <2>1. engine[m] # BuildRoot(Member)
    BY DEF EnginesInv, Opened
  <2>2. engine[m] = None
    BY <2>1
  <2>3. BuildRoot(Member) = None
    BY <2>2, <2>1
  <2> QED BY <2>2, <2>3, <2>1
<1>4. ASSUME NEW d \in Clients, d # c, call'[d].pc \in {"read", "envelope"}
      PROVE  /\ engine'[AskedNow(d)] # None
             /\ call'[d].pc = "envelope" => call'[d].read = store'[ServeRoot(AskedNow(d))]
  <2>1. call[d].pc = call'[d].pc /\ AskedNow(d) \in Members /\ engine[AskedNow(d)] # None
    BY <1>4, AskedIs DEF EnginesInv
  <2> QED BY <1>4, <2>1 DEF EnginesInv
<1>5. EnginesInv'
  BY <1>1, <1>2, <1>3, <1>4 DEF EnginesInv, AskedNow
<1> QED BY <1>5 DEF ServeInv

LEMMA TailIs ==
  ASSUME NEW S, NEW s \in Seq(S), s # <<>>, Len(s) # 1
  PROVE  Tail(s) \in Seq(S) \ {<<>>}
<1>1. Tail(s) \in Seq(S) /\ Len(Tail(s)) = Len(s) - 1 /\ Len(s) \in Nat
  OBVIOUS
<1>2. Len(<<>>) = 0
  OBVIOUS
<1>3. Tail(s) = <<>> => Len(Tail(s)) = 0
  BY <1>2, Zenon
<1> QED BY <1>1, <1>3

LEMMA CallsServe ==
  ASSUME BuiltInv, ServeInv, Exclusive, NEW c \in Clients, CallStep(c) \/ \E ms \in Asks : Ask(c, ms)
  PROVE  ServeInv'
<1>0. CallsInv /\ EnginesInv /\ UNCHANGED build
  BY DEF ServeInv, CallStep, FindEngine, OpenEngine, ReadGraph, ReadEnvelope, Ask
<1>1. ASSUME NEW ms \in Asks, Ask(c, ms) PROVE ServeInv'
  <2>1. call' = [call EXCEPT ![c] = Asking(ms)] /\ UNCHANGED <<engine, store>> /\ ms \in Seq(Members) \ {<<>>}
    BY <1>1, AsksAssumption DEF Ask
  <2>2. CallsInv' /\ call'[c].pc \in {"idle", "engine"} /\ \A d \in Clients : d # c => call'[d] = call[d]
    BY <1>0, <2>1, CallTurns
  <2> QED BY <1>0, <2>1, <2>2, OtherCalls DEF EnginesInv
<1>2. CASE FindEngine(c)
  <2> DEFINE p == IF engine[AskedNow(c)] # None THEN "read" ELSE "open"
  <2>1. call[c].pc = "engine" /\ call' = [call EXCEPT ![c].pc = p] /\ UNCHANGED <<engine, store>>
    BY <1>2 DEF FindEngine
  <2>2. call[c] # Quiet
    BY <2>1 DEF Quiet
  <2>3. call' = [call EXCEPT ![c].pc = p, ![c].read = call[c].read]
    BY <1>0, <2>1, <2>2 DEF CallsInv
  <2>4. /\ CallsInv' /\ call'[c].pc = p /\ call'[c].todo = call[c].todo
        /\ \A d \in Clients : d # c => call'[d] = call[d]
    <3>1. p \in {"engine", "open", "read", "envelope"}
      OBVIOUS
    <3> HIDE DEF p
    <3> QED BY <1>0, <2>2, <2>3, <3>1, CallMoves
  <2>5. p = IF engine[AskedNow(c)] # None THEN "read" ELSE "open"
    OBVIOUS
  <2> HIDE DEF p
  <2>6. call'[c].pc # "envelope" /\ (call'[c].pc \in {"read", "envelope"} => engine'[call'[c].todo[1]] # None)
    BY <2>1, <2>4, <2>5 DEF AskedNow
  <2>7. /\ engine' = [m \in Members |-> engine'[m]]
        /\ \A m \in Members : engine'[m] = engine[m] /\ store'[ServeRoot(m)] = store[ServeRoot(m)]
    BY <1>0, <2>1 DEF EnginesInv
  <2> QED BY <1>0, <2>4, <2>6, <2>7, OtherCalls
<1>3. CASE OpenEngine(c)
  <2> DEFINE m == AskedNow(c)
             r == ServeRoot(m)
  <2>0. m \in Members /\ call[c] # Quiet /\ r \in Roots
    BY <1>0, <1>3, AskedIs, Where DEF OpenEngine, Quiet
  <2>1. CASE call' = [call EXCEPT ![c] = Quiet] /\ UNCHANGED <<engine, store>>
    <3>1. CallsInv' /\ call'[c].pc \in {"idle", "engine"} /\ \A d \in Clients : d # c => call'[d] = call[d]
      BY <1>0, <2>1, CallTurns
    <3> QED BY <1>0, <2>1, <3>1, OtherCalls DEF EnginesInv
  <2>2. CASE /\ store' = Created(r) /\ engine' = [engine EXCEPT ![m] = r]
             /\ call' = [call EXCEPT ![c].pc = "read"] /\ ~Busy(r)
    <3>1. call' = [call EXCEPT ![c].pc = "read", ![c].read = call[c].read]
      BY <1>0, <2>0, <2>2 DEF CallsInv
    <3>2. /\ CallsInv' /\ call'[c].pc = "read" /\ call'[c].todo = call[c].todo
          /\ \A d \in Clients : d # c => call'[d] = call[d]
      BY <1>0, <2>0, <3>1, CallMoves
    <3>3. /\ Created(r)[r].commit >= 0
          /\ \A n \in Members : engine[n] # None => Created(r)[ServeRoot(n)] = store[ServeRoot(n)]
      BY <1>0, <2>0, CreatedKeeps, Where DEF BuiltInv, EnginesInv
    <3>4. r # None
      BY <2>0, MembersAssumption
    <3>5. /\ engine' = [n \in Members |-> engine'[n]] /\ engine'[m] = r
          /\ \A n \in Members : n # m => engine'[n] = engine[n]
          /\ engine[m] # None => engine[m] = r
      BY <1>0, <2>0, <2>2 DEF EnginesInv
    <3>6. ~(pc = "save" /\ BuildRoot(Member) = r)
      BY <2>2 DEF Busy
    <3>7. m = call'[c].todo[1]
      BY <3>2 DEF AskedNow
    <3> HIDE DEF m, r
    <3>8. r = ServeRoot(m)
      BY DEF m, r
    <3>9. engine'[call'[c].todo[1]] # None
      BY <3>4, <3>5, <3>7
    <3>10. \A n \in Members : engine[n] # None =>
             engine'[n] = engine[n] /\ store'[ServeRoot(n)] = store[ServeRoot(n)]
      BY <2>2, <3>3, <3>5
    <3>11. \A n \in Members : engine[n] = None /\ engine'[n] # None =>
             engine'[n] = ServeRoot(n) /\ store'[ServeRoot(n)].commit >= 0
               /\ ~(pc = "save" /\ BuildRoot(Member) = ServeRoot(n))
      BY <2>2, <3>3, <3>5, <3>6, <3>8
    <3> QED BY <1>0, <3>2, <3>5, <3>9, <3>10, <3>11, OtherCalls
  <2> QED BY <1>3, <2>1, <2>2 DEF OpenEngine
<1>4. CASE ReadGraph(c)
  <2> DEFINE m == AskedNow(c)
  <2>1. /\ call[c].pc = "read" /\ UNCHANGED <<engine, store>>
        /\ call' = [call EXCEPT ![c].pc = "envelope", ![c].read = store[engine[m]]]
    BY <1>4 DEF ReadGraph
  <2>2. m \in Members /\ call[c] # Quiet /\ engine[m] # None /\ engine[m] = ServeRoot(m)
    BY <1>0, <2>1, AskedIs DEF Quiet, EnginesInv
  <2>3. /\ CallsInv' /\ call'[c].pc = "envelope" /\ call'[c].read = store[engine[m]] /\ call'[c].todo = call[c].todo
        /\ \A d \in Clients : d # c => call'[d] = call[d]
    BY <1>0, <2>1, <2>2, CallMoves
  <2>4. m = call'[c].todo[1]
    BY <2>3 DEF AskedNow
  <2> HIDE DEF m
  <2>5. engine'[call'[c].todo[1]] # None /\ call'[c].read = store'[ServeRoot(call'[c].todo[1])]
    BY <2>1, <2>2, <2>3, <2>4
  <2>6. engine' = [n \in Members |-> engine'[n]]
    BY <1>0, <2>1 DEF EnginesInv
  <2> QED BY <1>0, <2>1, <2>3, <2>5, <2>6, OtherCalls
<1>5. CASE ReadEnvelope(c)
  <2> DEFINE q == IF Len(call[c].todo) = 1 THEN Quiet ELSE Asking(Tail(call[c].todo))
  <2>1. call' = [call EXCEPT ![c] = q] /\ UNCHANGED <<engine, store>> /\ call[c].pc = "envelope"
    BY <1>5 DEF ReadEnvelope
  <2>2. call[c].todo \in Seq(Members) /\ call[c].todo # <<>>
    BY <1>0, <2>1 DEF CallsInv, Quiet
  <2>3. Len(call[c].todo) # 1 => Tail(call[c].todo) \in Seq(Members) \ {<<>>}
    BY <2>2, TailIs
  <2>4. CallsInv' /\ call'[c].pc \in {"idle", "engine"} /\ \A d \in Clients : d # c => call'[d] = call[d]
    BY <1>0, <2>1, <2>3, CallTurns
  <2> QED BY <1>0, <2>1, <2>4, OtherCalls DEF EnginesInv
<1> QED BY <1>1, <1>2, <1>3, <1>4, <1>5 DEF CallStep

LEMMA ServeStep ==
  ASSUME BuiltInv, ServeInv, Exclusive, [Next]_vars
  PROVE  ServeInv'
<1>1. ASSUME NEW r, Push(r) \/ Tag(r) PROVE UNCHANGED <<build, store, server>>
  BY <1>1 DEF Push, Tag
<1>2. ASSUME NEW w, Edit(w) \/ Commit(w) PROVE UNCHANGED <<build, store, server>>
  BY <1>2 DEF Edit, Commit
<1>3. ASSUME UNCHANGED <<build, store, server>> PROVE ServeInv'
  <2>1. pc' = "save" => ~Opened(BuildRoot(Member))'
    BY <1>3 DEF ServeInv, EnginesInv, Opened, Member, BuildRoot
  <2> QED BY <1>3, <2>1, LeftAlone
<1>4. CASE Stop
  <2>1. /\ \A c \in Clients : call[c] = Quiet
        /\ engine' = [m \in Members |-> None] /\ UNCHANGED <<call, build, store>>
    BY <1>4 DEF Stop
  <2>2. CallsInv'
    BY <2>1 DEF ServeInv, CallsInv, Quiet
  <2>3. pc = "save" => BuildRoot(Member) # None
    BY MemberIs, Where, MembersAssumption DEF BuiltInv
  <2>4. pc = "save" => ~Opened(BuildRoot(Member))'
    BY <2>1, <2>3 DEF Opened, Member, BuildRoot
  <2>5. EnginesInv'
    BY <2>1, <2>4 DEF EnginesInv, Quiet, Member, BuildRoot, Opened
  <2> QED BY <2>2, <2>5 DEF ServeInv
<1>5. ASSUME NEW c \in Clients, CallStep(c) \/ \E ms \in Asks : Ask(c, ms) PROVE ServeInv'
  BY <1>5, CallsServe
<1>6. CASE BuildStep \/ MemberFails \/ KillBuild \/ \E o : StartBuild(o)
  BY <1>6, BuildLeavesAlone
<1> QED BY <1>1, <1>2, <1>3, <1>4, <1>5, <1>6 DEF Next

(***************************************************************************)
(* No manifest is ahead of its graph.                                      *)
(***************************************************************************)
\* The text a member is taken to next is no older than this one, which only grows.
Reached(m) ==
  IF Copy[m] \in Local THEN copy[Copy[m]].text
  ELSE IF ref[m] = "tag" THEN TagOf(m) ELSE copy[Copy[m]].main

\* A manifest never names a commit that is newer than the graph: also where a build was
\* killed after it had written the graph, since no text goes back behind an indexed one.
CommitsInv ==
  /\ \A w \in Local : copy[w].head <= copy[w].text
  /\ \A w \in Copies \ Local : copy[w].main <= remote[Source[w]].main
  /\ \A r \in Roots : store[r].commit <= store[r].text
  /\ \A m \in Members : store[BuildRoot(m)].commit <= 1 \/ store[BuildRoot(m)].commit <= Reached(m)
  /\ pc = "index" => LET c == copy[Copy[Member]]
                     IN c.head <= c.text /\ c.text = Reached(Member) /\ c.text >= 1
  /\ pc = "save" => seen <= store[BuildRoot(Member)].text /\ seen <= Reached(Member)

LEMMA ReachedIs == BuiltInv => \A m \in Members : Reached(m) \in Nat
<1> SUFFICES ASSUME BuiltInv, NEW m \in Members PROVE Reached(m) \in Nat
  OBVIOUS
<1>1. Copy[m] \in Copies /\ copy[Copy[m]] \in CopyState
  BY Where DEF BuiltInv, Typing
<1>2. Copy[m] \notin Local => remote[Source[Copy[m]]] \in Remote
  BY <1>1, RemoteIs DEF BuiltInv, Typing
<1> QED BY <1>1, <1>2 DEF Reached, TagOf, CopyState, Remote

LEMMA ReachedNext == BuiltInv' => \A m \in Members : Reached(m)' \in Nat
<1>1. (BuiltInv => \A m \in Members : Reached(m) \in Nat)'
  BY ReachedIs, PTL
<1> QED BY <1>1

LEMMA StoreIs ==
  ASSUME Typing, NEW r \in Roots
  PROVE  store[r].commit \in Int /\ store[r].text \in Nat
BY DEF Typing, Index

\* Texts go on and an index is left alone or made anew.
LEMMA CommitsKept ==
  ASSUME BuiltInv, BuiltInv', CommitsInv,
         \A w \in Local : copy'[w].head <= copy'[w].text,
         \A w \in Copies \ Local : copy'[w].main <= remote'[Source[w]].main,
         \A m \in Members : Reached(m) <= Reached(m)',
         \A r \in Roots : store'[r] = store[r] \/ (store[r] = NoIndex /\ store'[r] = EmptyIndex),
         pc' = "index" => LET c == copy'[Copy[Member']]
                          IN c.head <= c.text /\ c.text = Reached(Member)' /\ c.text >= 1,
         pc' = "save" => pc = "save" /\ UNCHANGED <<at, seen>>
  PROVE  CommitsInv'
<1>1. \A m \in Members : Reached(m) \in Nat /\ Reached(m)' \in Nat
  BY ReachedIs, ReachedNext
<1>2. EmptyIndex.commit = 0 /\ EmptyIndex.text = 0
  BY DEF EmptyIndex
<1>3. \A r \in Roots : store'[r].commit <= store'[r].text
  BY <1>2 DEF CommitsInv
<1>4. ASSUME NEW m \in Members
      PROVE  store'[BuildRoot(m)].commit <= 1 \/ store'[BuildRoot(m)].commit <= Reached(m)'
  <2>1. BuildRoot(m) \in Roots /\ store[BuildRoot(m)].commit \in Int
    BY Where, StoreIs DEF BuiltInv
  <2>2. store[BuildRoot(m)].commit <= 1 \/ store[BuildRoot(m)].commit <= Reached(m)
    BY DEF CommitsInv
  <2>3. Reached(m) <= Reached(m)' /\ Reached(m) \in Nat /\ Reached(m)' \in Nat
    BY <1>1
  <2> QED BY <1>2, <2>1, <2>2, <2>3
<1>5. ASSUME pc' = "save"
      PROVE  seen' <= store'[BuildRoot(Member)].text /\ seen' <= Reached(Member)' /\ Member' = Member
  <2>1. Member \in Members /\ BuildRoot(Member) \in Roots /\ pc = "save" /\ UNCHANGED <<at, seen>>
    BY <1>5, MemberIs, Where DEF BuiltInv
  <2>2. Member' = Member
    BY <2>1 DEF Member
  <2>3. seen > 0 /\ seen \in Nat
    BY <2>1 DEF BuiltInv, MemberInv, Typing
  <2>4. seen <= store[BuildRoot(Member)].text /\ seen <= Reached(Member)
    BY <2>1 DEF CommitsInv
  <2>5. store[BuildRoot(Member)].commit >= 0
    BY <2>1 DEF BuiltInv, MemberInv
  <2>6. store'[BuildRoot(Member)] = store[BuildRoot(Member)]
    <3>1. NoIndex.commit = -1
      BY DEF NoIndex
    <3> QED BY <2>1, <2>5, <3>1
  <2>7. \A m \in Members : m = Member => Reached(m)' = Reached(Member)'
    BY <2>2 DEF Reached, TagOf
  <2> QED BY <1>1, <2>1, <2>2, <2>3, <2>4, <2>6, <2>7
<1> QED BY <1>3, <1>4, <1>5 DEF CommitsInv, BuildRoot, Member

\* Nothing is done to the texts.
LEMMA SameReached ==
  ASSUME UNCHANGED <<ref, remote, copy>>
  PROVE  \A m : Reached(m)' = Reached(m)
BY DEF Reached, TagOf

\* The build is between two members, or goes on to fetch one.
LEMMA CommitsIdle ==
  ASSUME BuiltInv, BuiltInv', CommitsInv, UNCHANGED <<ref, remote, copy, store>>, pc' \notin {"index", "save"}
  PROVE  CommitsInv'
<1>1. \A m \in Members : Reached(m) <= Reached(m)'
  BY SameReached, ReachedIs
<1> QED BY <1>1, CommitsKept DEF CommitsInv

LEMMA CommitsRemote ==
  ASSUME BuiltInv, BuiltInv', CommitsInv, NEW r \in Remotes, Push(r) \/ Tag(r)
  PROVE  CommitsInv'
<1>1. UNCHANGED <<ref, copy, store, build>> /\ remote[r].main \in Nat /\ remote \in [Remotes -> Remote]
  BY DEF Push, Tag, BuiltInv, Typing, Remote
<1>2. \A q \in Remotes : /\ remote'[q].main >= remote[q].main /\ remote'[q].tag >= remote[q].tag
                         /\ remote[q].main \in Nat /\ remote[q].tag \in Nat
                         /\ remote'[q].main \in Nat /\ remote'[q].tag \in Nat
  <2>1. \A q \in Remotes : remote[q].main \in Nat /\ remote[q].tag \in Nat
    BY <1>1 DEF Remote
  <2>2. CASE Push(r)
    <3>1. /\ remote'[r].main = remote[r].main + 1 /\ remote'[r].tag = remote[r].tag
          /\ \A q \in Remotes : q # r => remote'[q] = remote[q]
      BY <1>1, <2>2, MainSet DEF Push
    <3> QED BY <2>1, <3>1
  <2>3. CASE Tag(r)
    <3>1. /\ remote'[r].main = remote[r].main /\ remote'[r].tag = 1 /\ remote[r].tag = 0
          /\ \A q \in Remotes : q # r => remote'[q] = remote[q]
      BY <1>1, <2>3, TagSet DEF Tag
    <3> QED BY <2>1, <3>1
  <2> QED BY <2>2, <2>3
<1>3. \A m \in Members : Reached(m) <= Reached(m)'
  <2>1. \A m \in Members : Copy[m] \notin Local => TagOf(m) <= TagOf(m)'
    BY <1>2, Where, RemoteIs DEF TagOf
  <2>2. \A m \in Members : Reached(m) \in Nat
    BY ReachedIs
  <2> QED BY <1>1, <2>1, <2>2 DEF Reached
<1>4. \A w \in Copies \ Local : copy'[w].main <= remote'[Source[w]].main
  <2>1. \A w \in Copies \ Local : copy[w].main \in Nat /\ Source[w] \in Remotes
    BY RemoteIs DEF BuiltInv, Typing, CopyState
  <2> QED BY <1>1, <1>2, <2>1 DEF CommitsInv
<1>5. ASSUME pc' = "index"
      PROVE  LET c == copy'[Copy[Member']] IN c.head <= c.text /\ c.text = Reached(Member)' /\ c.text >= 1
  <2>1. Member \in Members /\ Member' = Member /\ pc = "index"
    BY <1>1, <1>5, MemberIs DEF BuiltInv, Member
  <2> DEFINE c == copy[Copy[Member]]
  <2>2. c.head <= c.text /\ c.text = Reached(Member) /\ c.text >= 1
    BY <2>1 DEF CommitsInv
  <2>3. CASE ref[Member] = "tag"
    <3>1. c.text = TagOf(Member)'
      BY <1>1, <1>5, <2>1, <2>3 DEF BuiltInv, MemberInv, AtTag, TagOf
    <3> QED BY <1>1, <2>1, <2>2, <2>3, <3>1 DEF Reached, TagOf
  <2>4. CASE ref[Member] # "tag"
    BY <1>1, <2>1, <2>2, <2>4 DEF Reached
  <2> QED BY <2>3, <2>4
<1>6. \A w \in Local : copy'[w].head <= copy'[w].text
  BY <1>1 DEF CommitsInv
<1> QED BY <1>1, <1>3, <1>4, <1>5, <1>6, CommitsKept

LEMMA CommitsLocal ==
  ASSUME BuiltInv, BuiltInv', CommitsInv, NEW w \in Local, Edit(w) \/ Commit(w)
  PROVE  CommitsInv'
<1>0. w \in Copies /\ copy \in [Copies -> CopyState] /\ copy[w].text \in Nat /\ copy[w].head \in Nat
      /\ copy[w].head <= copy[w].text /\ UNCHANGED <<ref, remote, store, build>>
  BY DEF BuiltInv, Typing, Local, CopyState, CommitsInv, Edit, Commit
<1>1. /\ copy'[w].text >= copy[w].text /\ copy'[w].head <= copy'[w].text /\ copy'[w].text \in Nat
      /\ \A v \in Copies : v # w => copy'[v] = copy[v]
  <2>1. CASE Edit(w)
    <3>1. /\ copy'[w].text = copy[w].text + 1 /\ copy'[w].head = copy[w].head
          /\ \A v \in Copies : v # w => copy'[v] = copy[v]
      BY <1>0, <2>1, TextSet DEF Edit
    <3> QED BY <1>0, <3>1
  <2>2. CASE Commit(w)
    <3>1. /\ copy'[w].text = copy[w].text /\ copy'[w].head = copy[w].text
          /\ \A v \in Copies : v # w => copy'[v] = copy[v]
      BY <1>0, <2>2, HeadSet DEF Commit
    <3> QED BY <1>0, <3>1
  <2> QED BY <2>1, <2>2
<1>2. \A m \in Members : Reached(m) <= Reached(m)'
  <2>1. \A m \in Members : Copy[m] \in Copies /\ Reached(m) \in Nat
    BY ReachedIs, Where
  <2> QED BY <1>0, <1>1, <2>1 DEF Reached, TagOf
<1>3. ASSUME pc' = "index"
      PROVE  LET c == copy'[Copy[Member']] IN c.head <= c.text /\ c.text = Reached(Member)' /\ c.text >= 1
  <2>1. Member \in Members /\ Member' = Member /\ pc = "index" /\ Copy[Member] \in Copies
    BY <1>0, <1>3, MemberIs, Where DEF BuiltInv, Member
  <2> DEFINE c == copy[Copy[Member]]
  <2>2. c.head <= c.text /\ c.text = Reached(Member) /\ c.text >= 1
    BY <2>1 DEF CommitsInv
  <2>3. CASE Copy[Member] = w
    BY <1>0, <1>1, <2>1, <2>2, <2>3 DEF Reached
  <2>4. CASE Copy[Member] # w
    BY <1>0, <1>1, <2>1, <2>2, <2>4 DEF Reached, TagOf
  <2> QED BY <2>3, <2>4
<1>4. /\ \A v \in Local : copy'[v].head <= copy'[v].text
      /\ \A v \in Copies \ Local : copy'[v].main <= remote'[Source[v]].main
  BY <1>0, <1>1 DEF CommitsInv, Local
<1> QED BY <1>0, <1>2, <1>3, <1>4, CommitsKept

LEMMA CommitsCalls ==
  ASSUME BuiltInv, BuiltInv', CommitsInv, NEW c, CallStep(c) \/ \E ms \in Asks : Ask(c, ms)
  PROVE  CommitsInv'
<1>1. UNCHANGED <<ref, remote, copy, build>>
  BY DEF CallStep, FindEngine, OpenEngine, ReadGraph, ReadEnvelope, Ask
<1>2. UNCHANGED store \/ \E r : store' = Created(r)
  BY DEF CallStep, FindEngine, OpenEngine, ReadGraph, ReadEnvelope, Ask
<1>3. \A q \in Roots : store'[q] = store[q] \/ (store[q] = NoIndex /\ store'[q] = EmptyIndex)
  BY <1>2 DEF Created, BuiltInv, Typing
<1>4. \A m \in Members : Reached(m) <= Reached(m)' /\ Reached(m)' = Reached(m)
  BY <1>1, SameReached, ReachedIs
<1>5. ASSUME pc' = "index"
      PROVE  LET d == copy'[Copy[Member']] IN d.head <= d.text /\ d.text = Reached(Member)' /\ d.text >= 1
  <2>1. Member \in Members /\ Member' = Member /\ pc = "index"
    BY <1>1, <1>5, MemberIs DEF BuiltInv, Member
  <2> QED BY <1>1, <2>1 DEF CommitsInv, Reached, TagOf
<1>6. /\ \A v \in Local : copy'[v].head <= copy'[v].text
      /\ \A v \in Copies \ Local : copy'[v].main <= remote'[Source[v]].main
  BY <1>1 DEF CommitsInv
<1> QED BY <1>1, <1>3, <1>4, <1>5, <1>6, CommitsKept

\* A working copy is taken to a commit.
LEMMA CommitsCopy ==
  ASSUME BuiltInv, BuiltInv', CommitsInv, pc \in {"clone", "pull", "checkout"}, NEW w, w = Copy[Member],
         copy'[w].main >= copy[w].main, copy'[w].main <= remote[Source[w]].main,
         \A v \in Copies : v # w => copy'[v] = copy[v],
         pc' \in {"checkout", "index"},
         pc' = "index" => /\ copy'[w].head = copy'[w].text
                          /\ copy'[w].text = IF ref[Member] = "tag" THEN TagOf(Member) ELSE copy'[w].main,
         UNCHANGED <<at, ref, remote, store>>
  PROVE  CommitsInv'
<1>1. Member \in Members /\ Member' = Member /\ w \in Copies /\ w \notin Local
  BY MemberIs, Where DEF BuiltInv, MemberInv, Member
<1>2. /\ \A v \in Copies : copy[v].main \in Nat /\ copy'[v].main \in Nat /\ copy'[v].text \in Nat /\ copy'[v].head \in Nat
      /\ \A v \in Copies : copy[v].main <= copy'[v].main
  BY <1>1 DEF BuiltInv, Typing, CopyState
<1>3. \A m \in Members : Reached(m) <= Reached(m)'
  <2>1. \A m \in Members : Reached(m) \in Nat /\ Copy[m] \in Copies
    BY ReachedIs, Where
  <2> QED BY <1>1, <1>2, <2>1 DEF Reached, TagOf
<1>4. ASSUME pc' = "index"
      PROVE  LET c == copy'[Copy[Member']] IN c.head <= c.text /\ c.text = Reached(Member)' /\ c.text >= 1
  <2>1. copy'[w].head > 0
    BY <1>1, <1>4 DEF BuiltInv, MemberInv
  <2>2. copy'[w].text = Reached(Member)'
    BY <1>1, <1>4 DEF Reached, TagOf
  <2> QED BY <1>1, <1>2, <1>4, <2>1, <2>2
<1>5. /\ \A v \in Local : copy'[v].head <= copy'[v].text
      /\ \A v \in Copies \ Local : copy'[v].main <= remote'[Source[v]].main
  BY <1>1 DEF CommitsInv, Local
<1> QED BY <1>3, <1>4, <1>5, CommitsKept

LEMMA CommitsTaken ==
  ASSUME BuiltInv, BuiltInv', CommitsInv, Clone \/ Pull \/ CheckoutRef
  PROVE  CommitsInv'
<1> DEFINE w == Copy[Member]
           x == remote[Source[w]].main
<1>1. CASE Clone \/ Pull
  <2>1. /\ pc \in {"clone", "pull"} /\ pc' \in {"checkout", "index"} /\ UNCHANGED <<at, ref, remote, store>>
        /\ copy' = [copy EXCEPT ![w] = [text |-> x, head |-> x, main |-> x]]
        /\ pc' = "index" => ref[Member] = None
    BY <1>1 DEF Clone, Pull, BuiltInv, MemberInv
  <2>2. w \in Copies /\ w \notin Local /\ copy[w].main <= x
    BY <2>1, MemberIs, Where DEF BuiltInv, MemberInv, CommitsInv
  <2>3. /\ copy'[w].text = x /\ copy'[w].head = x /\ copy'[w].main = x
        /\ \A v \in Copies : v # w => copy'[v] = copy[v]
    BY <2>1, <2>2 DEF BuiltInv, Typing
  <2>4. x \in Nat /\ copy[w].main \in Nat
    BY <2>2, RemoteIs DEF BuiltInv, Typing, Remote, CopyState
  <2>5. pc' = "index" => ref[Member] # "tag"
    BY <2>1, MembersAssumption
  <2>6. copy'[w].main >= copy[w].main /\ copy'[w].main <= x
    BY <2>2, <2>3, <2>4
  <2> HIDE DEF w, x
  <2>7. w = Copy[Member] /\ x = remote[Source[w]].main
    BY DEF w, x
  <2> QED BY <2>1, <2>3, <2>5, <2>6, <2>7, CommitsCopy
<1>2. CASE CheckoutRef
  <2>1. CASE Report("FAILED") /\ UNCHANGED copy
    BY <1>2, <2>1, CommitsIdle DEF CheckoutRef, Report, After
  <2>2. CASE ~(Report("FAILED") /\ UNCHANGED copy)
    <3> DEFINE t == IF ref[Member] = "branch" THEN copy[w].main ELSE remote[Source[w]].tag
    <3>1. /\ pc = "checkout" /\ pc' = "index" /\ UNCHANGED <<at, ref, remote, store>>
          /\ copy' = [copy EXCEPT ![w].text = t, ![w].head = t]
      BY <1>2, <2>2 DEF CheckoutRef, Checkout
    <3>2. w \in Copies /\ w \notin Local /\ copy[w] \in CopyState /\ copy[w].main <= x /\ copy[w].main \in Nat
      BY <3>1, MemberIs, Where DEF BuiltInv, MemberInv, CommitsInv, Typing, CopyState
    <3>3. /\ copy'[w].text = t /\ copy'[w].head = t /\ copy'[w].main = copy[w].main
          /\ \A v \in Copies : v # w => copy'[v] = copy[v]
      BY <3>1, <3>2 DEF BuiltInv, Typing, CopyState
    <3>4. ref[Member] \in {"branch", "tag"}
      <4>1. Member \in Members /\ ref[Member] # None
        BY <3>1, MemberIs DEF BuiltInv, MemberInv
      <4>2. ref[Member] \in {None, "branch", "tag"}
        BY <4>1, MembersAssumption DEF BuiltInv, Typing
      <4> QED BY <4>1, <4>2
    <3>5. t = IF ref[Member] = "tag" THEN TagOf(Member) ELSE copy'[w].main
      BY <3>3, <3>4 DEF TagOf
    <3> HIDE DEF w, t
    <3>6. w = Copy[Member] /\ x = remote[Source[w]].main
      BY DEF w
    <3>7. copy'[w].main >= copy[w].main /\ copy'[w].main <= x
      BY <3>2, <3>3
    <3> HIDE DEF x
    <3>8. /\ pc' = "index" => /\ copy'[w].head = copy'[w].text
                             /\ copy'[w].text = IF ref[Member] = "tag" THEN TagOf(Member) ELSE copy'[w].main
          /\ UNCHANGED <<at, ref, remote, store>>
      BY <3>1, <3>3, <3>5
    <3>9. pc = "checkout" /\ pc' \in {"checkout", "index"} /\ \A v \in Copies : v # w => copy'[v] = copy[v]
      BY <3>1, <3>3
    <3> QED BY <3>6, <3>7, <3>8, <3>9, CommitsCopy
  <2> QED BY <2>1, <2>2
<1> QED BY <1>1, <1>2

\* The graph is written from the tree, which is no older than any graph before.
LEMMA CommitsIndex ==
  ASSUME BuiltInv, BuiltInv', CommitsInv, RootsApart, IndexGraph
  PROVE  CommitsInv'
<1> DEFINE r == BuildRoot(Member)
           w == Copy[Member]
<1>1. pc = "index" /\ Member \in Members /\ r \in Roots /\ w \in Copies /\ UNCHANGED <<ref, remote, copy>>
  BY MemberIs, Where DEF BuiltInv, IndexGraph
<1>2. /\ Created(r) \in [Roots -> Index]
      /\ \A q \in Roots : Created(r)[q] = store[q] \/ (store[q] = NoIndex /\ Created(r)[q] = EmptyIndex)
  BY <1>1, CreatedKeeps DEF BuiltInv, Created, Typing
<1>3. \A m \in Members : Reached(m)' = Reached(m) /\ Reached(m) \in Nat
  BY <1>1, SameReached, ReachedIs
<1>4. CASE store' = Created(r) /\ Report("FAILED")
  <2>1. pc' = "member"
    BY <1>4 DEF Report, After
  <2>2. /\ \A m \in Members : Reached(m) <= Reached(m)'
        /\ \A q \in Roots : store'[q] = store[q] \/ (store[q] = NoIndex /\ store'[q] = EmptyIndex)
    BY <1>2, <1>3, <1>4
  <2>3. /\ \A v \in Local : copy'[v].head <= copy'[v].text
        /\ \A v \in Copies \ Local : copy'[v].main <= remote'[Source[v]].main
    BY <1>1 DEF CommitsInv
  <2> QED BY <2>1, <2>2, <2>3, CommitsKept
<1>5. CASE WriteGraph
  <2> DEFINE text == copy[w].text
             i == GraphWritten(Created(r)[r], w)
  <2>1. /\ store' = [Created(r) EXCEPT ![r] = i] /\ seen' = copy[w].head /\ pc' = "save" /\ UNCHANGED at
    BY <1>5 DEF WriteGraph
  <2>2. i.text = text /\ i.commit = Created(r)[r].commit
    BY <1>1, <1>2, GraphSet DEF BuiltInv, Typing
  <2>3. text = Reached(Member) /\ text >= 1 /\ copy[w].head <= text /\ text \in Nat /\ copy[w].head \in Nat
    BY <1>1 DEF CommitsInv, BuiltInv, Typing, CopyState
  <2>4. Member' = Member
    BY <2>1 DEF Member
  <2> HIDE DEF i, text
  <2>5. store'[r] = i /\ \A q \in Roots : q # r => store'[q] = Created(r)[q]
    BY <1>1, <1>2, <2>1
  <2>6. Created(r)[r].commit <= 1 \/ Created(r)[r].commit <= text
    <3>1. EmptyIndex.commit = 0
      BY DEF EmptyIndex
    <3>2. store[r].commit <= 1 \/ store[r].commit <= Reached(Member)
      BY <1>1 DEF CommitsInv
    <3> QED BY <1>1, <1>2, <2>3, <3>1, <3>2
  <2>7. Created(r)[r].commit \in Int
    BY <1>1, <1>2 DEF Index
  <2>8. \A q \in Roots : store'[q].commit <= store'[q].text
    <3>1. EmptyIndex.commit = 0 /\ EmptyIndex.text = 0
      BY DEF EmptyIndex
    <3>2. \A q \in Roots : q # r => store'[q].commit <= store'[q].text
      BY <1>2, <2>5, <3>1 DEF CommitsInv
    <3>3. i.commit <= i.text
      BY <2>2, <2>3, <2>6, <2>7
    <3> QED BY <2>5, <3>2, <3>3
  <2>9. ASSUME NEW m \in Members
        PROVE  store'[BuildRoot(m)].commit <= 1 \/ store'[BuildRoot(m)].commit <= Reached(m)'
    <3>1. CASE m = Member
      <4>1. store'[BuildRoot(m)].commit = Created(r)[r].commit /\ Reached(m)' = text
        BY <1>3, <2>2, <2>3, <2>5, <3>1
      <4> QED BY <2>6, <4>1
    <3>2. CASE m # Member
      <4>1. BuildRoot(m) \in Roots /\ BuildRoot(m) # r
        BY <1>1, <3>2, Where DEF RootsApart
      <4>2. store[BuildRoot(m)].commit <= 1 \/ store[BuildRoot(m)].commit <= Reached(m)
        BY DEF CommitsInv
      <4>3. EmptyIndex.commit = 0
        BY DEF EmptyIndex
      <4> QED BY <1>2, <1>3, <2>5, <4>1, <4>2, <4>3
    <3> QED BY <3>1, <3>2
  <2>10. Reached(Member)' = Reached(Member)
    BY <1>1, <2>4 DEF Reached, TagOf
  <2>11. seen' <= store'[BuildRoot(Member)].text /\ seen' <= Reached(Member)'
    BY <2>1, <2>2, <2>3, <2>5, <2>10
  <2> QED BY <1>1, <2>1, <2>4, <2>8, <2>9, <2>10, <2>11 DEF CommitsInv, BuildRoot, Member, Reached, TagOf
<1> QED BY <1>4, <1>5 DEF IndexGraph

\* The manifest gets the commit that was read before the graph was written.
LEMMA CommitsSave ==
  ASSUME BuiltInv, BuiltInv', CommitsInv, RootsApart, SaveMeta
  PROVE  CommitsInv'
<1> DEFINE r == BuildRoot(Member)
<1>1. /\ pc = "save" /\ Member \in Members /\ r \in Roots /\ UNCHANGED <<ref, remote, copy>>
      /\ store' = [store EXCEPT ![r].commit = seen] /\ pc' = "member" /\ store \in [Roots -> Index]
  BY MemberIs, Where DEF BuiltInv, SaveMeta, Report, After, Typing
<1>2. seen <= store[r].text /\ seen <= Reached(Member)
  BY <1>1 DEF CommitsInv
<1>3. \A m \in Members : Reached(m)' = Reached(m)
  BY <1>1, SameReached
<1>4. \A m \in Members : BuildRoot(m) = r => m = Member
  BY <1>1 DEF RootsApart
<1> HIDE DEF r
<1>5. /\ store'[r].commit = seen /\ store'[r].text = store[r].text
      /\ \A q \in Roots : q # r => store'[q] = store[q]
  BY <1>1 DEF Index
<1>6. \A q \in Roots : store'[q].commit <= store'[q].text
  BY <1>2, <1>5 DEF CommitsInv
<1>7. \A m \in Members : store'[BuildRoot(m)].commit <= 1 \/ store'[BuildRoot(m)].commit <= Reached(m)'
  BY <1>2, <1>3, <1>4, <1>5, Where DEF CommitsInv
<1> QED BY <1>1, <1>6, <1>7 DEF CommitsInv, BuildRoot

LEMMA CommitsNext ==
  ASSUME BuiltInv, BuiltInv', CommitsInv, NextMember
  PROVE  CommitsInv'
<1>1. UNCHANGED <<ref, remote, copy, store>>
  BY DEF NextMember
<1>2. CASE pc' # "index"
  BY <1>1, <1>2, CommitsIdle DEF NextMember, Report, After
<1>3. CASE pc' = "index"
  <2>1. UNCHANGED at /\ Copy[Member] \in Local /\ Member' = Member /\ Member \in Members
    <3>1. pc = "member" /\ at <= Len(Order) /\ UNCHANGED at /\ Copy[Member] \in Local
      BY <1>3 DEF NextMember, Report, After
    <3> QED BY <3>1, MembersAssumption DEF Member, BuiltInv, ReportInv
  <2>2. Copy[Member] \in Copies
    BY <2>1, Where
  <2>3. copy[Copy[Member]].head <= copy[Copy[Member]].text /\ copy[Copy[Member]].text >= 1
    BY <2>1, <2>2 DEF CommitsInv, BuiltInv, Populated, Typing, CopyState
  <2>4. LET c == copy'[Copy[Member']] IN c.head <= c.text /\ c.text = Reached(Member)' /\ c.text >= 1
    BY <1>1, <2>1, <2>3 DEF Reached
  <2>5. \A m \in Members : Reached(m) <= Reached(m)'
    BY <1>1, SameReached, ReachedIs
  <2>6. /\ \A v \in Local : copy'[v].head <= copy'[v].text
        /\ \A v \in Copies \ Local : copy'[v].main <= remote'[Source[v]].main
    BY <1>1 DEF CommitsInv
  <2> QED BY <1>1, <1>3, <2>4, <2>5, <2>6, CommitsKept
<1> QED BY <1>2, <1>3

LEMMA CommitsStep ==
  ASSUME BuiltInv, BuiltInv', CommitsInv, RootsApart, [Next]_vars
  PROVE  CommitsInv'
<1>1. CASE Fetch
  BY <1>1, CommitsIdle DEF Fetch, BuiltInv, Typing
<1>2. CASE EndBuild \/ MemberFails \/ KillBuild \/ \E o : StartBuild(o)
  BY <1>2, CommitsIdle DEF EndBuild, MemberFails, KillBuild, StartBuild, Report, After
<1>3. CASE Stop \/ UNCHANGED vars
  <2>1. UNCHANGED <<world, store, build>>
    BY <1>3 DEF Stop
  <2>2. \A m \in Members : Reached(m)' = Reached(m)
    BY <2>1, SameReached
  <2> QED BY <2>1, <2>2 DEF CommitsInv, Reached, TagOf, BuildRoot, Member
<1> QED BY <1>1, <1>2, <1>3, CommitsRemote, CommitsLocal, CommitsCalls, CommitsTaken, CommitsIndex, CommitsSave, CommitsNext
        DEF Next, BuildStep

LEMMA CommitsInit == Init => CommitsInv
<1> SUFFICES ASSUME Init PROVE CommitsInv
  OBVIOUS
<1>1. BuiltInv
  BY BuiltInit
<1>2. \A w \in Local : copy[w].head <= copy[w].text
  BY DEF Init, Local
<1>3. \A w \in Copies \ Local : copy[w].main <= remote[Source[w]].main
  BY <1>1, RemoteIs DEF Init, NoCopy, BuiltInv, Typing, Remote
<1>4. \A r \in Roots : store[r].commit <= store[r].text /\ store[r].commit <= 1
  <2>1. \A r \in Roots : store[r] = NoIndex \/ \E m : store[r] = Elsewhere(m)
    BY DEF Init
  <2>2. NoIndex.commit = -1 /\ NoIndex.text = 0 /\ \A m : Elsewhere(m).commit = 1 /\ Elsewhere(m).text = 1
    BY DEF NoIndex, Elsewhere
  <2> QED BY <2>1, <2>2
<1>5. \A m \in Members : store[BuildRoot(m)].commit <= 1
  BY <1>4, Where
<1> QED BY <1>2, <1>3, <1>4, <1>5 DEF CommitsInv, Init

\* An answer that is not marked dirty is from a graph at least as new as the commit it names
\* (serve/envelope.py, store/location.py), also while a build runs or after one was killed:
\* for every workspace of a backend with a lock, whose members share no index and no pinned clone.
THEOREM EnvelopesAreHonest ==
  ASSUME RootsApart, PinsApart, ~Offline, Exclusive
  PROVE  Spec => []EnvelopeHonest
<1>1. Init => BuiltInv /\ ServeInv /\ CommitsInv
  BY BuiltInit, ServeInit, CommitsInit
<1>2. BuiltInv /\ ServeInv /\ CommitsInv /\ [Next]_vars => BuiltInv' /\ ServeInv' /\ CommitsInv'
  BY BuiltStep, ServeStep, CommitsStep
<1>3. BuiltInv /\ ServeInv /\ CommitsInv => EnvelopeHonest
  <2> SUFFICES ASSUME BuiltInv, ServeInv, CommitsInv, NEW c \in Clients, call[c].pc = "envelope"
               PROVE  call[c].read.text >= Envelope(AskedNow(c)).commit
    BY DEF EnvelopeHonest
  <2>1. AskedNow(c) \in Members
    BY AskedIs DEF ServeInv
  <2>2. ServeRoot(AskedNow(c)) \in Roots
    BY <2>1, Where
  <2> QED BY <2>2, StoreIs DEF ServeInv, EnginesInv, CommitsInv, Envelope, BuiltInv
<1> QED BY <1>1, <1>2, <1>3, PTL DEF Spec

(***************************************************************************)
(* An index is of the member's own copy.                                   *)
(***************************************************************************)
\* The server looks where the build writes, and two members have one index only where they
\* have one working copy.
ServedWhereBuilt == \A m \in Members : ~ReadOnly(m) => ServeRoot(m) = BuildRoot(m)
ServedApart ==
  \A m, n \in Members :
    ServeRoot(m) = ServeRoot(n) \/ (~ReadOnly(n) /\ ServeRoot(m) = BuildRoot(n)) => Copy[m] = Copy[n]

OwnInv ==
  /\ \A m \in Members : store[ServeRoot(m)].from \in {Copy[m], None}
  /\ \A m \in built : ~ReadOnly(m)
  /\ pc \notin {"idle", "member"} => ~ReadOnly(Member)

LEMMA OwnInit ==
  ASSUME ServedApart, Init
  PROVE  OwnInv
<1>1. PICK there \in SUBSET {m \in Members : ReadOnly(m)} :
        store = [r \in Roots |-> IF \E m \in there : r = ServeRoot(m)
                                 THEN Elsewhere(CHOOSE m \in there : r = ServeRoot(m)) ELSE NoIndex]
  BY DEF Init
<1>2. ASSUME NEW m \in Members PROVE store[ServeRoot(m)].from \in {Copy[m], None}
  <2> DEFINE n == CHOOSE n \in there : ServeRoot(m) = ServeRoot(n)
  <2>0. ServeRoot(m) \in Roots
    BY Where
  <2>1. CASE \E k \in there : ServeRoot(m) = ServeRoot(k)
    <3>1. n \in there /\ ServeRoot(m) = ServeRoot(n)
      BY <2>1
    <3>2. store[ServeRoot(m)] = Elsewhere(n)
      BY <1>1, <2>0, <2>1
    <3>3. n \in Members
      BY <3>1
    <3>4. Copy[m] = Copy[n]
      BY <3>1, <3>3 DEF ServedApart
    <3> QED BY <3>2, <3>4 DEF Elsewhere
  <2>2. CASE ~\E k \in there : ServeRoot(m) = ServeRoot(k)
    BY <1>1, <2>0, <2>2 DEF NoIndex
  <2> QED BY <2>1, <2>2
<1> QED BY <1>2 DEF OwnInv, Init

\* What is written is written from the copy of the member whose turn it is.
LEMMA OwnStep ==
  ASSUME BuiltInv, OwnInv, ServedApart, [Next]_vars
  PROVE  OwnInv'
<1>0. \A m \in Members : ServeRoot(m) \in Roots /\ BuildRoot(m) \in Roots
  BY Where
<1>1. ASSUME \A m \in Members : store'[ServeRoot(m)].from \in {store[ServeRoot(m)].from, Copy[m], None},
             built' = built \/ (built' = built \union {Member} /\ pc \notin {"idle", "member"}),
             pc' \notin {"idle", "member"} =>
               UNCHANGED at /\ (pc \notin {"idle", "member"} \/ ~ReadOnly(Member))
      PROVE  OwnInv'
  BY <1>1 DEF OwnInv, Member, ReadOnly, BuildConfig
<1>2. ASSUME NEW q, NEW m \in Members
      PROVE  Created(q)[ServeRoot(m)].from \in {store[ServeRoot(m)].from, None}
  BY <1>0 DEF Created, EmptyIndex, BuiltInv, Typing
<1>3. CASE IndexGraph
  <2> DEFINE r == BuildRoot(Member)
             w == Copy[Member]
  <2>1. pc = "index" /\ Member \in Members /\ r \in Roots /\ ~ReadOnly(Member) /\ copy[w] \in CopyState
    BY <1>3, MemberIs, Where DEF BuiltInv, IndexGraph, OwnInv, Typing
  <2>2. Created(r) \in [Roots -> Index]
    BY <2>1, CreatedKeeps DEF BuiltInv
  <2>3. CASE Refused
    <3>1. store' = Created(r) /\ pc' = "member" /\ built' = built
      BY <1>3, <2>3 DEF IndexGraph, Report, After
    <3> QED BY <1>1, <1>2, <3>1
  <2>4. CASE ~Refused
    <3> DEFINE i == GraphWritten(Created(r)[r], w)
    <3>1. store' = [Created(r) EXCEPT ![r] = i] /\ pc' = "save" /\ UNCHANGED <<at, built>>
      BY <1>3, <2>4 DEF IndexGraph, WriteGraph
    <3>2. i.from = w
      BY <2>1, <2>2, GraphSet, Where DEF Typing
    <3> HIDE DEF i
    <3>3. ASSUME NEW m \in Members PROVE store'[ServeRoot(m)].from \in {store[ServeRoot(m)].from, Copy[m], None}
      <4>1. CASE ServeRoot(m) = r
        <5>1. Copy[m] = w
          BY <2>1, <4>1 DEF ServedApart
        <5> QED BY <2>1, <2>2, <3>1, <3>2, <4>1, <5>1
      <4>2. CASE ServeRoot(m) # r
        BY <1>0, <1>2, <2>1, <2>2, <3>1, <4>2
      <4> QED BY <4>1, <4>2
    <3> QED BY <1>1, <2>1, <3>1, <3>3
  <2> QED BY <2>3, <2>4
<1>4. CASE SaveMeta
  <2> DEFINE r == BuildRoot(Member)
  <2>1. store' = [store EXCEPT ![r].commit = seen] /\ pc' = "member" /\ built' = built \union {Member} /\ pc = "save"
        /\ store \in [Roots -> Index]
    BY <1>4 DEF SaveMeta, Report, After, BuiltInv, Typing
  <2>2. \A q \in Roots : store'[q].from = store[q].from
    BY <2>1 DEF Index
  <2> QED BY <1>0, <1>1, <2>1, <2>2
<1>5. CASE NextMember \/ MemberFails \/ CheckoutRef
  <2>1. /\ UNCHANGED <<store, built>>
        /\ pc' \notin {"idle", "member"} => UNCHANGED at /\ (pc \notin {"idle", "member"} \/ ~ReadOnly(Member))
    BY <1>5 DEF NextMember, MemberFails, CheckoutRef, Report, After
  <2> QED BY <1>1, <2>1
<1>6. CASE EndBuild \/ KillBuild \/ \E o : StartBuild(o)
  BY <1>1, <1>6 DEF EndBuild, KillBuild, StartBuild
<1>7. CASE Clone \/ Fetch \/ Pull
  BY <1>1, <1>7 DEF Clone, Fetch, Pull
<1>8. ASSUME NEW c, CallStep(c) \/ \E ms \in Asks : Ask(c, ms) PROVE OwnInv'
  <2>1. UNCHANGED build /\ (UNCHANGED store \/ \E q : store' = Created(q))
    BY <1>8 DEF CallStep, FindEngine, OpenEngine, ReadGraph, ReadEnvelope, Ask
  <2>2. \A m \in Members : store'[ServeRoot(m)].from \in {store[ServeRoot(m)].from, Copy[m], None}
    BY <1>2, <2>1
  <2> QED BY <1>1, <2>1, <2>2
<1>9. ASSUME UNCHANGED <<store, build>> PROVE OwnInv'
  BY <1>1, <1>9
<1>10. ASSUME NEW r, Push(r) \/ Tag(r) PROVE OwnInv'
  BY <1>9, <1>10 DEF Push, Tag
<1>11. ASSUME NEW w, Edit(w) \/ Commit(w) PROVE OwnInv'
  BY <1>9, <1>11 DEF Edit, Commit
<1>12. CASE Stop \/ UNCHANGED vars
  BY <1>9, <1>12 DEF Stop
<1> QED BY <1>3, <1>4, <1>5, <1>6, <1>7, <1>8, <1>10, <1>11, <1>12 DEF Next, BuildStep

\* An answer about a member that a build has reported ok comes from its index, and none comes
\* from another member's (serve/engine.py, serve/workspace.py): for every workspace of a backend
\* with a lock, where the server resolves the members' roots as the build does.
THEOREM ServedIsBuilt ==
  ASSUME RootsApart, PinsApart, ~Offline, Exclusive, ServedWhereBuilt, ServedApart
  PROVE  Spec => []BuiltIsServed
<1>1. Init => BuiltInv /\ ServeInv /\ OwnInv
  BY BuiltInit, ServeInit, OwnInit
<1>2. BuiltInv /\ ServeInv /\ OwnInv /\ [Next]_vars => BuiltInv' /\ ServeInv' /\ OwnInv'
  BY BuiltStep, ServeStep, OwnStep
<1>3. BuiltInv /\ ServeInv /\ OwnInv => BuiltIsServed
  <2> SUFFICES ASSUME BuiltInv, ServeInv, OwnInv, NEW c \in Clients, call[c].pc = "envelope"
               PROVE  LET m == AskedNow(c) from == call[c].read.from
                      IN from = Copy[m] \/ (from = None /\ m \notin built)
    BY DEF BuiltIsServed
  <2> DEFINE m == AskedNow(c)
  <2>1. m \in Members
    BY AskedIs DEF ServeInv
  <2>2. call[c].read = store[ServeRoot(m)]
    BY DEF ServeInv, EnginesInv
  <2>3. store[ServeRoot(m)].from \in {Copy[m], None}
    BY <2>1 DEF OwnInv
  <2>4. m \in built => store[BuildRoot(m)].from = Copy[m] /\ BuildRoot(m) = ServeRoot(m)
    BY <2>1 DEF BuiltInv, Stored, OwnInv, ServedWhereBuilt
  <2> QED BY <2>2, <2>3, <2>4
<1> QED BY <1>1, <1>2, <1>3, PTL DEF Spec

(***************************************************************************)
(* What is only consumed is not written.                                   *)
(***************************************************************************)
Consumes(m) == StoreBlock(ServeConfig(m)).readOnly

\* Nobody who writes has the index of a member that is only consumed.
ConsumersApart ==
  \A m, n \in Members : Consumes(m) =>
    /\ BuildRoot(n) = ServeRoot(m) => ReadOnly(n)
    /\ ServeRoot(n) = ServeRoot(m) => Consumes(n)

\* The build works on no member it skips, and a call asks for members.
TurnInv ==
  /\ ReportInv /\ CallsInv
  /\ store = [r \in Roots |-> store[r]]
  /\ pc \notin {"idle", "member"} => ~ReadOnly(Member)

Untouched == \A m \in Members : Consumes(m) => store'[ServeRoot(m)] = store[ServeRoot(m)]

LEMMA TurnInit == Init => TurnInv
<1> SUFFICES ASSUME Init PROVE TurnInv
  OBVIOUS
<1>1. ReportInv
  BY MembersAssumption DEF Init, ReportInv, Pcs
<1>2. CallsInv
  BY DEF Init, CallsInv, Quiet
<1> QED BY <1>1, <1>2 DEF TurnInv, Init

\* Opening an index adds one where there was none, and nowhere else.
LEMMA CreatedAt ==
  ASSUME TurnInv, NEW r
  PROVE  /\ Created(r) = [q \in Roots |-> Created(r)[q]]
         /\ \A q \in Roots : q # r \/ store[r] # NoIndex => Created(r)[q] = store[q]
BY DEF TurnInv, Created

\* A call that goes on to a place, to the next member or to its end is still one.
LEMMA CallsStay ==
  ASSUME CallsInv, NEW c \in Clients, CallStep(c) \/ \E ms \in Asks : Ask(c, ms)
  PROVE  CallsInv'
<1>1. ASSUME NEW ms \in Asks, Ask(c, ms) PROVE CallsInv'
  <2>1. call' = [call EXCEPT ![c] = Asking(ms)] /\ ms \in Seq(Members) \ {<<>>}
    BY <1>1, AsksAssumption DEF Ask
  <2> QED BY <2>1, CallTurns
<1>2. ASSUME call[c].pc # "idle", NEW p \in {"read", "open"}, call' = [call EXCEPT ![c].pc = p] PROVE CallsInv'
  <2>1. call[c] # Quiet
    BY <1>2 DEF Quiet
  <2>2. call' = [call EXCEPT ![c].pc = p, ![c].read = call[c].read]
    BY <1>2, <2>1 DEF CallsInv
  <2> QED BY <2>1, <2>2, CallMoves
<1>3. CASE FindEngine(c)
  BY <1>2, <1>3 DEF FindEngine
<1>4. CASE OpenEngine(c)
  <2>1. CASE call' = [call EXCEPT ![c] = Quiet]
    BY <2>1, CallTurns
  <2>2. CASE call' = [call EXCEPT ![c].pc = "read"]
    BY <1>2, <1>4, <2>2 DEF OpenEngine
  <2> QED BY <1>4, <2>1, <2>2 DEF OpenEngine
<1>5. CASE ReadGraph(c)
  <2>1. /\ call[c] # Quiet
        /\ call' = [call EXCEPT ![c].pc = "envelope", ![c].read = store[engine[AskedNow(c)]]]
    BY <1>5 DEF ReadGraph, Quiet
  <2> QED BY <2>1, CallMoves
<1>6. CASE ReadEnvelope(c)
  <2> DEFINE q == IF Len(call[c].todo) = 1 THEN Quiet ELSE Asking(Tail(call[c].todo))
  <2>1. call' = [call EXCEPT ![c] = q] /\ call[c].pc = "envelope"
    BY <1>6 DEF ReadEnvelope
  <2>2. call[c].todo \in Seq(Members) /\ call[c].todo # <<>>
    BY <2>1 DEF CallsInv, Quiet
  <2>3. q = Quiet \/ \E ms \in Seq(Members) \ {<<>>} : q = Asking(ms)
    BY <2>2, TailIs
  <2> QED BY <2>1, <2>3, CallTurns
<1> QED BY <1>1, <1>3, <1>4, <1>5, <1>6 DEF CallStep

\* The build writes where its member's index is, which nobody only consumes.
LEMMA BuildWrites ==
  ASSUME TurnInv, ConsumersApart, IndexGraph \/ SaveMeta
  PROVE  Untouched /\ store' = [r \in Roots |-> store'[r]] /\ (pc' # "member" => UNCHANGED at)
<1> DEFINE r == BuildRoot(Member)
<1>1. pc \notin {"idle", "member"} /\ Member \in Members /\ ~ReadOnly(Member)
  BY MemberIs DEF IndexGraph, SaveMeta, TurnInv
<1>2. \A m \in Members : Consumes(m) => ServeRoot(m) # r /\ ServeRoot(m) \in Roots
  BY <1>1, Where DEF ConsumersApart
<1>3. \/ store' = Created(r)
      \/ \E i : store' = [Created(r) EXCEPT ![r] = i]
      \/ \E i : store' = [store EXCEPT ![r] = i]
  <2>1. CASE IndexGraph
    BY <2>1 DEF IndexGraph, WriteGraph
  <2>2. CASE SaveMeta
    <3>1. store' = [store EXCEPT ![r] = [store[r] EXCEPT !.commit = seen]]
      BY <2>2 DEF SaveMeta
    <3> QED BY <3>1
  <2> QED BY <2>1, <2>2
<1>4. pc' # "member" => UNCHANGED at
  BY DEF IndexGraph, WriteGraph, SaveMeta, Report, After
<1> HIDE DEF r
<1>5. store = [q \in Roots |-> store[q]] /\ Created(r) = [q \in Roots |-> Created(r)[q]]
  BY CreatedAt DEF TurnInv
<1>6. store' = [q \in Roots |-> store'[q]]
  BY <1>3, <1>5
<1>7. \A q \in Roots : q # r => Created(r)[q] = store[q]
  BY CreatedAt
<1>8. Untouched
  BY <1>2, <1>3, <1>5, <1>7 DEF Untouched
<1> QED BY <1>4, <1>6, <1>8

\* The server creates an index only for a member it may write.
LEMMA ServerWrites ==
  ASSUME TurnInv, ConsumersApart, NEW c \in Clients, OpenEngine(c)
  PROVE  Untouched /\ store' = [r \in Roots |-> store'[r]]
<1> DEFINE n == AskedNow(c)
           r == ServeRoot(n)
<1>1. n \in Members
  BY AskedIs DEF OpenEngine, TurnInv
<1>2. UNCHANGED store \/ (store' = Created(r) /\ (store[r] # NoIndex \/ ~Consumes(n)))
  BY DEF OpenEngine, MayCreate, Consumes
<1> HIDE DEF n
<1>3. \A m \in Members : ServeRoot(m) \in Roots /\ (Consumes(m) /\ ServeRoot(m) = r => Consumes(n))
  BY <1>1, Where DEF ConsumersApart
<1> HIDE DEF r
<1>4. store = [q \in Roots |-> store[q]] /\ Created(r) = [q \in Roots |-> Created(r)[q]]
  BY CreatedAt DEF TurnInv
<1>5. \A q \in Roots : q # r \/ store[r] # NoIndex => Created(r)[q] = store[q]
  BY CreatedAt
<1> QED BY <1>2, <1>3, <1>4, <1>5 DEF Untouched

LEMMA TurnStep ==
  ASSUME TurnInv, ConsumersApart, [Next]_vars
  PROVE  TurnInv' /\ Untouched
<1>0. ReportInv' /\ CallsInv
  BY ReportKept DEF TurnInv
<1>1. ASSUME UNCHANGED store PROVE Untouched /\ store' = [r \in Roots |-> store'[r]]
  BY <1>1 DEF TurnInv, Untouched
<1>2. ASSUME CallsInv', store' = [r \in Roots |-> store'[r]],
             pc' \notin {"idle", "member"} =>
               UNCHANGED at /\ (pc \notin {"idle", "member"} \/ ~ReadOnly(Member))
      PROVE  TurnInv'
  BY <1>0, <1>2 DEF TurnInv, Member, ReadOnly, BuildConfig
<1>3. UNCHANGED call => CallsInv'
  BY <1>0 DEF CallsInv, Quiet
<1>4. CASE IndexGraph \/ SaveMeta
  <2>1. /\ UNCHANGED call /\ pc \in {"index", "save"} /\ pc' \in {"save", "member"}
    BY <1>4 DEF IndexGraph, WriteGraph, SaveMeta, Report, After
  <2> QED BY <1>2, <1>3, <1>4, <2>1, BuildWrites
<1>5. CASE NextMember \/ MemberFails \/ CheckoutRef
  <2>1. /\ UNCHANGED <<store, call>>
        /\ pc' \notin {"idle", "member"} => UNCHANGED at /\ (pc \notin {"idle", "member"} \/ ~ReadOnly(Member))
    BY <1>5 DEF NextMember, MemberFails, CheckoutRef, Report, After
  <2> QED BY <1>1, <1>2, <1>3, <2>1
<1>6. CASE EndBuild \/ KillBuild \/ \E o : StartBuild(o)
  BY <1>1, <1>2, <1>3, <1>6 DEF EndBuild, KillBuild, StartBuild
<1>7. CASE Clone \/ Fetch \/ Pull
  BY <1>1, <1>2, <1>3, <1>7 DEF Clone, Fetch, Pull
<1>8. ASSUME NEW c \in Clients, CallStep(c) \/ \E ms \in Asks : Ask(c, ms) PROVE TurnInv' /\ Untouched
  <2>1. UNCHANGED build /\ (UNCHANGED store \/ OpenEngine(c))
    BY <1>8 DEF CallStep, FindEngine, OpenEngine, ReadGraph, ReadEnvelope, Ask
  <2>2. CallsInv'
    BY <1>0, <1>8, CallsStay
  <2>3. Untouched /\ store' = [r \in Roots |-> store'[r]]
    BY <1>1, <2>1, ServerWrites
  <2> QED BY <1>2, <2>1, <2>2, <2>3
<1>9. ASSUME UNCHANGED <<store, build, call>> PROVE TurnInv' /\ Untouched
  BY <1>1, <1>2, <1>3, <1>9
<1>10. ASSUME NEW r, Push(r) \/ Tag(r) PROVE TurnInv' /\ Untouched
  BY <1>9, <1>10 DEF Push, Tag
<1>11. ASSUME NEW w, Edit(w) \/ Commit(w) PROVE TurnInv' /\ Untouched
  BY <1>9, <1>11 DEF Edit, Commit
<1>12. CASE Stop \/ UNCHANGED vars
  BY <1>9, <1>12 DEF Stop
<1> QED BY <1>4, <1>5, <1>6, <1>7, <1>8, <1>10, <1>11, <1>12 DEF Next, BuildStep

\* Neither a workspace build nor the server writes the index of a member that is only consumed
\* (cli.py _workspace_run, store/location.py), whatever else is built, asked or killed: for every
\* workspace where no other member has its index to write.
THEOREM ConsumedIsUntouched ==
  ASSUME ConsumersApart
  PROVE  Spec => ReadOnlyUntouched
<1>1. Init => TurnInv
  BY TurnInit
<1>2. TurnInv /\ [Next]_vars => TurnInv'
  BY TurnStep
<1>3. TurnInv /\ [Next]_vars =>
        [store' # store => \A m \in Members : StoreBlock(ServeConfig(m)).readOnly =>
           store'[ServeRoot(m)] = store[ServeRoot(m)]]_vars
  BY TurnStep DEF Untouched, Consumes
<1> QED BY <1>1, <1>2, <1>3, PTL DEF Spec, ReadOnlyUntouched
=============================================================================
