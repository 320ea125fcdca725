----------------------------- MODULE Workspace ------------------------------
(***************************************************************************)
(* A workspace of member repositories: the build that goes over all of     *)
(* them (cli.py _workspace_run), the working copies of its git members     *)
(* (serve/checkout.py), where each member's index is (serve/workspace.py,  *)
(* store/location.py), and the server that opens the same indexes lazily   *)
(* and answers from them (serve/engine.py, serve/federation.py).           *)
(* A text is numbered; a commit has the number of the text it commits.     *)
(***************************************************************************)
EXTENDS Integers, Sequences, SequencesExt, TLC

CONSTANTS
  Order,       \* the members, as the manifest lists them
  Copy,        \* member -> its working copy
  Source,      \* working copy -> the repository it is cloned from, or None
  Refs,        \* what the members may be pinned to: functions to None, "branch" or "tag"
  Key,         \* working copy -> repo_key: the name of its index under a central root
  Sibling, Defaults, Inline, File,  \* the layers of configuration: functions of some of
  Discovered,                       \* the blocks; Inline and File by member, Discovered by copy
  None,
  Exclusive,   \* does an open graph store keep other processes out (Kuzu)
  Offline,     \* are there builds with --no-fetch
  Clients,
  Asks,        \* what is asked: a survey is the order, a pinpoint call one member
  MaxBuilds, MaxTexts, MaxFailures

Members == Range(Order)
Copies == {Copy[m] : m \in Members}
Local == {w \in Copies : Source[w] = None}
Remotes == {Source[w] : w \in Copies \ Local}

(***************************************************************************)
(* Configuration.  A layer that has a block replaces the whole block.  The *)
(* server passes on the member's file, or lets the engine look into the    *)
(* working copy.                                                           *)
(***************************************************************************)
\* Mistake: what is common comes before what is the member's own.
DefaultsFirst(m) == Sibling @@ Defaults @@ Inline[m] @@ File[m]
BuildConfig(m) == File[m] @@ Inline[m] @@ Defaults @@ Sibling
\* Mistake: the file is not passed on.
FileForgotten(m) == Discovered[Copy[m]]
ServeConfig(m) == IF File[m] # <<>> THEN File[m] ELSE Discovered[Copy[m]]

DefaultStore == [central |-> FALSE, readOnly |-> FALSE]
StoreBlock(config) == IF "store" \in DOMAIN config THEN config["store"] ELSE DefaultStore

\* resolve_root
Root(config, w) == IF StoreBlock(config).central THEN <<"central", Key[w]>> ELSE <<"in", w>>

BuildRoot(m) == Root(BuildConfig(m), Copy[m])
ServeRoot(m) == Root(ServeConfig(m), Copy[m])
Roots == {BuildRoot(m) : m \in Members} \union {ServeRoot(m) : m \in Members}

ReadOnly(m) == StoreBlock(BuildConfig(m)).readOnly

ASSUME MembersAssumption ==
  /\ Order \in Seq(Members) /\ Copy \in [Members -> Copies] /\ Source \in [Copies -> Remotes \union {None}]
  /\ Refs \subseteq [Members -> {None, "branch", "tag"}]
  /\ None \notin {"branch", "tag"} /\ None \notin Roots
ASSUME AsksAssumption == Asks \subseteq Seq(Members) \ {<<>>}
ASSUME BoundsAssumption == MaxBuilds \in Nat /\ MaxTexts \in Nat \ {0} /\ MaxFailures \in Nat
ASSUME FlagsAssumption == {Exclusive, Offline} \subseteq BOOLEAN

VARIABLES
  ref,       \* member -> what it is pinned to
  remote,    \* repository -> [main: its branch, tag: what the tag names, 0 before it is pushed]
  copy,      \* working copy -> None or [text, head, main: the local branch]
  store,     \* root -> None or [from: a working copy, text: of the graph, commit: of meta.json]
  pc, at,    \* the build: where it is and the member it works on
  fetch,     \* whether it fetches
  rows,      \* its report
  seen,      \* the HEAD it read before it indexed
  built,     \* members a build has reported ok
  engine,    \* server: the root each member's engine has open, or None
  call,      \* client -> idle or its call: members left, the index read for the first
  builds, failures
world  == <<ref, remote, copy>>
build  == <<pc, at, fetch, seen, rows, built, builds>>
server == <<engine, call>>
vars   == <<world, store, build, server, failures>>

NoCopy == [text |-> 0, head |-> 0, main |-> 0]
Cloned(w) == copy[w].head # 0
NoIndex == [from |-> None, text |-> 0, commit |-> -1]
EmptyIndex == [from |-> None, text |-> 0, commit |-> 0]
\* What a read-only member consumes was built on another machine.
Elsewhere(m) == [from |-> Copy[m], text |-> 1, commit |-> 1]
Quiet == [pc |-> "idle"]

Init ==
  /\ ref \in Refs
  /\ remote = [r \in Remotes |-> [main |-> 1, tag |-> 0]]
  /\ copy = [w \in Copies |-> IF w \in Local THEN [text |-> 1, head |-> 1, main |-> 1] ELSE NoCopy]
  /\ \E there \in SUBSET {m \in Members : ReadOnly(m)} :
       store = [r \in Roots |-> IF \E m \in there : r = ServeRoot(m)
                                THEN Elsewhere(CHOOSE m \in there : r = ServeRoot(m)) ELSE NoIndex]
  /\ pc = "idle" /\ at = 1 /\ fetch = TRUE /\ seen = 0 /\ rows = <<>> /\ built = {} /\ builds = 0
  /\ engine = [m \in Members |-> None]
  /\ call = [c \in Clients |-> Quiet]
  /\ failures = 0

(***************************************************************************)
(* Developers: a commit is pushed, an older one is tagged, a tree is edited *)
(***************************************************************************)
Push(r) ==
  /\ remote[r].main < MaxTexts
  /\ remote' = [remote EXCEPT ![r].main = @ + 1]
  /\ UNCHANGED <<ref, copy, store, build, server, failures>>

Tag(r) ==
  /\ remote[r].tag = 0 /\ remote[r].main = MaxTexts
  /\ remote' = [remote EXCEPT ![r].tag = 1]
  /\ UNCHANGED <<ref, copy, store, build, server, failures>>

Edit(w) ==
  /\ copy[w].text < MaxTexts
  /\ copy' = [copy EXCEPT ![w].text = @ + 1]
  /\ UNCHANGED <<ref, remote, store, build, server, failures>>

Commit(w) ==
  /\ copy[w].head # copy[w].text
  /\ copy' = [copy EXCEPT ![w].head = copy[w].text]
  /\ UNCHANGED <<ref, remote, store, build, server, failures>>

(***************************************************************************)
(* The build.                                                              *)
(***************************************************************************)
Member == Order[at]
Opened(r) == \E m \in Members : engine[m] = r

\* Mistake: the first failure ends the build.
Abort(status) == IF status = "FAILED" THEN "idle" ELSE "member"
After(status) == "member"

Report(status) ==
  /\ rows' = Append(rows, <<Member, status>>)
  /\ at' = at + 1
  /\ pc' = After(status)
  /\ built' = IF status = "ok" THEN built \union {Member} ELSE built
  /\ seen' = 0
  /\ UNCHANGED <<fetch, builds>>

\* Every member is preflighted first: a build that is refused for a problem with one of
\* them changes nothing, and is no step of this model.
StartBuild(online) ==
  /\ pc = "idle" /\ builds < MaxBuilds
  /\ builds' = builds + 1
  /\ pc' = "member"
  /\ at' = 1 /\ rows' = <<>> /\ fetch' = online
  /\ UNCHANGED <<seen, built, world, store, server, failures>>

NextMember ==
  /\ pc = "member" /\ at <= Len(Order)
  /\ IF ReadOnly(Member) THEN Report("skipped")
     ELSE /\ pc' = IF Copy[Member] \in Local THEN "index"
                   ELSE IF ~Cloned(Copy[Member]) THEN "clone" ELSE "fetch"
          /\ UNCHANGED <<at, fetch, seen, rows, built, builds>>
  /\ UNCHANGED <<world, store, server, failures>>

EndBuild ==
  /\ pc = "member" /\ at > Len(Order)
  /\ pc' = "idle" /\ at' = 1 /\ rows' = <<>>
  /\ UNCHANGED <<fetch, seen, built, builds, world, store, server, failures>>

\* git clone leaves the default branch checked out.
\* Mistake: a fresh clone is not taken to its ref.
CloneOnly ==
  /\ pc = "clone"
  /\ LET main == remote[Source[Copy[Member]]].main
     IN copy' = [copy EXCEPT ![Copy[Member]] = [text |-> main, head |-> main, main |-> main]]
  /\ pc' = "index"
  /\ UNCHANGED <<at, fetch, seen, rows, built, builds, ref, remote, store, server, failures>>
Clone ==
  /\ pc = "clone"
  /\ LET main == remote[Source[Copy[Member]]].main
     IN copy' = [copy EXCEPT ![Copy[Member]] = [text |-> main, head |-> main, main |-> main]]
  /\ pc' = IF ref[Member] = None THEN "index" ELSE "checkout"
  /\ UNCHANGED <<at, fetch, seen, rows, built, builds, ref, remote, store, server, failures>>

Fetch ==
  /\ pc = "fetch"
  /\ pc' = IF ~fetch THEN "index" ELSE IF ref[Member] = None THEN "pull" ELSE "checkout"
  /\ UNCHANGED <<at, fetch, seen, rows, built, builds, world, store, server, failures>>

Checkout(w, commit) == [copy EXCEPT ![w].text = commit, ![w].head = commit]

Pull ==
  /\ pc = "pull"
  /\ LET w == Copy[Member] main == remote[Source[w]].main
     IN copy' = [copy EXCEPT ![w] = [text |-> main, head |-> main, main |-> main]]
  /\ pc' = "index"
  /\ UNCHANGED <<at, fetch, seen, rows, built, builds, ref, remote, store, server, failures>>

\* git checkout of a branch goes to the local branch, where the clone or the last pull
\* left it; a tag that was not fetched is an error.
CheckoutRef ==
  /\ pc = "checkout"
  /\ LET w == Copy[Member]
         commit == IF ref[Member] = "branch" THEN copy[w].main ELSE remote[Source[w]].tag
     IN IF commit # 0
        THEN /\ copy' = Checkout(w, commit) /\ pc' = "index"
             /\ UNCHANGED <<at, fetch, seen, rows, built, builds>>
        ELSE Report("FAILED") /\ UNCHANGED copy
  /\ UNCHANGED <<ref, remote, store, server, failures>>

\* Mistake: meta.json is written before the graph is.
MetaFirst(index, w) == [index EXCEPT !.commit = copy[w].head, !.from = w]
GraphWritten(index, w) == [index EXCEPT !.from = w, !.text = copy[w].text]

\* Open the store (an index is created when there is none), then write the graph; an
\* embedded store that the server has open cannot be opened.
Refused == Exclusive /\ Opened(BuildRoot(Member))
Created(r) == IF store[r] = NoIndex THEN [store EXCEPT ![r] = EmptyIndex] ELSE store

WriteGraph ==
  LET r == BuildRoot(Member) w == Copy[Member]
  IN /\ store' = [Created(r) EXCEPT ![r] = GraphWritten(@, w)]
     /\ seen' = copy[w].head
     /\ pc' = "save"
     /\ UNCHANGED <<at, fetch, rows, built, builds>>

IndexGraph ==
  /\ pc = "index"
  /\ \/ ~Refused /\ WriteGraph
     \/ Refused /\ store' = Created(BuildRoot(Member)) /\ Report("FAILED")
  /\ UNCHANGED <<world, server, failures>>

\* ... and the manifest last; see IncrementalIndex for what lies between.
SaveMeta ==
  /\ pc = "save"
  /\ store' = [store EXCEPT ![BuildRoot(Member)].commit = seen]
  /\ Report("ok")
  /\ UNCHANGED <<world, server, failures>>

\* A git command or the indexer raises: the next member's turn.
MemberFails ==
  /\ pc \in {"clone", "fetch", "pull", "checkout", "index", "save"} /\ failures < MaxFailures
  /\ failures' = failures + 1
  /\ Report("FAILED")
  /\ UNCHANGED <<world, store, server>>

KillBuild ==
  /\ pc # "idle" /\ failures < MaxFailures
  /\ failures' = failures + 1
  /\ pc' = "idle" /\ rows' = <<>> /\ at' = 1 /\ seen' = 0
  /\ UNCHANGED <<fetch, built, builds, world, store, server>>

(***************************************************************************)
(* The server.  A survey tool asks every member in turn, a pinpoint tool   *)
(* one; an engine is opened by the first call that needs it.               *)
(***************************************************************************)
AskedNow(c) == call[c].todo[1]
Asking(ms) == [pc |-> "engine", todo |-> ms, read |-> NoIndex]

Ask(c, ms) ==
  /\ call[c] = Quiet
  /\ call' = [call EXCEPT ![c] = Asking(ms)]
  /\ UNCHANGED <<engine, world, store, build, failures>>

\* A missing index is created, by a read-only consumer reported: no member is answered for.
MayCreate(m) == ~StoreBlock(ServeConfig(m)).readOnly

Busy(r) == Exclusive /\ pc = "save" /\ BuildRoot(Member) = r

\* code_graph: the engine that is open, or a new one.  Calls that find none each go on to
\* open it, whatever another one sets meanwhile.
FindEngine(c) ==
  /\ call[c].pc = "engine"
  /\ call' = [call EXCEPT ![c].pc = IF engine[AskedNow(c)] # None THEN "read" ELSE "open"]
  /\ UNCHANGED <<engine, world, store, build, failures>>

\* A store that cannot be opened fails the whole call.
OpenEngine(c) ==
  /\ call[c].pc = "open"
  /\ LET m == AskedNow(c) r == ServeRoot(m)
     IN IF (store[r] = NoIndex /\ ~MayCreate(m)) \/ Busy(r)
        THEN call' = [call EXCEPT ![c] = Quiet] /\ UNCHANGED <<engine, store>>
        ELSE /\ store' = Created(r)
             /\ engine' = [engine EXCEPT ![m] = r]
             /\ call' = [call EXCEPT ![c].pc = "read"]
  /\ UNCHANGED <<world, build, failures>>

ReadGraph(c) ==
  /\ call[c].pc = "read"
  /\ call' = [call EXCEPT ![c].pc = "envelope", ![c].read = store[engine[AskedNow(c)]]]
  /\ UNCHANGED <<engine, world, store, build, failures>>

\* staleness: the commit of the manifest, and whether HEAD is another one.
Envelope(m) ==
  LET commit == store[ServeRoot(m)].commit head == copy[Copy[m]].head
  IN [commit |-> commit, dirty |-> head # 0 /\ commit # 0 /\ head # commit]

ReadEnvelope(c) ==
  /\ call[c].pc = "envelope"
  /\ call' = [call EXCEPT ![c] = IF Len(@.todo) = 1 THEN Quiet ELSE Asking(Tail(@.todo))]
  /\ UNCHANGED <<engine, world, store, build, failures>>

\* The server is stopped between two calls.
Stop ==
  /\ \A c \in Clients : call[c] = Quiet
  /\ engine' = [m \in Members |-> None]
  /\ UNCHANGED <<call, world, store, build, failures>>

CallStep(c) == FindEngine(c) \/ OpenEngine(c) \/ ReadGraph(c) \/ ReadEnvelope(c)
BuildStep ==
  NextMember \/ EndBuild \/ Clone \/ Fetch \/ Pull \/ CheckoutRef \/ IndexGraph \/ SaveMeta

Next ==
  \/ \E r \in Remotes : Push(r) \/ Tag(r)
  \/ \E w \in Local : Edit(w) \/ Commit(w)
  \/ \E online \in {TRUE, ~Offline} : StartBuild(online)
  \/ BuildStep \/ MemberFails \/ KillBuild
  \/ \E c \in Clients :
       \/ \E ms \in Asks : Ask(c, ms)
       \/ CallStep(c)
  \/ Stop

Spec == Init /\ [][Next]_vars

(***************************************************************************)
(* Properties.                                                             *)
(***************************************************************************)
\* Types of every variable but the calls.
TypeOK ==
  /\ \A w \in Copies : \A k \in DOMAIN copy[w] : copy[w][k] \in 0..MaxTexts
  /\ \A r \in Roots : /\ store[r].from \in Copies \union {None} /\ store[r].text \in 0..MaxTexts
                      /\ store[r].commit \in -1..MaxTexts
  /\ pc \in {"idle", "member", "clone", "fetch", "pull", "checkout", "index", "save"}
  /\ at \in 1..(Len(Order) + 1) /\ built \subseteq Members
  /\ engine \in [Members -> Roots \union {None}]

\* A failing member does not keep the others from being built: a build that is not killed
\* ends with a report of every member.
AllReported == [][pc # "idle" /\ pc' = "idle" => KillBuild \/ Len(rows) = Len(Order)]_vars

\* What a build has reported ok is there, under the member's own root and at the tag it is
\* pinned to, whatever failed before, and stays: nothing that another member's build or the
\* server does takes it away.
BuiltStays ==
  \A m \in built : /\ store[BuildRoot(m)].from = Copy[m] /\ store[BuildRoot(m)].commit > 0
                   /\ pc = "idle" /\ ref[m] = "tag" => store[BuildRoot(m)].text = remote[Source[Copy[m]]].tag

\* An answer that is not marked dirty is from a graph at least as new as the commit it
\* names, also while a build is running or after it was killed.
EnvelopeHonest ==
  \A c \in Clients : call[c].pc = "envelope" =>
    LET e == Envelope(AskedNow(c)) IN ~e.dirty => call[c].read.text >= e.commit

\* The server reads what the build has written: an answer about a member that was built
\* comes from its index, and none comes from another member's.
BuiltIsServed ==
  \A c \in Clients : call[c].pc = "envelope" =>
    LET m == AskedNow(c) from == call[c].read.from
    IN from = Copy[m] \/ (from = None /\ m \notin built)

\* Neither the build nor the server ever writes the index of a consume-only member: what the
\* layers of configuration say to the one and the member's file to the other comes to the same,
\* in whichever order members are built, engines opened and builds killed.
ReadOnlyUntouched ==
  [][store' # store => \A m \in Members : StoreBlock(ServeConfig(m)).readOnly =>
       store'[ServeRoot(m)] = store[ServeRoot(m)]]_vars
=============================================================================
