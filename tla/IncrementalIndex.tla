-------------------------- MODULE IncrementalIndex --------------------------
(***************************************************************************)
(* One repository and its index: a working tree that its user edits and    *)
(* commits, and CodeGraph.index / CodeGraph.refresh run over it            *)
(* (ingest/codegraph.py, ingest/incremental/, ingest/pipeline.py).  A run  *)
(* is a sequence of steps, one per store transaction or file write, with   *)
(* edits between any two of them; it can be killed between any two.        *)
(***************************************************************************)
EXTENDS Resolver, TemporalLog

CONSTANTS
  Contents,      \* what an extracted file can hold (records, see Resolver)
  Versions,      \* [Files -> SUBSET Contents]: what each file may contain
  Names,         \* the names those contents define
  Hops,          \* ingest.resolve_scope_hops
  Temporal,      \* temporal.enabled, on a git repository
  Retention,     \* temporal.retention_commits
  \* the environment
  ForceFull,     \* may a full index follow a first one (--full, pack change)
  Reverts,       \* may a file return to a content that is already recorded
  Concurrent,    \* may the tree be edited while a run is in progress
  OnCommit,      \* are runs started only at a new HEAD (the on-commit trigger)
  MaxEdits, MaxCommits, MaxCrashes

ASSUME FilesAssumption == NoFile \notin Contents /\ IsFiniteSet(Files)
ASSUME VersionsAssumption == Versions \in [Files -> SUBSET Contents]
ASSUME ContentsAssumption ==
  \A c \in Contents :
    c.defs \subseteq Names /\ c.calls \subseteq c.defs \X Names /\ IsFiniteSet(c.imports)
\* The resolver's maps keep one binding of a name and one file of a key; there is one.
ASSUME BindingsAssumption ==
  /\ \A c \in Contents : \A i, j \in c.imports : i.names \intersect j.names # {} => i = j
  /\ \A f, h \in Files : ModulePath(f) = ModulePath(h) => f = h
ASSUME BoundsAssumption ==
  /\ Hops \in Nat /\ Retention \in Nat \ {0}
  /\ MaxEdits \in Nat /\ MaxCommits \in Nat /\ MaxCrashes \in Nat
ASSUME FlagsAssumption == {Temporal, ForceFull, Reverts, Concurrent, OnCommit} \subseteq BOOLEAN

VARIABLES
  tree,       \* the working tree
  head,       \* git HEAD; commits are numbered from 1 in time order
  manifest,   \* meta.json: files (a hash identifies a content)
  indexedAt,  \* meta.json: indexed_commit, 0 before the first index
  content,    \* graph store: the extracted subgraph each file owns
  edges,      \* graph store: resolved edges
  packages,   \* graph store: external Package nodes
  dirty,      \* dirty.json: a consumer's ids
  log,        \* temporal.db: the rows of each symbol
  pc, mode,   \* where the run is; "incremental" or "full"
  hashes,     \* the run's DetectResult.file_hashes
  got,        \* the texts it read for re-extraction
  todo,       \* files the current loop still has to delete or upsert
  before,     \* symbols of removed and touched files, before any mutation
  vanishing,  \* symbols of removed files, before any mutation
  at,         \* the commit the run records
  edits, crashes

environment == <<tree, head, edits>>
disk    == <<manifest, indexedAt, content, edges, packages, dirty, log>>
run     == <<pc, mode, hashes, got, todo, before, vanishing, at>>
vars    == <<environment, disk, run, crashes>>

Nothing == [f \in Files |-> NoFile]
Symbols == {Symbol(f, n) : f \in Files, n \in Names}
Snapshot == [Files -> Contents \union {NoFile}]
Trees == {t \in Snapshot : \A f \in Files : t[f] \in Versions[f] \union {NoFile}}

(***************************************************************************)
(* The change set of the run, as ChangeDetector.detect classifies it.  A   *)
(* rename is its delete and its add: the indexer treats it as both.        *)
(***************************************************************************)
\* Mistakes for the runs to catch are defined ahead of what they change:
\* here a detector that sees no deletion, no new file, or no modification.
RemovedUnseen == {}
TouchedKnown == {f \in Files : hashes[f] # NoFile /\ manifest[f] \notin {NoFile, hashes[f]}}
TouchedNew == {f \in Files : hashes[f] # NoFile /\ manifest[f] = NoFile}

Removed == {f \in Files : manifest[f] # NoFile /\ hashes[f] = NoFile}
Touched == {f \in Files : hashes[f] # NoFile /\ hashes[f] # manifest[f]}
Changed == Removed \union Touched

Idle == pc = "idle"
Indexed == indexedAt # 0 \/ manifest # Nothing

Init ==
  /\ tree \in Trees
  /\ head = 1
  /\ manifest = Nothing /\ indexedAt = 0
  /\ content = Nothing /\ edges = {} /\ packages = {}
  /\ dirty = {}
  /\ log = [s \in Symbols |-> {}]
  /\ pc = "idle" /\ mode = "incremental"
  /\ hashes = Nothing /\ got = Nothing /\ todo = {}
  /\ before = {} /\ vanishing = {} /\ at = 0
  /\ edits = 0 /\ crashes = 0

(***************************************************************************)
(* The user.  Without Reverts no file returns to what the manifest holds,  *)
(* nor to what the run in progress has hashed.                             *)
(***************************************************************************)
Edit(f) ==
  /\ edits < MaxEdits
  /\ Concurrent \/ Idle
  /\ \E c \in Versions[f] \union {NoFile} :
       /\ c # tree[f]
       /\ Reverts \/ (c # manifest[f] /\ (Idle \/ c # hashes[f]))
       /\ tree' = [tree EXCEPT ![f] = c]
  /\ edits' = edits + 1
  /\ UNCHANGED <<head, disk, run, crashes>>

Commit ==
  /\ head < MaxCommits
  /\ head' = head + 1
  /\ UNCHANGED <<tree, edits, disk, run, crashes>>

(***************************************************************************)
(* detect: walk and hash the tree, then take the two snapshots of symbols  *)
(* the graph is about to lose.  Nothing to do goes straight to the save.   *)
(***************************************************************************)
Detect(m) ==
  /\ Idle
  /\ OnCommit => head # indexedAt
  /\ mode' = m
  /\ hashes' = tree
  /\ at' = head
  /\ UNCHANGED <<environment, disk, got, crashes>>

BeginRefresh ==
  /\ Detect("incremental")
  /\ todo' = Removed'
  /\ before' = IF Temporal THEN SymbolsIn(content, Changed') ELSE {}
  /\ vanishing' = SymbolsIn(content, Removed')
  /\ pc' = IF Changed' = {} THEN "save"
           ELSE IF Removed' = {} THEN "read" ELSE "delete"

BeginFull ==
  /\ ~Indexed \/ ForceFull
  /\ Detect("full")
  /\ todo' = {} /\ before' = {} /\ vanishing' = {}
  /\ pc' = "read"

(***************************************************************************)
(* Graph transactions.  Deleting a node detaches it: the edges at either   *)
(* end go with it.                                                         *)
(***************************************************************************)
ExtractedNodes ==
  {FileNode(f) : f \in FilesIn(content)} \union SymbolsIn(content, Files)
Leaves(e, gone) == e.src \in gone            \* mistake: incoming edges stay
Touches(e, gone) == e.src \in gone \/ e.dst \in gone

DeleteFile(f) ==
  /\ pc = "delete" /\ f \in todo
  /\ content' = [content EXCEPT ![f] = NoFile]
  /\ LET gone == {FileNode(f)} \union SymbolsOf(f, content[f])
     IN  edges' = {e \in edges : e.origin # f /\ ~Touches(e, gone)}
  /\ todo' = todo \ {f}
  /\ pc' = IF todo = {f} THEN "read" ELSE "delete"
  /\ UNCHANGED <<environment, manifest, indexedAt, packages, dirty, log, mode, hashes,
                 got, before, vanishing, at, crashes>>

AfterUpserts == IF mode = "full" THEN "resolve" ELSE "clear"

\* The pipeline walks the tree again and reads every wanted file before the
\* first upsert; what it reads need not be what was hashed.
ReadTouched ==
  /\ pc = "read"
  /\ LET wanted == IF mode = "full" THEN Files ELSE Touched
     IN  got' = [f \in Files |-> IF f \in wanted THEN tree[f] ELSE NoFile]
  /\ todo' = FilesIn(got')
  /\ pc' = IF todo' = {} THEN AfterUpserts ELSE "upsert"
  /\ UNCHANGED <<environment, disk, mode, hashes, before, vanishing, at, crashes>>

Upsert(f) ==
  /\ pc = "upsert" /\ f \in todo
  /\ content' = [content EXCEPT ![f] = got[f]]
  /\ LET gone == SymbolsOf(f, content[f]) \ SymbolsOf(f, got[f])
     IN  edges' = {e \in edges : e.origin # f /\ ~Touches(e, gone)}
  /\ todo' = todo \ {f}
  /\ pc' = IF todo = {f} THEN AfterUpserts ELSE "upsert"
  /\ UNCHANGED <<environment, manifest, indexedAt, packages, dirty, log, mode, hashes,
                 got, before, vanishing, at, crashes>>

\* clear_resolved also collects the Package stubs no edge reaches any more.
Uncollected(es) == packages                  \* mistake: no collection
Reached(es) == {p \in packages : \E e \in es : e.dst = p}

ClearResolved ==
  /\ pc = "clear"
  /\ edges' = {e \in edges : e.origin \notin ResolveScope(content, Changed, Hops)}
  /\ packages' = Reached(edges')
  /\ pc' = "resolve"
  /\ UNCHANGED <<environment, manifest, indexedAt, content, dirty, log, mode, hashes,
                 got, todo, before, vanishing, at, crashes>>

\* store.add: nodes first; an edge with an end that is no node matches nothing.
Resolve ==
  /\ pc = "resolve"
  /\ packages' = packages \union Externals(content)
  /\ LET scope == IF mode = "full" THEN Files ELSE ResolveScope(content, Changed, Hops)
         nodes == ExtractedNodes \union packages'
     IN  edges' = edges \union {e \in ResolvedEdges(content, scope) : {e.src, e.dst} \subseteq nodes}
  /\ pc' = IF mode = "full" THEN "record" ELSE "dirty"
  /\ UNCHANGED <<environment, manifest, indexedAt, content, dirty, log, mode, hashes,
                 got, todo, before, vanishing, at, crashes>>

(***************************************************************************)
(* Dirty propagation: the removed and the touched symbols, and the symbols *)
(* an edge joins to one of them in the graph as it is now.                 *)
(***************************************************************************)
After == SymbolsIn(content, Touched)
Neighbours(ids) ==
  {s \in Symbols : \E e \in edges : {e.src, e.dst} \intersect ids # {} /\ s \in {e.src, e.dst}}
DirtyIds == LET ids == vanishing \union After IN ids \union Neighbours(ids)

MarkDirty ==
  /\ pc = "dirty"
  /\ dirty' = dirty \union DirtyIds
  /\ pc' = "record"
  /\ UNCHANGED <<environment, manifest, indexedAt, content, edges, packages, log, mode,
                 hashes, got, todo, before, vanishing, at, crashes>>

\* recorder.flush after a refresh, seed_symbols after a full index.
Opened == IF mode = "full" THEN SymbolsIn(content, Files) ELSE After \ before
ClosedWithFile == IF mode = "full" THEN {} ELSE vanishing   \* mistake: files' ends only
Closed == IF mode = "full" THEN {} ELSE before \ After

FlushRecorder ==
  /\ pc = "record"
  /\ log' = IF ~Temporal THEN log
            ELSE [s \in Symbols |-> IF s \in Opened THEN Record(log[s], "opened", at)
                                    ELSE IF s \in Closed THEN Record(log[s], "closed", at)
                                    ELSE log[s]]
  /\ pc' = "save"
  /\ UNCHANGED <<environment, manifest, indexedAt, content, edges, packages, dirty, mode,
                 hashes, got, todo, before, vanishing, at, crashes>>

Rest == /\ hashes' = Nothing /\ got' = Nothing /\ todo' = {}
        /\ before' = {} /\ vanishing' = {} /\ at' = 0 /\ mode' = "incremental"

SaveMeta ==
  /\ pc = "save"
  /\ manifest' = hashes
  /\ indexedAt' = at
  /\ pc' = "prune"
  /\ Rest
  /\ UNCHANGED <<environment, content, edges, packages, dirty, log, crashes>>

PruneLog ==
  /\ pc = "prune"
  /\ log' = IF Temporal /\ head > Retention
            THEN [s \in Symbols |-> Prune(log[s], head - Retention)] ELSE log
  /\ pc' = "idle"
  /\ UNCHANGED <<environment, manifest, indexedAt, content, edges, packages, dirty, mode,
                 hashes, got, todo, before, vanishing, at, crashes>>

(***************************************************************************)
(* A kill, or an exception out of any step: the run's variables are gone,  *)
(* every committed transaction stays.                                      *)
(***************************************************************************)
Crash ==
  /\ ~Idle /\ crashes < MaxCrashes
  /\ crashes' = crashes + 1
  /\ pc' = "idle" /\ Rest
  /\ UNCHANGED <<environment, disk>>

\* An enricher works off its ids between two runs and marks them clean.
Drain ==
  /\ Idle /\ dirty # {}
  /\ dirty' = {}
  /\ UNCHANGED <<environment, manifest, indexedAt, content, edges, packages, log, run, crashes>>

Step ==
  \/ BeginRefresh \/ BeginFull \/ ReadTouched
  \/ \E f \in Files : DeleteFile(f) \/ Upsert(f)
  \/ ClearResolved \/ Resolve \/ MarkDirty \/ FlushRecorder \/ SaveMeta \/ PruneLog

Next == Step \/ (\E f \in Files : Edit(f)) \/ Commit \/ Crash \/ Drain

Spec == Init /\ [][Next]_vars

\* A run that was started goes on, and a trigger (watch, CI, the user) that
\* can start one eventually does.  Nothing is assumed of edits or crashes.
FairSpec == Spec /\ WF_vars(Step)

(***************************************************************************)
(* What the scope of a refresh takes for granted of a repository.  Where   *)
(* it does not hold, an edge may be missed: see README.md.                 *)
(***************************************************************************)
ModuleKeys == {ModulePath(f) : f \in Files}
WrittenKey(f, imp) == ResolveImport(f, imp, <<>>)

\* The indexer's keys are the resolver's: no source root, no relative import.
KeysAgree ==
  \A g \in Trees : \A f \in FilesIn(g) :
    ModuleOf(g, f) = ModulePath(f) /\ \A imp \in g[f].imports : KeyOf(g, f, imp) = WrittenKey(f, imp)

\* A submodule that is imported by name from its package is also imported by its own name.
SubmodulesNamed ==
  \A f \in Files : \A c \in Versions[f] : \A imp \in c.imports : \A n \in imp.names :
    LET submodule == Append(WrittenKey(f, imp), n)
    IN  submodule \in ModuleKeys => submodule \in {WrittenKey(f, i) : i \in c.imports}

\* Re-exports are nested, and fewer deep than there are hops.
ReexportsWithinHops ==
  \E level \in [ModuleKeys -> 0..(Hops - 1)] :
    \A f \in {h \in Files : IsInit(h)} : \A c \in Versions[f] : \A imp \in {i \in c.imports : i.names # {}} :
      WrittenKey(f, imp) \in ModuleKeys => level[WrittenKey(f, imp)] < level[ModulePath(f)]

ScopeSuffices == KeysAgree /\ SubmodulesNamed /\ ReexportsWithinHops

(***************************************************************************)
(* Properties.                                                             *)
(***************************************************************************)
NodesNow == ExtractedNodes \union packages

\* The working tree is what the manifest says: a refresh would find nothing.
Synced == Idle /\ Indexed /\ tree = manifest

\* Types of every variable.
TypeOK ==
  /\ {tree, manifest, content, hashes, got} \subseteq Snapshot
  /\ head \in Nat /\ indexedAt \in Nat /\ at \in Nat /\ edits \in Nat /\ crashes \in Nat
  /\ \A e \in edges : e.origin \in Files /\ e.kind \in {"IMPORTS", "CALLS"}
  /\ \A p \in packages : p[1] = "package"
  /\ {dirty, before, vanishing} \subseteq SUBSET Symbols
  /\ log \in [Symbols -> SUBSET EventRow]
  /\ pc \in {"idle", "delete", "read", "upsert", "clear", "resolve", "dirty", "record",
             "save", "prune"}
  /\ mode \in {"incremental", "full"}
  /\ todo \subseteq Files

\* At every step of a run the graph has no dangling edge, and every resolved
\* edge starts in the file that owns it: re-extracting or deleting that file
\* is enough to withdraw it (store/kuzu_store.py upsert and delete_file).
NoDangling ==
  \A e \in edges : /\ {e.src, e.dst} \subseteq NodesNow
                   /\ e.src \in {FileNode(e.origin)} \union SymbolsOf(e.origin, content[e.origin])

\* What the change detector takes for unchanged is in the graph as it is in
\* the tree: a file it skips never needed to be re-extracted, whatever
\* crashed before and whatever was edited during earlier runs.
DetectorSound ==
  Idle => \A f \in Files : tree[f] = manifest[f] => content[f] = tree[f]

\* ... which makes the run a correct use of the manifest: it only works on files
\* the manifest does not vouch for, and saves a manifest that is true.
Manifest == INSTANCE ManifestProtocol WITH known <- manifest, stored <- content
ImplementsManifestProtocol == Manifest!Spec

\* refresh(diff) == full_reindex: once the manifest matches the tree the graph
\* is the one a full index of the tree builds in an empty store.
GraphEqualsFull ==
  Synced => content = tree /\ edges = ResolvedEdges(tree, Files)

\* ... and its external Package nodes are the ones a full index mints: no stub
\* is left without an importer, none is missing.
PackagesEqualFull == Synced => packages = Externals(tree)

\* All that is known of a symbol is older than retention.
Forgotten(rows) == rows # {} /\ \A r \in rows : r.at < head - Retention

\* The log agrees with the graph: as of HEAD exactly the symbols of an up to
\* date graph are alive, except those whose rows are all past retention
\* (pruning leaves them their openings, temporal/store.py:235).
LogAgrees ==
  Synced /\ Temporal =>
    \A s \in Symbols : Forgotten(log[s]) \/ (AliveAt(log[s], head) <=> s \in SymbolsIn(content, Files))

\* Retention never loses the living: the symbols of an up to date graph are
\* alive as of HEAD, however much of the log has been pruned.
LivingSurvivePruning ==
  Synced /\ Temporal => \A s \in SymbolsIn(content, Files) : AliveAt(log[s], head)

\* The past does not change: for a commit before the last indexed one, what
\* alive_at answers stays what it was.  Only pruning changes it, and only for
\* a symbol whose end is past retention.
PastIsStable ==
  [][\A s \in Symbols : \A c \in 1..(indexedAt - 1) :
       /\ AliveAt(log[s], c) => AliveAt(log'[s], c)
       /\ AliveAt(log'[s], c) =>
            AliveAt(log[s], c) \/ \E r \in log[s] : r.event = "closed" /\ r.at < head' - Retention]_vars

\* When the user has stopped and nothing crashes any more, the index catches
\* up with the tree and stays there.
Converges == <>[](manifest = tree /\ content = tree /\ edges = ResolvedEdges(tree, Files))

(***************************************************************************)
(* What is said of the program and is not so: see README.md.               *)
(***************************************************************************)
\* A refresh that removes a file dirties the symbols that depended on its symbols: whoever
\* called one of them in the last index.
RemovalDirtiesCallers ==
  pc = "save" /\ mode = "incremental" =>
    \A e \in ResolvedEdges(manifest, Files) :
      e.kind = "CALLS" /\ e.origin \notin Changed /\ e.dst \in SymbolsIn(manifest, Removed)
        => e.src \in dirty
=============================================================================
