# Verification of agentforge-graph

agentforge-graph keeps a *code knowledge graph* of a repository: files, symbols and
the edges between them in an embedded graph store, text vectors beside them, and an
evolution log. It indexes a repository once, refreshes the index from what changed,
follows the working tree in a watch loop, and serves the graph to coding agents.

This directory holds TLA+ models of its stateful core, TLC configurations that check
them on small repositories, and proofs, checked by TLAPS, of the properties that should
hold for every repository. Paths below are relative to `src/agentforge_graph/`.

## 1. The system

| component | state | operations | hard behaviour |
|---|---|---|---|
| incremental indexing (`ingest/incremental`, `ingest/codegraph.py`) | `meta.json` (content hashes, indexed commit) | `index`, `refresh`: detect, delete, re-extract, re-resolve, dirty, record, save, prune | a run is a dozen transactions in four stores, the tree is edited meanwhile, a kill may fall anywhere |
| import resolution (`ingest/resolver.py`, `ingest/pack.py`) | none; reads and writes the graph | `resolve`, `module_path`, `resolve_import` | an edge depends on files far from its own; a refresh must know which |
| extraction (`ingest/pipeline.py`, `source.py`, `extractor.py`, `packs/`) | none | walk, parse, upsert | walks the tree a second time |
| graph store (`store/kuzu_store.py` and other backends) | nodes, edges, owner file of each | `upsert`, `add`, `delete_file`, `clear_resolved`, ... | detaching deletes, silent drop of edges with a missing end |
| dirty set (`incremental/dirty.py`) | `dirty.json`: ids per consumer | `add`, `dirty_for`, `mark_clean` | whole-file rewrite of a state read earlier |
| temporal log (`temporal/store.py`, `recorder.py`, `index.py`) | `temporal.db`: opened/closed rows | `record`, `prune`, `alive_at`, `history`, `changed_since` | idempotence by unique index, retention, ordering |
| backfill and churn (`temporal/backfill.py`, `mining.py`) | cursor, aggregates | replay of past commits | appends old events to a live log |
| watch loop (`ingest/watch`) | event queue, pending flag, time stamps, gate | `observe`, `due`, `next_due_in`, `reset`, the loop | events during a refresh, during a closed gate, as a timeout expires |
| chunking, embedding (`chunking`, `embed`) | chunk nodes, vectors | `run`, `embed(only_dirty)` | graph written before the embedder answers |
| enrichment (`enrich`) | tags, summaries, GOVERNS edges | `enrich`, `summarize`, `infer_governs` | budget, partial drains of the dirty set |
| frameworks, knowledge (`frameworks`, `knowledge`) | routes, models, decisions, mentions | clear and rebuild | whole-repository passes after scoped ones |
| retrieval, repository map, query (`retrieve`, `repomap`, `store/query`) | none | reads | budgets, truncation |
| MCP server, federation (`serve`) | lazily opened engines | tools | concurrent first calls, failing members |
| agent set-up (`setup`) | users' config files | `write_entry`, `undo_entry` | other people's entries |
| command line, configuration, preflight, CI scaffold | none | | |

How they interact: the watch loop (or the user, or CI) calls `CodeGraph.refresh`. It
compares the tree with the manifest, hands the change set to `IncrementalIndexer`,
which deletes and upserts file subgraphs through the pipeline, computes the files whose
edges have to be drawn again, clears and redraws them through the resolver, adds what
changed to the dirty set, and writes the symbols' openings and closings to the temporal
log. The manifest is written after all that. Consumers (embeddings, summaries, pattern
tags) later read the dirty set, work, and mark it clean.

What makes each correct:

- indexing: the index of a tree is a function of the tree, not of its history
  (`refresh(diff) == full_reindex`); what a run skips needed no work; a killed run is
  made good by the next one;
- store: no transaction leaves an edge without its ends or owned by the wrong file;
- dirty set: whatever an enricher could have derived from something that changed is in it;
- log: it agrees with the graph as of HEAD and never changes its mind about the past;
- watch loop: no change is forgotten, none costs more than a refresh per window, and the
  gate is respected.

## 2. Modules

| module | what it is | from |
|---|---|---|
| `Resolver` | pure: module keys, imports, re-exports, the edges and stubs a resolution draws, the re-resolve scope | `ingest/resolver.py`, `ingest/pack.py`, `indexer._resolve_scope` |
| `TemporalLog` | pure: the rows of one symbol, recording, pruning, `alive_at` | `temporal/store.py`, `temporal/index.py` |
| `IncrementalIndex` | one repository, its index and its runs; EXTENDS the two above | `codegraph.py`, `incremental/*`, `pipeline.py`, `kuzu_store.py`, `recorder.py` |
| `ManifestProtocol` | abstract: what skipping by content hash rests on; `IncrementalIndex` implements it | the promise of `detect.py` and `meta.py` |
| `WatchLoop` | the watcher, the path filter, the queue, the policy, the gate, the loop, the user and time | `ingest/watch/*` |
| `DerivedPasses` | embedding, pattern tags and summaries over one dirty file, with refreshes between and failures anywhere | `codegraph.py`, `embed/pipeline.py`, `enrich/*`, `incremental/dirty.py` |
| `SymbolHistory` | a linear history, the log that live runs and backfills write, the mined roll-up, and the answers; EXTENDS `TemporalLog` | `temporal/*` |
| `PropertyGraph` | pure: nodes, edges and owners, and the write transactions as sequences of statements | `store/_rowmap.py`, `kuzu_store.py`, `neo4j_store.py`, `surreal_store.py` |
| `VectorTables` | pure: the rows of a vector backend, its statements, and searches under a filter | `lance_store.py`, `pgvector_store.py`, `surreal_store.py` |
| `StoreBackends` | the same writes sent to a transactional store, to one of single statements and to the three vector stores; EXTENDS the two above | the same, and the passes that write |
| `QueryLanguage` | pure: syntax trees, the validator, the interpreter's reads, the meaning of the compiled Cypher | `store/query/*` |
| `QueryExecution` | the two ways a query is run, under caps and timeouts; EXTENDS `QueryLanguage` | `interpret.py`, `execute.py` |
| `Workspace` | members, checkouts, the build of all, layers of configuration, the server's engines and envelope | `cli.py`, `serve/*`, `config.py` |
| `KnowledgeIngest` | decisions, documents, commits, and the inference of GOVERNS | `knowledge/*`, `enrich/governs.py` |
| `FrameworkLinks` | routes, mounts, providers, handlers and relations, cleared and made again each run | `frameworks/*` |
| `ServiceMap` | pure: the calls the HTTP client pack records, and which route of which service each means | `frameworks/packs/httpclient`, `serve/federation.py` |
| `GraphWalks` | retrieval, neighbours and traces, one read at a time; EXTENDS `ServiceMap` | `retrieve/*`, `serve/tools.py`, `serve/federation.py` |
| `MC*` | an instance of each state machine for TLC | |
| `IncrementalIndexProofs`, `WatchLoopProofs`, `WorkspaceProofs`, `DerivedPassesProofs`, `KnowledgeIngestProofs`, `FrameworkLinksProofs`, `StoreProofs`, `ReadProofs` | theorems | |

`PROJECT.json` maps every definition to the lines it stands for. Definitions commented
as *mistakes* are not part of the models: each is what a plausible bug would make of the
definition after it, and substituting it makes a property of a run fail. Everywhere a step
is one store transaction, one file write or one await, and what may happen between two steps
(another job, another client, a kill) is an action of its own.

### IncrementalIndex

A file's content is a record of what extraction finds in it: names defined, imports
written, calls between names. So a content hash *is* the content, the extracted
subgraph a file owns in the store is `content[f]`, and a full index of tree `t` in an
empty store is `[content |-> t, edges |-> ResolvedEdges(t, Files)]`. One step of the
model is one store transaction or file write:

| action | code |
|---|---|
| `BeginRefresh`, `BeginFull` | `refresh` / `index` up to the change set, and the two symbol snapshots (indexer steps 0 and 1) |
| `DeleteFile` | `delete_file`, one per removed file |
| `ReadTouched` | the second walk of the tree, of the pipeline |
| `Upsert` | `_upsert_sync`, one per file, in any order (the pipeline gathers them) |
| `ClearResolved` | `clear_resolved` of the scope, with the collection of unreferenced Package stubs |
| `Resolve` | `resolve(changed_files = scope)` and its one `store.add` |
| `MarkDirty` | neighbours and `DirtySet.add` |
| `FlushRecorder` | `recorder.flush`, or `seed_symbols` after a full index |
| `SaveMeta`, `PruneLog` | `_save_meta`, `_prune_temporal` |
| `Crash` | a kill or an exception: run-local variables are gone, the stores stay |
| `Drain` | a consumer marks its ids clean between two runs |
| `Edit`, `Commit` | the user, between any two steps when `Concurrent` |

Abstractions: the hashing walk and the reading walk are each one step (the tree may change
between them, not within); the HEAD of a run is read with its first walk; commits are
numbered in the order of their committer times; Python-like packs and unqualified calls
only (receiver calls, INHERITS, Go packages and namespace packs are left out, and with
them their data: each module key belongs to one file); a full run never collects stubs,
as in the code. The environment is named by constants: `ForceFull`, `Reverts`,
`Concurrent`, `OnCommit` and the bounds `MaxEdits`, `MaxCommits`, `MaxCrashes`.

### WatchLoop

The policy's time stamps are kept as ages that stop at `Horizon`; a tick is any unit no
window is shorter than. The watcher runs from the start, `Begin` is the moment the store is
open, and events of the meantime are in the queue. `Change(paths)` sends what was touched
through the filter (`Classify`): `Raises` are the paths it reports, `Ingested` those an index
reads, and `FilterFits` says the second are among the first. `Notify` queues one batch of
`awatch` in any order; the queue is unbounded in the code, `MaxQueue` stalls the watcher
instead. `TakeEvent` is an iteration whose pull returns an event, `Timeout` one whose pull runs
out (an event queued at that very moment stays queued), and both end in the next pull or in a
refresh. A refresh reads the tree when it starts: `owed`, which no code keeps, is true while a
change that counts has not been read. The gate is the include and exclude lists of branches;
a detached HEAD has no name to gate on.

### DerivedPasses

A command is a job record: where it is, what it read when it began (`held` is the dirty
file as its `DirtySet` loaded it, and what `mark_clean` writes back), what it has still to do.
A text of a file is its list of chunks; chunk nodes and vectors are kept per file. `refresh` is
one step on the graph (its inside is `IncrementalIndex`), then the dirty file, then the
manifest. The judges and the embedder are remote: they answer, or `Fail` takes the job away
between any two of its steps. A run of `enrich` or `summarize` gets a budget of calls.

### SymbolHistory

A commit stands for its time, and what it holds of a file is a set of numbered lines, those of its
symbols. `IndexHead` is a live run with its recorder and its miner. The miner does not follow a symbol back:
it compares the numbers a hunk's lines had *in its commit* (`HunkOf`, `NewNumbers`) with the numbers the symbol has
*now* (`Span`), so a symbol that moved since is missed, or gets a neighbour's change (`mining.py:166-172`);
`StartBackfill`, `Baseline`, one `Replay` per commit and `SetCursor` are a backfill of any
depth, `FailBackfill` its kill. `observed` collects the commits that some finished run has
looked at: about those the log has to be exact.

### PropertyGraph, VectorTables and StoreBackends

A write of the store contract is a sequence of statements (`Merges`, `vanished`, `disown`,
`Creates`, ...) as the backends send them. The property graph runs them at once, with edges
deleted together with their nodes and created only between present ends; SurrealDB runs them one at a time,
those of two files interleaved, and knows nothing of ends. The writers are the passes: a
pass that clears before it adds is two actions. The vector stores are called when the graph has
answered (`RunCall`, a statement at a time). Each has a bag of rows, since LanceDB has no key and
replaces by deleting what it is about to add; pgvector has a table from its first upsert on, and a
client knows of it only if it opened or upserted afterwards (`Seen`).

### QueryLanguage and QueryExecution

A query is its syntax tree; the condition is a list of expressions, each over earlier ones by their place
(negations and conjunctions name the places of their operands), so that its truth is a recursive function
along the list. The interpreter binds pattern by pattern, counting expansions; what computes matches takes
the number of candidates the store is asked for (`cap`): `Asked` where the interpreter runs, all nodes where
a property says what it computes without a bound. The compiled statement has the meaning the engine gives
it: paths over the edges, three-valued conditions, bags of rows. It is a text with one context: its patterns
are numbered along MATCH and then WHERE (`Texts`), a variable is declared with its label and properties
where it first occurs, and whatever a later pattern asks of it is left out (`CompiledText`,
`compile_cypher.py:63-64`, `:86-87`, `:128`). Nothing in the code says whether a match may come back to an
edge: openCypher has it take each edge once (Neo4j), and an engine may let it repeat (Kuzu, by what its
documentation says of walks). `once` is a field of the store, and the runs have both. The clock may pass the
deadline between two steps. A fetch of the driver may hang (`Hang`), upon which only the hard timeout
answers, and so may a read of the interpreter (`ReadHangs`), upon which nothing does: SurrealDB runs it
without `wait_for` (`surreal_store.py:170-171`).

Of the language the models have patterns with labels, inline properties and rels of any direction and
length; `=`, `<>`, IN, NOT, AND, OR and pattern existence; variables, properties, `count(*)`, DISTINCT, SKIP
and LIMIT; and all phases of the validator, that of the capabilities included: the backends declare the core
tier, so what needs `attrs.access` is refused. An ordering comparison or a string predicate is a membership
in the set of values it is true of, with the capability it takes. Not modelled are ORDER BY, aggregates
other than `count(*)`, properties under `attrs`, and comparisons of values of different types (mistyped ones
are false to the interpreter, and what they are to an engine the code does not say).

### Workspace

A working copy has a text, a HEAD and its main branch; a remote a main branch and a tag, which
is set once. `StartBuild` to `EndBuild` go over the members: clone or fetch and pull, check
out, index, save; a member fails at any step that may raise, and a kill leaves what is
written. Clients ask: open each member's engine if nobody has, read the graph, read the
manifest, answer. `BuildConfig` and `ServeConfig` are the two ways the layers of configuration
are put together, and name the index directory each side uses.

### KnowledgeIngest

The graph of the knowledge pass: decisions, chunks, links with who made them, and commits.
The pass is the order of the code: delete what vanished, index the code's names, land all
decisions, land again those that supersede, documents, commits. `Edit` and `Reglob` happen
between any two steps of it; a file whose name has no number has `None` for it. `infer_governs` considers decisions
until its budget is spent, so any of the ungoverned ones (`BeginInference`), and clears and adds in two transactions.

### FrameworkLinks

A file is what its pack finds: routes, mounts, service keys, definitions, models, relations,
imports. A definition is a class, a function or a method of a class: a provider is looked for among classes only, a
handler among functions or, with a class before it, methods. A model is looked up by class or by table, whichever
the relation names, among those of its framework. A run replaces changed files, clears the resolved edges of their
neighbourhood, then makes each kind of link anew from the whole graph.

### ServiceMap and GraphWalks

A request in the sources of a service is [file, object, method, url]; `Recorded` are those of a library, or
of a client that the same file binds (`Known`), with a URL that is a string, `Composed` puts a path after
its client's base URL. An f-string is a string to the grammar and keeps its quotes (`Written`). Then routes
are normalised, deduplicated and matched.

A graph of five nodes, read once per hop, while another process may remove nodes between
reads. The three tools share the walk: `retrieve` follows edges of a kind, in a direction, up
to a fan-out cap, with scores that decay; `ckg_neighbors` and `ckg_trace` report edges.

## 3. What is checked

Passing runs, all explored completely; deadlock is checked in `refresh`, `watch` and
`workspace`. In the other runs the system may really stop: their bounds on commits, writes,
edits or failures use themselves up, or the one query or request they are about is answered.

- **`refresh`**: a package `pkg` whose `__init__` re-exports a name of `pkg.m`, `pkg.m` in two
  versions, and an `app` that imports through the package or from the module; each may
  be absent; three edits at any moment, one crash. `NoDangling` (both ends of every
  edge exist at every step), `DetectorSound` (what the detector would skip is stored as
  it is in the tree), `GraphEqualsFull` (an up to date index equals a full one),
  `ImplementsManifestProtocol` (refinement), and `Converges` under
  weak fairness of a run's steps. Three files are the shortest re-export chain, so the
  scope has to reach two hops (`Hops = 2`; with the default of one hop the chain is a documented
  limit, feat-004 "Risks"); three edits allow a change, a second one during the run that
  handles the first, and one during its retry.
- **`refresh_log`**: two modules at the root with the log on, runs started at new commits
  only (`OnCommit`), edits during runs, four commits under a retention of one.
  `PackagesEqualFull`, `LogAgrees`, `PastIsStable`, `LivingSurvivePruning`. Three commits are an
  opening, a closing and another opening; at the fourth the closing is past a retention of one and
  is pruned, from the middle of the symbol's rows or from their end.
- **`watch`**: three branches (watched, excluded, detached), all five triggers, windows of one and
  two ticks, sources that are neither indexed nor watched. `NothingOwedWhenQuiet`
  (no lost wake-up, from the start of the watcher on), `RefreshesApart` (rate limit), `CatchesUp`
  and `IntervalKeepsUp`. Three places in the queue hold a batch and an event behind it.
- **`derived`**: two files, three symbols of which two are nominated, two refreshes, one failure,
  batches of one, budgets of one and two calls. `StaleIsDirty` (what a pass would find stale is
  dirty for it), `CleanMeansDone`, `EmbedLeavesCurrent` (a finished embedding is of the present
  text) and `Drains`: runs of whatever budget, repeated, work off all that is owed. A budget of
  one below the work of one file of two symbols is what splits a run. The knowledge pass of a refresh
  brings any prose, as long as it does not go back to a fingerprint whose vectors are others (`DocsReturn`).
- **`history`**: two symbols of one file that come, go, change and move each other down, four commits, two
  backfills, one of them killed. `AliveExact`, `IntroducedExact`, `ChangedSinceComplete`. The last promises
  of a changed body only what the miner can see: a symbol that still stands where it was changed
  (`InPlace`); without that it fails, section 5. Four commits let a symbol live twice, with a live run or a
  backfill starting anywhere between.
- **`stores`**: two files with a call between them, a package, a pattern tag, chunks and their
  vectors; seven writes, so that any file is upserted, resolved, cleared and upserted again, or
  embedded, removed and embedded again. `NoFactTwice`, `FactsOutliveUpserts` and
  `BackendsHoldWhatWasGiven`, one part of which (`VectorsAlike`) says that the three vector stores have
  one row of each embedded text and answer any search, under any filter, alike.
- **`query`**: a query of each construct that is modelled (section 2), and of each way `Portable` rules out,
  over small graphs, under either kind of engine; three expansions, two rows, a deadline that may pass
  anywhere, and any fetch or read may hang. `NothingLeftOutSilently`, `PartialRowsAreRows`, `WaysAgree` on
  the fragment `Portable` names, and `EveryQueryEnds`: in an answer, a refusal or an error, unless a read of
  the interpreter hangs.
- **`workspace`**: a clone pinned to a tag, a local repository, a member that only consumes an index built
  elsewhere; two clients alike (their permutations are the symmetry used, no liveness is checked), two
  builds, two texts, one failure or kill. `AllReported`, `BuiltStays`, `BuiltIsServed`, `EnvelopeHonest`,
  `ReadOnlyUntouched` (no step of a build or a call writes into a member that is only consumed).
- **`knowledge`**: two decisions, one superseding the other, and a guide that may become a decision;
  names that are one symbol's and then two symbols'; two edits, three runs, one kill.
  `EqualsFresh`, `CommitsRecorded`, `InferredStay`.
- **`frameworks`**: four files, four edits, one kill: a mount, two routes, a provider, a
  controller, relations, and a file that makes each of them ambiguous. `LinksEqualFresh`,
  `NeverGuessed`.
- **`walks`**: five nodes, a fan-out cap of two, walks of three hops, one node removed between any two
  reads; four services in a ring of calls, written with and without a client and an f-string.
  `WalkIsComplete`, `FoundFromAbove`.

One run ends in a violation (`findings`): **`superseded_by`**, see section 5.

Fairness. `refresh`: a run that was started goes on (nothing in a run waits for anything but its own
awaits). `watch`: the watcher, the loop and time: coroutines of one event loop that nothing blocks for ever;
nothing is assumed of the user. `derived`: a job that was started goes on, and somebody, a schedule or the
user, starts `enrich` and `summarize` again and again; `Drains` is about what such repetition achieves.
`query`: the interpreter, the worker thread and the timer run on as long as their reads come back, which no
read need do; of an interpreter whose read hangs nothing is assumed, and nothing promised.

## 4. What is proved

For every set of files, contents, versions, every setting and every bound:

- `Typing`: `Spec => []TypeOK` of `IncrementalIndex`.
- `EdgesAnchored`: `Spec => []NoDangling`. Strengthened by "an upsert loop only holds files that
  were read". The argument is one step per transaction: an upsert or a delete detaches
  what it removes, `clear_resolved` only keeps stubs that are reached, `add` drops edges
  with a missing end.
- `DetectorIsSound`, from `~Reverts` and `~ForceFull`: `Spec => []DetectorSound`. The property
  alone is not inductive: in the middle of a run the graph is neither the old nor the new one.
  `DetectorInv` says, per file, where a run is: a file whose hash equals the manifest is not
  touched; before its deletion or upsert a changed file differs from what is recorded; and once it
  has been read, `got` is either what was hashed or the tree no longer equals the hash. TLC
  was run on `DetectorInv` before it was proved. Both assumptions are necessary: see section 5.
- `UpToDateMeansExtracted`: then, when a run would find nothing to do, `content = tree`.
- `ImplementsProtocol`: the indexer implements `ManifestProtocol` (`known <- manifest`,
  `stored <- content`), and `ProtocolIsSound` proves what the protocol promises.
- `IndexIsFresh`, from these two and `ScopeSuffices`: `Spec => []GraphEqualsFull`, the promise of the
  incremental index (`refresh(diff) == full_reindex`), through kills and edits at any moment. It has two
  halves. One is about the resolver alone. The re-exports are a fixpoint: the rounds of the code are enough,
  because a key that changes in a round has one of a lower level that changed in the round before
  (`ProvidedIs`). So what a key provides depends on the files of the scope only, if it is further out than
  its level (`ProvidedLocal`, by induction on the hops); a file outside the scope has the same edges in two
  trees that differ in what has changed (`FreshLocal`), and none of them leads to a changed file
  (`EdgesAvoidChanges`). The other is the invariant `FreshInv`: between two runs each file outside the scope
  of what a refresh would find changed owns the edges a full index of the *manifest* gives it; during a
  refresh so does each outside the run's own scope; at the moment of resolving, the others own none; and
  from then on each file owns the edges of the *graph's* files. A kill falls back from the last to the
  first, because what the run had changed is still found changed; a save goes forward, to what was edited
  during the run. TLC was run on `FreshInv` with both configurations before it was proved. `ScopeSuffices`
  (at the end of `IncrementalIndex`) says what the scope takes for granted of a repository: the indexer's
  module keys are the resolver's (no source roots, no relative imports: `KeysAgree`), a submodule imported
  from its package is imported by its own name too (`SubmodulesNamed`), re-exports are nested less deep than
  there are hops (`ReexportsWithinHops`). The resolver keeps the last of two bindings of one name in a file
  (`resolver.py:223-224`, `:319`); the models have one binding of a name (`BindingsAssumption`). TLC
  evaluates it for the repositories of `refresh` and `refresh_log` (`ReachAssumption`); with `Hops = 1` it
  is false of the first, and where a part of it fails, so does the property: section 5.
- `PackagesAreFresh`, from the same and `MaxCrashes = 0`: `Spec => []PackagesEqualFull`. What is left of
  the packages when the scope has been cleared is reached from a file outside of it, so it is imported still.
- `PastStable`, from no assumption: `Spec => PastIsStable`. Runs record at a commit no earlier than the
  last indexed one (`CommitOrder`), and `Record` only adds rows. That pruning takes no one who was alive
  needs the last row of a symbol to be one: `LogOrder` has a first and at most a second row at a commit,
  and a second with its first at every commit that can still be written to, which pruning does not reach.
- `LogIsTheGraph`, `LivingAreKept`, from `OnCommit` (each run is of a commit that was not indexed
  before), `MaxCrashes = 0` and `~ForceFull`: `Spec => []LogAgrees` and `Spec => []LivingSurvivePruning`.
  `LogInv` speaks of what a run knows, the graph before it with the files it has gone over replaced: a
  symbol of that is alive by its last row, any other is dead by its last row, has none, or has only rows
  that are older than retention (pruning a closing that is within retention is what it rules out). It
  needs that rows are of one event per commit and no later than the run, and that what a
  refresh closes is of the files of its change set. Without any of the assumptions it is false: section 5.
- `AliveIsExact`, `IntroductionsAreExact`, from `Aligned` (backfills join the commits the live index ran
  at): `Spec => []AliveExact`, `Spec => []IntroducedExact`. The answers are defined by last rows, which no
  step preserves by itself; `HistoryInv` says instead that a row tells the truth of its own commit, and
  that between any two observed commits that differ in a symbol there is a row of it (`Explained`). Both
  survive a replay that inserts rows before others, in any order and with duplicates refused, and a
  replay that is killed, whose rows lie beyond the observed commits (`TornInv`).
- `ChangesAreComplete`, from `Aligned` and `MaxCommits <= Window`: `Spec => []ChangedSinceComplete`.
  `MinedInv` adds that what was mined tells of every commit that has a hunk on the lines where the symbol
  stands at the indexed HEAD. That is not every change of it: attribution is "approximate by design"
  (`mining.py:6-9`), and the property is of symbols that kept a line of each change within their present
  span (`InPlace`). Symbols that moved away are in section 5.
- `FactsAreOnce`, `FactsAreKept`: `StoresSpec => []NoFactTwice` and `StoresSpec => FactsOutliveUpserts`, for every
  set of files, versions and facts and every order of the passes. A write is a fold over as many statements as
  the file has rows, so each kind of write has a lemma that says what it comes to (`Upserted`, `Added`,
  `Deleted`, `Cleared`, `ClearedOut`, `AttrsSet`), proved by induction over the statements (`Trace`, `RunRest`).
  `GraphInv` then says of the graph between two transactions whose each row is, that no edge lacks an end, that a file
  has the rows it was last upserted with, and that a fact is there at most once and not at all while its pass
  is about to draw it; without the last part drawing it could make a second. Assumed is what
  `core/symbols.py` sees to: ids of two files differ, and packages, patterns and chunks are of no file.
- `BackendsHold`, from `~OpensEarly`: `StoresSpec => []BackendsHoldWhatWasGiven`, for every number of files
  and rows. The property compares the stores when they are quiet, which no step preserves; the invariants
  say what each store will hold when the statements it still has to run have run. `DocsInv`, of SurrealDB:
  the statements of an upsert touch the part of their own path and do to it the same whatever the rest is
  (`SameRest`, `SamePart`), so those of several files may run in any order, file by file they come to what
  the property graph has (`MatchesPart`), and those of no path run alone. `VectorsInv`, of the three vector
  stores: what is in a table after the calls it waits for (`After`) is one row of each embedded text. A
  table may not exist yet only when nothing is embedded (`Fine`), which is where a client that opened early
  differs: section 5.
- `NoLostWakeup`, `RateLimited`, from `FilterFits`: `Spec => []NothingOwedWhenQuiet` and
  `Spec => RefreshesApart`, for every set of branches and paths, trigger and window. `WatchInv`: the
  gate is right or the event that corrects it is on its way; what is owed is pending or its event
  is on its way; what is pending has a timeout and is younger than the last refresh.
- `EveryMemberReported`: `Spec => AllReported`. The report has a row for each member before the
  present one, and only the end of the list or a kill ends a build.
- `BuildsAreKept`, from `RootsApart` (no two members share an index directory), `PinsApart`
  (a member pinned to a tag has a clone of its own) and `~Offline`: `Spec => []BuiltStays`. The
  invariant `BuiltInv` adds where the build is with its member: from the checkout on, the copy is at
  the tag, and until `save` nothing has been claimed; every other member's root is left alone.
  The assumptions are those a manifest can break: two members with one URL share a checkout.
- `EnvelopesAreHonest`, from `Exclusive` (the store keeps other processes out while it is open) and the
  three above: `Spec => []EnvelopeHonest`. Three invariants. `BuiltInv`; `ServeInv`: an index that is open
  is there and no build writes it, so what a call has read is still what is in it; `CommitsInv`: no
  manifest names a commit newer than its graph, nor than the text its member is taken to next. The last
  part is what makes it inductive: a build that indexes and is killed before it saves leaves the old
  commit beside a graph that must not be older, so no checkout may go back behind an indexed text.
- `ServedIsBuilt`, from these and `ServedWhereBuilt`, `ServedApart` (the server resolves a member's root as
  the build does, and two members have one index only where they have one working copy):
  `Spec => []BuiltIsServed`. `OwnInv` says whose each index is; `ServeInv` carries it to the answer.
- `CleanOnlyWhatIsDone`, from `~Overlap`: `Spec => CleanMeansDone`. `DoneInv` says that one job
  runs at a time, that what it read is what the graph has, and what of its work is already
  written at each of its stages.
- `SkipsAreCurrent`, from `~Overlap`, `~ChunksReturn`, `~DocsReturn` and `~FailsEmbedding`:
  `Spec => []EmbedLeavesCurrent`. `EmbedInv` says that wherever a skip would look (chunk hashes of a file,
  fingerprint of the prose) what it takes for done is done, except for the one file an embedding is in
  the middle of; and that the files visited, in hand and to do are apart.
- `StaleIsMarked`, from the same: `Spec => []StaleIsDirty`. The property speaks of moments when no command
  runs. `MarkedInv` says the same of every moment for every file whose refresh is behind it, which
  holds through the passes because they derive from the present text before they mark clean. Each of
  the four assumptions is needed by one of the two: section 5.
- `InferredLinksStay`: `Spec => InferredStay`, with or without overlap. A deletion takes along only
  links with an end it removes, an upsert only links of its own file's origin.
- `NoCommitMissed`: `Spec => []CommitsRecorded`, with or without overlap. The commits are recorded in one
  transaction, and the property is inductive as it stands.
- `PassEqualsFresh`, from `~Overlap` and `~Emptied`: `Spec => []EqualsFresh`. Between passes
  nothing is known of the graph but `GraphInv`: whose chunk is whose, and where links start and end;
  a killed pass leaves no more. `PassInv` says what each loop has put right: the files it has gone
  over hold what a first pass would give them, the others wait in `todo`. The last two steps
  are set equality and "one candidate" said in two ways.
- `FreshLinks`, `NothingGuessed`: `Spec => []LinksEqualFresh` and `Spec => []NeverGuessed` of `FrameworkLinks`,
  for every set of files and versions and every order of edits, runs and kills. `LinksInv` has a part
  for the files (one whose hash is recorded was extracted as it is), one for whose the edges and attributes may
  be, and one per kind of link: nothing is assumed of it until its stage clears it, then it is right for the
  nodes gone over, then for all, and it stays so until an edit is taken up. Assumed of the files is what
  the packs see to (`VersionsAssumption`): one node per route of a file, relations kept on their own
  model, methods in their class; and that they hold finitely many nodes.
- `WalksAreComplete`: `Spec => []WalkIsComplete`, for every graph, request, fan-out cap and decay, and depths
  up to three. `AllSeenInv`: all that is within the hops gone is seen, and each node the walk has left has all
  that is beside it seen, unless its cut was noted; `InReachInv`: nothing else is. For `trace` the first says of
  the nodes seen before this hop that they are those in reach before it, so that an edge not yet followed
  is met first now. `MapIsMeant` is a lemma about the map alone: one route of each shape is kept,
  the shapes that answer a call correspond to the routes that are meant, and `"{}"` is itself a parameter.
  Assumed is what the store sees to: a fact is held once, no edge lacks an end (`GraphsAssumption`).
- `FoundIsConnected`, from `HitsScore` (no hit scores less than a hundredth): `Spec => []FoundFromAbove`, whatever
  is removed meanwhile. A step is strictly down (`StepsDown`), and what the walk goes out from has its item.
  The hypothesis is needed: section 5.

- `NoSilentCaps`, `PartialAnswersAreHonest`, from `CandidatesFit`: `QuerySpec => []NothingLeftOutSilently`
  and `QuerySpec => []PartialRowsAreRows`, for every set of queries and finite graphs, every cap and limit,
  wherever the clock runs out and whichever bindings a cap keeps. `QueryInv` has three parts. `MatchInv`:
  over the pattern it is at, the bindings extended, together with what each waiting one extends to, are the
  matches of the query so far; once a bound has stopped it they are some of them. `DriverInv`: the rows
  pulled, and after them those in the cursor, are the rows of the statement in their order, up to one more
  than may be returned. Below it: a pattern has finitely many matches over a finite graph (`ExtendIs`,
  `CypherIs`: recursive functions, by induction), `InOrder` lists each element of a set once (`Enumerates`),
  and rows of fewer matches are among those of more (`Embeds`). `CandidatesFit` says that no pattern starts
  from a label of which a graph has more nodes than `Asked`; the invariant holds without it, and it is
  needed only to compare with what no bound had cut: section 5.

- `BothWaysAgree`, from no assumption beyond what the parser makes of a text: `QuerySpec => []WaysAgree`,
  for every query, finite graph and cap. `Stage` says of the two ways, after each node, hop and pattern,
  that their matches bind alike and have reached the same nodes, and, where every match is a row or is
  counted, that `Twin` takes the matches of the engine one to one to those of the interpreter. A first node
  keeps it (`StartStage`) because either way tries every node that fits; a hop (`HopStage`) because the
  breadth-first closure reaches what the edge sequences of the engine reach (`ClosureIsPaths`: what a
  shorter way has reached is reached, and a way that repeats no edge lies behind everything in the
  frontier), because no edge of the rel's kind has been used (`AllPathsOn`), and, for the one-to-one part,
  because a single hop of one kind over a graph without parallel edges is known by the node it leads to.
  `TruthsAgree`: where the comparisons that are negated have an answer, the two-valued condition is true
  exactly where the three-valued one is yes, existence patterns by the same stages (`ExistsAgrees`), given
  that compiling leaves the patterns of MATCH and WHERE as they are written (`CompiledMatch`,
  `CompiledWhere`) and that no set of an IN holds NULL. `RowsAgree`: equal groups and equally many matches
  in each (`SameCounts`, by the bijection) make equal rows, but for a count without grouping keys of no
  match, which is a row to the engine and none to the interpreter; plain rows embed in each other. Each
  conjunct of `Portable` is used in one of these steps; outside of it the two differ: section 5.

- `BudgetsHold`, from no assumption: `Spec => []SpendBounded`, commands that overlap included. A batch and
  the repository's summary are begun only with some of the budget left, so what they are charged leaves less
  than a batch too much (`SpendInv`; nobody else writes a pass's job). `Work` says how long a batch is and
  not by `SubSeq` of a minimum: of `SelectSeq`, which makes the list, the provers know nothing.

- `ConsumedIsUntouched`, from `ConsumersApart` (who writes has no index directory in common with a member
  that is only consumed): `Spec => ReadOnlyUntouched`. The build is never past a read-only member's turn and
  a call asks only for members (`TurnInv`); what they write is at the root of one that is not only consumed.

All safety and action properties of the passing runs are proved, and with `BudgetsHold` one that no run
checks. Only model-checked: all liveness (`Converges`, `CatchesUp`, `IntervalKeepsUp`, `Drains`,
`EveryQueryEnds`), which TLAPS does not do under fairness. The library's induction theorems take an
operator, which no installed prover instantiates; where a proof needs induction over the naturals it is said
of a set (`AllNaturals`, from the well-foundedness of `<`), and that a recursive function exists is proved
the same way (`Iteration`).

The hypotheses that are operators of the proof modules and not constants (`RootsApart`, `PinsApart`,
`ServedWhereBuilt`, `ServedApart`, `ConsumersApart`) hold in the instance of `workspace`, where the properties are
checked; those that are constants have the value in the run that the theorem assumes.

## 5. What is said of the program and is not so

`superseded_by` is a run and a finding: `adr.py:119` reads `superseded-by` and `supersedes` from a
decision's front matter into one field, so a decision that names its replacement gets the
SUPERSEDES edge of the one that replaces (`SupersedesReplaced`).

The rest was found by changing one line of a configuration, as said, or by checking one of the
properties that close a module under the same heading; each ends in a counterexample.

Indexing (`refresh.cfg`, `refresh_log.cfg`):

- `Reverts = TRUE`: a kill after an upsert and an edit back to the recorded content leave a graph of
  the other content that the detector never visits again; `DetectorSound` fails. It also does
  without any crash when the edit falls between the two walks. "making refresh crash-safe", feat-004.
- `ForceFull = TRUE`: a full index over a store that has an index keeps deleted files
  (`codegraph.py:272`, "forces a clean rebuild"); `GraphEqualsFull` fails.
- The scope's module keys are not the resolver's: a relative import is taken against an empty
  module (`indexer.py:200`) and a source root is not stripped (`indexer.py:212`); the importers
  are not resolved again. Versions with such imports make `GraphEqualsFull` fail.
- The scope matches the module of an import and not the submodules it names: `from pkg import m` has the key
  `pkg` only (`indexer.py:200`), while the resolver draws an edge to `pkg/m.py` (`resolver.py:325`). When
  that file is added after its importer, the importer is not resolved again ("an importer of an added file
  resolves to it now", `indexer.py:172`). A version with such an import makes `GraphEqualsFull` fail.
- `RemovalDirtiesCallers`: callers of a removed symbol are not dirtied (`indexer.py:122`).
- `MaxCrashes = 1`: the log loses the events of a killed run; `LogAgrees` fails. So it does after two
  runs at one commit, the second of which re-opens a symbol (a duplicate of the first row).
- Retention prunes a closing row and keeps the opening (`temporal/store.py:251`): the symbol is alive again,
  at HEAD too, and for all the commits since it was removed. `LogAgrees` and `PastIsStable` say so: without
  `Forgotten`, or without the closing past retention, TLC finds either violated in `refresh_log`. A killed
  full index leaves stubs that a second one does not collect, so `PackagesEqualFull` is for `MaxCrashes =
  0`.

Watching (`watch.cfg`):

- `RefreshesWatchedBranch`: under `interval` a refresh may start on a branch that was just checked out
  and is not watched, when its file event is taken before its git event (`runner.py:84`).
- `Excluded = {}`: the filter leaves out the default excludes whatever `ingest.exclude` says
  (`filter.py:35`, "It reacts to exactly what the indexer would ingest"): a built file that is
  indexed is changed and never read; `NothingOwedWhenQuiet` fails.

Derived data (`derived.cfg`):

- `Overlap = TRUE`: `mark_clean` writes back what it loaded (`dirty.py:58`), so ids added meanwhile are
  lost; `StaleIsDirty` and `OthersKeepTheirs` fail.
- `FailsEmbedding = TRUE`: chunk hashes are in the graph before the vectors (`pipeline.py:107`): after
  an embedder that fails once the file is skipped; `EmbedLeavesCurrent` fails.
- `ChunksReturn = TRUE`: chunk nodes beyond a shorter text stay; a text that grows back is skipped or
  never is; `EmbedLeavesCurrent` fails.
- `DocsReturn = TRUE`: the prose's vectors are deleted before `doc_embed.hash` is written or removed
  (`pipeline.py:143`, `:157`): prose that goes away, an embed killed in between, and the old prose again
  are taken for unchanged, without vectors; `EmbedLeavesCurrent` fails.
- `EveryFileSummarized`: after one run that trips the budget, files that were never dirty are only
  summarised when the dirty set is empty. `SummarySearchable`: re-embedding a file deletes its
  summary's vector with the rest, and nothing marks the summary dirty.

History (`history.cfg`): `EveryChangeListed`: a symbol that was changed and has since been moved by lines
added above it, or whose first lines are all that was removed, is not listed: the hunk's old numbers and the
symbol's new ones do not meet (`mining.py:166-172`), although `changed_since` is to tell of the "mined
modifications after the ref" (`temporal/index.py:109`); the miner says "approximate by design" of what it
mines, not of this answer. `Aligned = FALSE`: a backfill whose baseline is after the first indexed commit
opens what already lives, and `AliveExact` fails ("never a silent wrong answer", `temporal/index.py:31-33`).
A killed backfill leaves a part of the past until it is repeated (the properties say `tornFrom = 0`).

Stores (`stores.cfg`): `Interchangeable`: SurrealDB keeps the edges of deleted nodes and walks over
them (`core/conformance.py`, "interchangeable"). `ChunkLinksCurrent`: CHUNK_OF links are created by
each run and never cleared (design-005, "re-runnable and idempotent"). `OpensEarly = TRUE`: a client
of pgvector that opened before the first embedding by another process, as the watch loop does
with its one `CodeGraph` (`runner.py:142`), has no dimension (`pgvector_store.py:81`) and neither
deletes (`pgvector_store.py:154`) nor finds anything until it is opened again;
`BackendsHoldWhatWasGiven` fails.

Queries (`query.cfg`): `SafeToRun`: a variable that only a relationship carries ends the interpreter in a
KeyError after the validator has passed it. `EveryRowMatches`: stopped in the first of several patterns, the
interpreter returns rows whose other patterns never matched. `IdenticalResults`: outside `Portable` the two
ways differ. The compiled text declares a variable once, so the label or property that a WHERE pattern asks
of a variable of MATCH is lost (`compile_cypher.py:63-64`, `:86-87`, `:128`), while the interpreter keeps it
(`interpret.py:177-179`); a `count(*)` over no match is one row of 0 to the engine and no row to the
interpreter (`interpret.py:299-304`); comparisons with NULL are false to the one and unknown to the other,
which negation tells apart; and on an engine that takes an edge once, two rels of a pattern cannot lead over
the same one. `HungReadsEnd`: "a hung fetch raises GuardrailError instead of hanging forever", for SurrealDB
too (`execute.py:130-133`), but SurrealDB awaits the interpreter without a timeout
(`surreal_store.py:170-171`). `MaxExpansions = 1`: the store gives at most one node more than the cap
(`interpret.py:204`), and inline properties and rels are looked at afterwards; the rows of the others are
left out and no bound is named, so `NothingLeftOutSilently` fails ("no silent caps",
`docs/release/0.6.4.md:37`; the cap is 50,000 by default). The driver reports the expansion cap also when it
was exactly used up. Beyond the model, the worker thread goes on using the connection after the hard
timeout.

Workspaces (`workspace.cfg`): `Offline = TRUE`: without a network a pinned member is built from
whatever its copy is at, and reported ok; `BuiltStays` fails. `Exclusive = FALSE`, a store that lets
a server read during a build: the envelope is newer than the graph; `EnvelopeHonest` fails.
`File <- NoFiles`: with the index directory in the manifest's defaults only, build and server use
different ones; `BuiltIsServed` fails. A copy pinned to a branch is fetched but never advanced;
two members with one URL and two refs share a copy; of two concurrent first calls one leaves its
store open (`engine.py:80-83`); one member that cannot be opened fails the service map of all.

Knowledge (`knowledge.cfg`): `Overlap = TRUE` (a server store, inference during a pass) or
`Emptied = TRUE` (a document loses all its text; its chunks stay): `EqualsFresh` fails. Of two
decisions with one number the last wins; emptying `doc_globs` collects nothing.

Frameworks (`frameworks.cfg`): `ProviderSymbolCurrent`: `provider_symbol` is set when there is a
provider and never cleared. A pack that is switched off leaves its links.

Walks: stores give scores from 0 (`pgvector_store.py:147`, `lance_store.py:130`), and what is found from a hit
of score 0 ranks with it, not below. `max` in `retriever.py:231` compares with a score that was never recorded, so the
first parent's score stays; `include_llm_facts` filters nodes, not llm edges (design-012); a trace drops
a second call site of the same call; a service map calls a path ambiguous also for two routes of
one service. `OfStrings`: "a dynamic URL ... is counted as unresolved, never guessed"
(`frameworks/packs/httpclient/__init__.py:11-13`), but an f-string is recorded, with its quotes in the
path (`_python_ast.py:29`, `:159`).

## 6. What is not modelled, and why

- Repository map: PageRank over floating point and a rendering cut at a token budget; no state,
  nothing concurrent. Reranking and the cosine scores of retrieval, likewise: hits come with any score.
- Parsers: tree-sitter grammars and language packs (declarative queries), Markdown, the text of the
  query language. What they return is the data of the models. Of the framework packs, what
  FastAPI, SQLAlchemy, Laravel and the HTTP clients find is modelled.
- Vectors of another dimension (a changed embedding model) and readers between two statements of a
  vector store.
- Receiver calls, INHERITS, Go packages and namespace packs in `Resolver`.
- Chunking under a token budget: a text has a list of chunks.
- Agent set-up and the CI scaffold: text transformations of the user's files, one write per file.
  Argument parsing, printing, preflight messages, templates.
- The guard that refuses to watch central and read-only stores is a predicate on configuration. A
  watcher task that dies and a refresh that raises end the loop's promises: the code has no
  recovery for either, so there is nothing to check beyond `Stop`.
- Models, embedders and rerankers are remote services: any answer, or a failure.

Open in the plan, in order: receiver calls and inheritance in `Resolver`; the composition of `WatchLoop`
with `IncrementalIndex`, each of which now stands for the other by one action.
