---------------------------- MODULE DerivedPasses ----------------------------
(***************************************************************************)
(* What is derived from the graph, and how it follows it: CodeGraph.embed, *)
(* enrich and summarize (ingest/codegraph.py) over embed/pipeline.py,      *)
(* enrich/enricher.py, enrich/summary_enricher.py, and the dirty set they  *)
(* share with refresh (ingest/incremental/dirty.py).                       *)
(* A command is a job of several steps, one per store transaction or file  *)
(* write; it may fail between any two.  What refresh does to the graph is  *)
(* the subject of IncrementalIndex and is one step here.                   *)
(***************************************************************************)
EXTENDS Integers, Sequences, FiniteSets, SequencesExt

CONSTANTS
  FileOrder,      \* the source files, in the order a query returns them
  SymbolOrder,    \* symbol ids, sorted
  PathOf,         \* symbol id -> its file
  Candidates,     \* symbols the heuristics nominate for a pattern
  Versions,       \* file -> what it may hold: sequences of chunk texts
  NoFile,
  Initial,        \* what the files hold at first
  Docs,           \* versions of the prose the knowledge pass has in the graph
  Budgets,        \* what enrich and summarize may spend (--budget-usd): sets, a call of the model costing 1
  Concurrency,    \* enrich.concurrency
  Overlap,        \* may two commands be under way at once (two processes)
  ChunksReturn,   \* may a text come back whose Chunk nodes the graph still has
  DocsReturn,     \* may the prose go back to its fingerprint while its vectors are others
  FailsEmbedding, \* may a run end between a file's chunks and their vectors
  Commands,       \* the commands that are used
  MaxRefreshes, MaxFailures

Files == Range(FileOrder)
Symbols == Range(SymbolOrder)
Consumers == {"embeddings", "patterns", "summaries"}
Texts == UNION {Range(v) : v \in UNION {Versions[f] : f \in Files}}
MaxSeq == CHOOSE n \in 0..9 : /\ \A f \in Files : \A v \in Versions[f] : Len(v) <= n
                              /\ \E f \in Files : \E v \in Versions[f] : Len(v) = n

ASSUME PathAssumption == PathOf \in [Symbols -> Files] /\ Candidates \subseteq Symbols
ASSUME VersionsAssumption == \A f \in Files : \A v \in Versions[f] : v \in Seq(Texts) /\ v # <<>>
ASSUME InitialAssumption == \A code \in Initial : \A f \in Files : code[f] \in Versions[f]
ASSUME BoundsAssumption ==
  /\ NoFile \notin UNION {Versions[f] : f \in Files}
  /\ Budgets \in [{"enrich", "summarize"} -> SUBSET (Nat \ {0})] /\ Concurrency \in Nat \ {0}
  /\ MaxRefreshes \in Nat /\ MaxFailures \in Nat

VARIABLES
  code,        \* graph: the text a file's indexed subgraph comes from
  manifest,    \* meta.json: the text the last complete run recorded
  docs,        \* graph: DocChunk nodes (their fingerprint)
  chunkNodes,  \* graph: Chunk nodes, a function from sequence number to text
  tags,        \* graph: the text a symbol's TAGGED edges were judged on
  summaries,   \* graph: the text a file's Summary node was written from
  vectors,     \* vector store: a file's chunk vectors, <<seq, text>>
  summaryVec,  \* vector store: the text the vector of a file's summary is for
  docVectors,  \* vector store: the docs its doc vectors are for
  docHash,     \* doc_embed.hash
  dirty,       \* dirty.json
  jobs,        \* the commands under way
  refreshes, failures

graph == <<code, docs, chunkNodes, tags, summaries>>
index == <<vectors, summaryVec, docVectors>>
side  == <<manifest, docHash, dirty>>
count == <<refreshes, failures>>
vars  == <<graph, index, side, jobs, count>>

None == <<>>        \* no version of a file is empty
NoText == ""
NoDocs == 0
Indexed == {f \in Files : code[f] # NoFile}
SymbolsIn(fs) == {s \in Symbols : PathOf[s] \in fs}
Paths(ids) == {PathOf[s] : s \in ids}

Idle == [pc |-> "idle"]
Free(c) == c \in Commands /\ jobs[c] = Idle /\ (Overlap \/ \A d \in Commands : jobs[d] = Idle)
At(c, pc) == c \in Commands /\ jobs[c].pc = pc
Goto(c, pc) == jobs' = [jobs EXCEPT ![c].pc = pc]
End(c) == jobs' = [jobs EXCEPT ![c] = Idle]

\* A full index of a fresh clone: nothing is derived yet and nothing is dirty.
Init ==
  /\ code \in Initial
  /\ manifest = code /\ docs \in Docs \ {NoDocs}
  /\ chunkNodes = [f \in Files |-> [i \in 1..MaxSeq |-> NoText]]
  /\ tags = [s \in Symbols |-> None] /\ summaries = [f \in Files |-> None]
  /\ vectors = [f \in Files |-> {}] /\ summaryVec = [f \in Files |-> None]
  /\ docVectors = NoDocs /\ docHash = NoDocs
  /\ dirty = [c \in Consumers |-> {}]
  /\ jobs = [c \in Commands |-> Idle]
  /\ refreshes = 0 /\ failures = 0

(***************************************************************************)
(* The dirty set.  A DirtySet object reads dirty.json once, when it is     *)
(* built, and writes the whole file back from what it has.                 *)
(***************************************************************************)
Added(state, ids) == [c \in Consumers |-> state[c] \union ids]
Cleaned(state, consumer, ids) == [state EXCEPT ![consumer] = @ \ ids]

\* Chunk and vector sequence numbers and texts; a hash is the text it is of.
ChunksOf(v) == {<<i, v[i]>> : i \in 1..Len(v)}
Hashes(v) == Range(v)
PriorHashes(f) == Range(chunkNodes[f]) \ {NoText}

(***************************************************************************)
(* refresh                                                                 *)
(***************************************************************************)
\* A text comes back to a file whose Chunk nodes are still those of that text: the
\* file was deleted and restored, or lost its last chunks and got them back.
ChunksStillThere(f, v) == v # NoFile /\ PriorHashes(f) = Hashes(v)

\* The graph part: some files have been edited, created or deleted; none returns
\* to what the manifest has of it after a failure (see DetectorSound in
\* IncrementalIndex).  The symbols of a deleted file go with their edges, and every
\* vector whose path is the file's goes too; Chunk and Summary nodes have no file.
MayBecome(f) ==
  {v \in Versions[f] \union {NoFile} :
     v = code[f] \/ (v # manifest[f] /\ (ChunksReturn \/ ~ChunksStillThere(f, v)))}
Gone(f) == code'[f] = NoFile
RefreshGraph ==
  /\ Free("refresh") /\ refreshes < MaxRefreshes
  /\ refreshes' = refreshes + 1
  /\ \E now \in [Files -> UNION {MayBecome(f) : f \in Files}] :
       (\A f \in Files : now[f] \in MayBecome(f)) /\ code' = now
  /\ tags' = [s \in Symbols |-> IF Gone(PathOf[s]) THEN None ELSE tags[s]]
  /\ vectors' = [f \in Files |-> IF Gone(f) THEN {} ELSE vectors[f]]
  /\ summaryVec' = [f \in Files |-> IF Gone(f) THEN None ELSE summaryVec[f]]
  /\ jobs' = [jobs EXCEPT !["refresh"] = [pc |-> "dirty", held |-> dirty]]
  /\ UNCHANGED <<docs, chunkNodes, summaries, docVectors, side, failures>>

\* Mistake: only new files are marked.
NewSymbols == SymbolsIn({f \in Indexed : manifest[f] = NoFile})
ChangedSymbols == SymbolsIn({f \in Files : code[f] # manifest[f]})

RefreshDirty ==
  /\ At("refresh", "dirty")
  /\ dirty' = Added(jobs["refresh"].held, ChangedSymbols)
  /\ Goto("refresh", "save")
  /\ UNCHANGED <<graph, index, manifest, docHash, count>>

\* The knowledge pass and the manifest.
ProseStillFingerprinted(d) == d # NoDocs /\ docHash = d /\ docVectors # d
RefreshSave ==
  /\ At("refresh", "save")
  /\ docs' \in {d \in Docs : d = docs \/ DocsReturn \/ ~ProseStillFingerprinted(d)}
  /\ manifest' = code
  /\ End("refresh")
  /\ UNCHANGED <<code, chunkNodes, tags, summaries, index, docHash, dirty, count>>

(***************************************************************************)
(* embed                                                                   *)
(***************************************************************************)
StartEmbed(onlyDirty) ==
  /\ Free("embed")
  /\ LET ids == IF onlyDirty THEN dirty["embeddings"] ELSE {}
         todo == IF onlyDirty THEN Paths(ids) ELSE Files
     IN jobs' = [jobs EXCEPT !["embed"] =
          [pc |-> "file", held |-> dirty, ids |-> ids, only |-> onlyDirty,
           todo |-> todo \intersect Indexed, at |-> NoFile, text |-> None, visited |-> {}]]
  /\ UNCHANGED <<graph, index, side, count>>

\* Mistake: a skip that asks for a part of the hashes only.
SomeHashKnown(f) == PriorHashes(f) \intersect Hashes(code[f]) # {}
KnownChunks(f) == PriorHashes(f) # {} /\ PriorHashes(f) = Hashes(code[f])

\* Chunk a file; skip it when the graph has the same hashes, otherwise merge its
\* Chunk nodes by id: a node with a higher number than the last chunk stays.
EmbedFile ==
  /\ At("embed", "file")
  /\ \E f \in jobs["embed"].todo :
       /\ f \in Indexed
       /\ IF KnownChunks(f)
          THEN /\ jobs' = [jobs EXCEPT !["embed"].todo = @ \ {f}, !["embed"].visited = @ \union {f}]
               /\ UNCHANGED chunkNodes
          ELSE /\ chunkNodes' = [chunkNodes EXCEPT ![f] =
                    [i \in 1..MaxSeq |-> IF i <= Len(code[f]) THEN code[f][i] ELSE @[i]]]
               /\ jobs' = [jobs EXCEPT !["embed"].pc = "replace", !["embed"].at = f,
                                       !["embed"].text = code[f], !["embed"].todo = @ \ {f}]
  /\ UNCHANGED <<code, docs, tags, summaries, index, side, count>>

\* delete_where(path): whatever has the path, a summary's vector included.
DeleteVectors ==
  /\ At("embed", "replace")
  /\ vectors' = [vectors EXCEPT ![jobs["embed"].at] = {}]
  /\ summaryVec' = [summaryVec EXCEPT ![jobs["embed"].at] = None]
  /\ Goto("embed", "upsert")
  /\ UNCHANGED <<graph, docVectors, side, count>>

UpsertVectors ==
  /\ At("embed", "upsert")
  /\ LET f == jobs["embed"].at
     IN /\ vectors' = [vectors EXCEPT ![f] = @ \union ChunksOf(jobs["embed"].text)]
        /\ jobs' = [jobs EXCEPT !["embed"].pc = "file", !["embed"].text = None,
                                !["embed"].visited = @ \union {f}]
  /\ UNCHANGED <<graph, summaryVec, docVectors, side, count>>

\* Prose: skipped while the fingerprint file says nothing changed; otherwise the
\* vectors are replaced and the fingerprint is written, or unlinked, last.
EmbedDocs ==
  /\ At("embed", "file") /\ jobs["embed"].todo \intersect Indexed = {}
  /\ IF docs # NoDocs /\ docHash = docs
     THEN Goto("embed", "clean") /\ UNCHANGED docVectors
     ELSE docVectors' = NoDocs /\ Goto("embed", IF docs = NoDocs THEN "fingerprint" ELSE "docs")
  /\ UNCHANGED <<graph, vectors, summaryVec, side, count>>

UpsertDocs ==
  /\ At("embed", "docs")
  /\ docVectors' = docs
  /\ Goto("embed", "fingerprint")
  /\ UNCHANGED <<graph, vectors, summaryVec, side, count>>

WriteFingerprint ==
  /\ At("embed", "fingerprint")
  /\ docHash' = docs
  /\ Goto("embed", "clean")
  /\ UNCHANGED <<graph, index, manifest, dirty, count>>

CleanEmbedded ==
  /\ At("embed", "clean")
  /\ dirty' = IF jobs["embed"].only
              THEN Cleaned(jobs["embed"].held, "embeddings", jobs["embed"].ids) ELSE dirty
  /\ End("embed")
  /\ UNCHANGED <<graph, index, manifest, docHash, count>>

(***************************************************************************)
(* enrich and summarize: work through a list in batches under the budget,  *)
(* which is checked before a batch and charged after it.  Nothing is       *)
(* written before the loop is over.                                        *)
(***************************************************************************)
Spent(job) == job.spent >= job.budget

\* A batch is what is left of the list, or Concurrency items of it.
BatchOf(todo) == {n \in 1..Concurrency : n = Len(todo) \/ (n = Concurrency /\ n < Len(todo))}

Work(c) ==
  /\ At(c, "work") /\ ~Spent(jobs[c])
  /\ LET job == jobs[c]
     IN \E n \in BatchOf(job.todo) :
          jobs' = [jobs EXCEPT ![c].todo = SubSeq(job.todo, n + 1, Len(job.todo)),
                               ![c].done = job.done \union Range(SubSeq(job.todo, 1, n)),
                               ![c].spent = job.spent + n]
  /\ UNCHANGED <<graph, index, side, count>>

\* Mistake: a loop its budget stopped is not over while work is left.
NothingLeft(c) == At(c, "work") /\ jobs[c].todo = <<>>
WorkEnded(c) == At(c, "work") /\ (jobs[c].todo = <<>> \/ Spent(jobs[c]))

Queue(order, wanted) == SelectSeq(order, LAMBDA x : x \in wanted)
WorkingOn(ids, todo, budget) ==
  [pc |-> "work", held |-> dirty, ids |-> ids, todo |-> todo, read |-> code, done |-> {},
   spent |-> 0, budget |-> budget]

\* The candidates are read when they are nominated; what is not nominated is
\* never judged.
StartEnrich ==
  /\ Free("enrich")
  /\ LET ids == IF dirty["patterns"] # {} THEN dirty["patterns"] ELSE Symbols
     IN \E budget \in Budgets["enrich"] : jobs' = [jobs EXCEPT !["enrich"] =
          WorkingOn(ids, Queue(SymbolOrder, ids \intersect Candidates \intersect SymbolsIn(Indexed)), budget)]
  /\ UNCHANGED <<graph, index, side, count>>

ClearTags ==
  /\ WorkEnded("enrich")
  /\ tags' = [s \in Symbols |-> IF s \in jobs["enrich"].done THEN None ELSE tags[s]]
  /\ Goto("enrich", "tag")
  /\ UNCHANGED <<code, docs, chunkNodes, summaries, index, side, count>>

\* An edge of a symbol that is gone matches nothing.
AddTags ==
  /\ At("enrich", "tag")
  /\ tags' = [s \in Symbols |-> IF s \in jobs["enrich"].done /\ PathOf[s] \in Indexed
                                THEN jobs["enrich"].read[PathOf[s]] ELSE tags[s]]
  /\ Goto("enrich", "clean")
  /\ UNCHANGED <<code, docs, chunkNodes, summaries, index, side, count>>

\* Mistake: everything the run was given is marked clean.
GivenIds(job) == job.ids
JudgedIds(job) == job.done

CleanJudged ==
  /\ At("enrich", "clean")
  /\ dirty' = Cleaned(jobs["enrich"].held, "patterns", JudgedIds(jobs["enrich"]))
  /\ End("enrich")
  /\ UNCHANGED <<graph, index, manifest, docHash, count>>

StartSummarize ==
  /\ Free("summarize")
  /\ LET ids == dirty["summaries"]
         wanted == IF ids # {} THEN Paths(ids) ELSE Files
     IN \E budget \in Budgets["summarize"] : jobs' = [jobs EXCEPT !["summarize"] =
          WorkingOn(ids, Queue(FileOrder, wanted \intersect Indexed), budget)]
  /\ UNCHANGED <<graph, index, side, count>>

\* The repository summary is one more call, made only when no file was left out
\* and the budget is not spent.
SummarizeRepo ==
  /\ At("summarize", "work") /\ jobs["summarize"].todo = <<>>
  /\ jobs["summarize"].done # {} /\ ~Spent(jobs["summarize"])
  /\ jobs' = [jobs EXCEPT !["summarize"].spent = @ + 1, !["summarize"].pc = "write"]
  /\ UNCHANGED <<graph, index, side, count>>

SkipRepo ==
  /\ WorkEnded("summarize")
  /\ jobs["summarize"].done = {} \/ Spent(jobs["summarize"])
  /\ Goto("summarize", "write")
  /\ UNCHANGED <<graph, index, side, count>>

WriteSummaries ==
  /\ At("summarize", "write")
  /\ summaries' = [f \in Files |-> IF f \in jobs["summarize"].done
                                   THEN jobs["summarize"].read[f] ELSE summaries[f]]
  /\ Goto("summarize", "vectors")
  /\ UNCHANGED <<code, docs, chunkNodes, tags, index, side, count>>

EmbedSummaries ==
  /\ At("summarize", "vectors")
  /\ summaryVec' = [f \in Files |-> IF f \in jobs["summarize"].done
                                    THEN jobs["summarize"].read[f] ELSE summaryVec[f]]
  /\ Goto("summarize", "clean")
  /\ UNCHANGED <<graph, vectors, docVectors, side, count>>

SummarizedIds(job) == {s \in job.ids : PathOf[s] \in job.done}

CleanSummarized ==
  /\ At("summarize", "clean")
  /\ dirty' = Cleaned(jobs["summarize"].held, "summaries", SummarizedIds(jobs["summarize"]))
  /\ End("summarize")
  /\ UNCHANGED <<graph, index, manifest, docHash, count>>

(***************************************************************************)
(* A command is killed, or a store, the embedder or the model raises: the  *)
(* job is gone, what it wrote stays.                                       *)
(***************************************************************************)
Fail(c) ==
  /\ jobs[c] # Idle /\ failures < MaxFailures
  /\ jobs[c].pc \in {"replace", "upsert"} => FailsEmbedding
  /\ failures' = failures + 1
  /\ End(c)
  /\ UNCHANGED <<graph, index, side, refreshes>>

Refresh == RefreshGraph \/ RefreshDirty \/ RefreshSave
Embed == \/ StartEmbed(TRUE) \/ StartEmbed(FALSE) \/ EmbedFile \/ DeleteVectors \/ UpsertVectors
         \/ EmbedDocs \/ UpsertDocs \/ WriteFingerprint \/ CleanEmbedded
Enrich == StartEnrich \/ Work("enrich") \/ ClearTags \/ AddTags \/ CleanJudged
Summarize == \/ StartSummarize \/ Work("summarize") \/ SummarizeRepo \/ SkipRepo
             \/ WriteSummaries \/ EmbedSummaries \/ CleanSummarized

Next == Refresh \/ Embed \/ Enrich \/ Summarize \/ (\E c \in Commands : Fail(c))

Spec == Init /\ [][Next]_vars

GoesOn == \/ RefreshDirty \/ RefreshSave
          \/ jobs["embed"] # Idle /\ Embed
          \/ jobs["enrich"] # Idle /\ Enrich
          \/ jobs["summarize"] # Idle /\ Summarize

\* The user, or a schedule, keeps running the passes under a budget: each is run again
\* and again, and what was started goes on.
FairSpec == Spec /\ WF_vars(GoesOn) /\ SF_vars(StartEnrich) /\ SF_vars(StartSummarize)

(***************************************************************************)
(* Properties.                                                             *)
(***************************************************************************)
\* Types of every variable but the job records.
TypeOK ==
  /\ \A f \in Files : code[f] \in Versions[f] \union {NoFile} /\ vectors[f] \subseteq (1..MaxSeq) \X Texts
  /\ {docs, docVectors, docHash} \subseteq Docs \union {NoDocs}
  /\ chunkNodes \in [Files -> [1..MaxSeq -> Texts \union {NoText}]]
  /\ dirty \in [Consumers -> SUBSET Symbols]
  /\ DOMAIN jobs = Commands

\* When embed gets to its end, every file it visited is searchable by exactly its chunks,
\* whether it embedded the file or took it for unchanged, and so is the prose: a skip never
\* leaves other vectors than a fresh embedding would, whichever runs failed before.
EmbedLeavesCurrent ==
  At("embed", "clean") => /\ \A f \in jobs["embed"].visited : vectors[f] = ChunksOf(code[f])
                          /\ docVectors = docs

\* The dirty set is the one staleness signal: once no refresh is owed, whatever was
\* derived from another text than the file's is marked for the pass that derives it.
StaleIsDirty ==
  (\A c \in Commands : jobs[c] = Idle) =>
    \A s \in SymbolsIn({f \in Indexed : manifest[f] = code[f]}) :
      LET f == PathOf[s]
      IN /\ vectors[f] \notin {{}, ChunksOf(code[f])} => s \in dirty["embeddings"]
         /\ tags[s] \notin {None, code[f]} => s \in dirty["patterns"]
         /\ summaries[f] \notin {None, code[f]} => s \in dirty["summaries"]

\* A breaker that is checked before a batch and charged after it overruns the budget
\* by less than a batch.
SpendBounded ==
  \A c \in {"enrich", "summarize"} \intersect Commands :
    jobs[c] # Idle => jobs[c].spent < jobs[c].budget + Concurrency

\* An id leaves the dirty set of the passes under a budget only with its work done
\* on the text the graph has now.
CleanMeansDone ==
  [][\A s \in Symbols : code[PathOf[s]] # NoFile =>
       /\ s \in dirty["patterns"] \ dirty'["patterns"] => tags[s] = code[PathOf[s]]
       /\ s \in dirty["summaries"] \ dirty'["summaries"] => summaries[PathOf[s]] = code[PathOf[s]]]_vars

\* Resuming: when the refreshes and the failures are over, runs of any budget work off
\* every dirty id that a pass has something to do for.
Owed == {s \in dirty["patterns"] \intersect Candidates : PathOf[s] \in Indexed}
          \union {s \in dirty["summaries"] : PathOf[s] \in Indexed}
Drains == <>[](Owed = {})

(***************************************************************************)
(* What is said of the program and is not so: see README.md.               *)
(***************************************************************************)
\* "A budget-tripped run resumes where it stopped" (feat-012): running summarize again
\* and again summarises every file.
EveryFileSummarized == <>(\A f \in Indexed : summaries[f] # None)

\* Summaries "are embedded so a concept query can land on one": the summary of an
\* unchanged file has its vector while its file is clean.
SummarySearchable ==
  (\A c \in Commands : jobs[c] = Idle) =>
    \A s \in SymbolsIn(Indexed) :
      summaries[PathOf[s]] = code[PathOf[s]] /\ s \notin dirty["summaries"]
        => summaryVec[PathOf[s]] = code[PathOf[s]]

\* Each consumer drains its own cursor at its own cadence: ids a refresh has marked stay
\* marked for the other consumers, whoever saves the file.
OthersKeepTheirs ==
  [][\A k \in Consumers :
       LET saves == \E c \in Commands : jobs[c] # Idle /\ jobs'[c] = Idle /\ jobs[c].pc = "clean"
           own == CASE At("embed", "clean") -> "embeddings"
                    [] At("enrich", "clean") -> "patterns" [] OTHER -> "summaries"
       IN saves /\ k # own => dirty[k] \subseteq dirty'[k]]_vars
=============================================================================
