--------------------------- MODULE KnowledgeIngest ---------------------------
(***************************************************************************)
(* The knowledge pass that ends every index and refresh                    *)
(* (ingest/codegraph.py _ingest_knowledge): decision records and documents *)
(* become Decision and DocChunk nodes linked to the code they mention      *)
(* (knowledge/ingest.py, adr.py, mentions.py), commit messages become      *)
(* DocChunks linked to the files they touched (knowledge/commits.py), and  *)
(* a model may infer the links of decisions that mention no code           *)
(* (enrich/governs_enricher.py).  The pass has no manifest: it goes over   *)
(* everything each time.  One step per store transaction.                  *)
(***************************************************************************)
EXTENDS Integers, Sequences, FiniteSets, SequencesExt, FiniteSetsExt

CONSTANTS
  DocOrder,     \* the markdown files, sorted
  Number,       \* file -> the number in its name, None when there is none
  Versions,     \* file -> what it may say: records, see Text
  Initial,      \* what they say at first
  Code,         \* ids of files and symbols of the code
  NameOf,       \* id -> what a text mentions it by
  Snapshots,    \* the sets of ids the code may have
  History,      \* commits, oldest first: [files: ids touched, qualifies]
  Limit,        \* commit_messages_limit
  Globs,        \* what files may be: "adr", "doc" or "none", by adr_globs and doc_globs
  HasDocGlobs,  \* is doc_globs non-empty
  Emptied,      \* may a document lose all its text
  Overlap,      \* may inference and the pass be under way at once (a server store)
  None,
  MaxEdits, MaxRuns, MaxCrashes

Docs == Range(DocOrder)
Commits == 1..Len(History)

\* A text: the names it mentions, and the numbers of the decisions its front matter names.
Text(mentions, supersedes, supersededBy) ==
  [mentions |-> mentions, supersedes |-> supersedes, supersededBy |-> supersededBy]
Blank == Text({}, None, None)

ASSUME NumberAssumption == Number \in [Docs -> Nat \union {None}]
ASSUME CodeAssumption ==
  /\ Snapshots \subseteq SUBSET Code /\ DOMAIN NameOf = Code
  /\ IsFiniteSet(Code) /\ Code \intersect Docs = {}
Texts == UNION {Versions[d] : d \in Docs}
ASSUME TextsAssumption == Blank \notin Texts /\ Initial \subseteq [Docs -> Texts \union {None}]
ASSUME HistoryAssumption == \A c \in Commits : History[c].files \subseteq Code
ASSUME BoundsAssumption ==
  /\ Limit \in Nat \ {0} /\ {MaxEdits, MaxRuns, MaxCrashes} \subseteq Nat
  /\ {HasDocGlobs, Emptied, Overlap} \subseteq BOOLEAN

VARIABLES
  texts,      \* the tree: file -> text or None
  kind,       \* the configuration: file -> "adr", "doc" or "none"
  made,       \* how many commits there are
  code,       \* graph: ids of the code
  decisions,  \* graph: Decision nodes, a set of files
  chunks,     \* graph: DocChunk nodes, a set of [doc, source, text]
  links,      \* graph: edges out of those nodes, [src, dst, kind, by]
  recorded,   \* graph: DocChunks of commits
  touched,    \* graph: their edges, <<commit, id>>
  pc, todo,   \* the pass: where it is, the files the present loop still goes over
  adrs, prose,  \* the texts it discovered under either glob: functions of some files
  index,      \* the code it resolves mentions against
  job,        \* the inference
  edits, runs, crashes
repository == <<texts, kind, made>>
graph == <<code, decisions, chunks, links, recorded, touched>>
pass  == <<pc, todo, adrs, prose, index>>
count == <<edits, runs, crashes>>
vars  == <<repository, graph, pass, job, count>>

NoFiles == <<>>     \* the function of no file
Resting == [pc |-> "idle", targets |-> {}, found |-> {}]

Init ==
  /\ texts \in Initial
  /\ kind = [d \in Docs |-> IF "doc" \in Globs[d] THEN "doc" ELSE "adr"]
  /\ made = 1
  /\ code = {} /\ decisions = {} /\ chunks = {} /\ links = {} /\ recorded = {} /\ touched = {}
  /\ pc = "idle" /\ todo = {} /\ adrs = NoFiles /\ prose = NoFiles /\ index = {}
  /\ job = Resting
  /\ edits = 0 /\ runs = 0 /\ crashes = 0

(***************************************************************************)
(* The user.                                                               *)
(***************************************************************************)
Edit(d) ==
  /\ edits < MaxEdits
  /\ \E t \in Versions[d] \union {None} \union (IF Emptied THEN {Blank} ELSE {}) :
       t # texts[d] /\ texts' = [texts EXCEPT ![d] = t]
  /\ edits' = edits + 1
  /\ UNCHANGED <<kind, made, graph, pass, job, runs, crashes>>

\* The configuration is read when a pass begins.
Reglob(d) ==
  /\ edits < MaxEdits /\ pc = "idle"
  /\ \E k \in Globs[d] \ {kind[d]} : kind' = [kind EXCEPT ![d] = k]
  /\ edits' = edits + 1
  /\ UNCHANGED <<texts, made, graph, pass, job, runs, crashes>>

\* The pass reads the history in one step: a commit made meanwhile is one before or after.
CommitSubject ==
  /\ made < Len(History) /\ pc = "idle"
  /\ made' = made + 1
  /\ UNCHANGED <<texts, kind, graph, pass, job, count>>

(***************************************************************************)
(* Mentions.  A name that several symbols have, or none, is left alone.    *)
(***************************************************************************)
Named(n, ids) == {i \in ids : NameOf[i] = n}
\* Mistake: the first of several is taken.
FirstMatch(mentions, ids) ==
  {CHOOSE i \in Named(n, ids) : TRUE : n \in {m \in mentions : Named(m, ids) # {}}}
Resolve(mentions, ids) ==
  {i \in ids : NameOf[i] \in mentions /\ Cardinality(Named(NameOf[i], ids)) = 1}

Position(d) == SelectInSeq(DocOrder, LAMBDA e : e = d)

\* num_to_decision: the last file of a number; one of the two front matter keys.
DecisionOf(n, files) ==
  {d \in files : /\ Number[d] = n /\ n # None
                 /\ \A e \in files : Number[e] = n => Position(e) <= Position(d)}
Declared(t) == IF t.supersededBy # None THEN t.supersededBy ELSE t.supersedes

Link(src, dst, k, by) == [src |-> src, dst |-> dst, kind |-> k, by |-> by]
Governs(d, t) == {Link(d, i, "GOVERNS", "parsed") : i \in Resolve(t.mentions, index)}
Supersedes(d, t) ==
  {Link(d, e, "SUPERSEDES", "parsed") : e \in DecisionOf(Declared(t), DOMAIN adrs) \ {d}}
Describes(d, t) == {Link(d, i, "DESCRIBES", "parsed") : i \in Resolve(t.mentions, index)}

(***************************************************************************)
(* Store transactions: see PropertyGraph.  An upsert replaces the edges    *)
(* the file owns; an inferred one is nobody's.                             *)
(***************************************************************************)
Owned(d) == {l \in links : l.src = d /\ l.by = "parsed"}
Chunk(d, source, t) ==
  IF t = Blank THEN {} ELSE {[doc |-> d, source |-> source, text |-> t]}
ChunksBut(d) == {c \in chunks : c.doc # d}

\* Mistake: the file is deleted first.
ReplacedLinks(d, new) == {l \in links : d \notin {l.src, l.dst}} \union new
UpsertedLinks(d, new) == (links \ Owned(d)) \union new

DeleteFile(d) ==
  /\ decisions' = decisions \ {d}
  /\ chunks' = ChunksBut(d)
  /\ links' = {l \in links : d \notin {l.src, l.dst}}
  /\ UNCHANGED <<code, recorded, touched>>

(***************************************************************************)
(* The pass.                                                               *)
(***************************************************************************)
Found(k) == {d \in Docs : kind[d] = k /\ texts[d] # None}
Read(files) == [d \in files |-> texts[d]]
Goto(to, files) == pc' = to /\ todo' = files

\* What is deleted is a set, in no order; what was discovered is sorted.
Handle(d) == d \in todo /\ todo' = todo \ {d}
InTurn(d) == Handle(d) /\ \A e \in todo : Position(d) <= Position(e)

\* Code is indexed first; what of it is gone takes the links into it along.  The decision
\* records are discovered, and those in the graph whose file is not among them are next.
Begin(ids) ==
  /\ pc = "idle" /\ runs < MaxRuns /\ (Overlap \/ job = Resting)
  /\ runs' = runs + 1
  /\ code' = ids
  /\ links' = {l \in links : l.dst \in ids \union Docs}
  /\ touched' = {e \in touched : e[2] \in ids}
  /\ adrs' = Read(Found("adr")) /\ prose' = NoFiles
  /\ Goto("gone", decisions \ Found("adr"))
  /\ UNCHANGED <<decisions, chunks, recorded, index, repository, job, edits, crashes>>

DropDecision(d) ==
  /\ pc = "gone" /\ Handle(d)
  /\ DeleteFile(d)
  /\ UNCHANGED <<pc, adrs, prose, index, repository, job, count>>

\* Without decision records and document globs there is nothing more to do.
ReadCode ==
  /\ pc = "gone" /\ todo = {}
  /\ index' = code
  /\ IF DOMAIN adrs = {} /\ ~HasDocGlobs THEN Goto("commits", {}) ELSE Goto("upsert", DOMAIN adrs)
  /\ UNCHANGED <<graph, adrs, prose, repository, job, count>>

\* Round A lands every decision without its SUPERSEDES, round B the ones that have any.
Land(d, new) ==
  /\ decisions' = decisions \union {d}
  /\ chunks' = ChunksBut(d) \union Chunk(d, "adr", adrs[d])
  /\ links' = UpsertedLinks(d, {l \in new : l.dst \in code \union decisions'})
  /\ UNCHANGED <<code, recorded, touched>>

RoundA(d) == Governs(d, adrs[d])
Superseding == {d \in DOMAIN adrs : Supersedes(d, adrs[d]) # {}}

UpsertDecision(d) ==
  /\ pc = "upsert" /\ InTurn(d)
  /\ Land(d, RoundA(d))
  /\ UNCHANGED <<pc, adrs, prose, index, repository, job, count>>

EndRoundA ==
  /\ pc = "upsert" /\ todo = {}
  /\ Goto("relink", Superseding)
  /\ UNCHANGED <<graph, adrs, prose, index, repository, job, count>>

UpsertAgain(d) ==
  /\ pc = "relink" /\ InTurn(d)
  /\ Land(d, Governs(d, adrs[d]) \union Supersedes(d, adrs[d]))
  /\ UNCHANGED <<pc, adrs, prose, index, repository, job, count>>

\* Documents: those that are no decision records; chunks of vanished ones are deleted.
DocPaths == {c.doc : c \in {x \in chunks : x.source = "doc"}}

DiscoverDocs ==
  /\ pc = "relink" /\ todo = {}
  /\ IF HasDocGlobs
     THEN /\ prose' = Read(Found("doc") \ DOMAIN adrs)
          /\ Goto("docsGone", DocPaths \ DOMAIN prose')
     ELSE prose' = NoFiles /\ Goto("commits", {})
  /\ UNCHANGED <<graph, adrs, index, repository, job, count>>

DropDoc(d) ==
  /\ pc = "docsGone" /\ Handle(d)
  /\ DeleteFile(d)
  /\ UNCHANGED <<pc, adrs, prose, index, repository, job, count>>

\* A document without a section is skipped.
BeginDocs ==
  /\ pc = "docsGone" /\ todo = {}
  /\ Goto("docs", {d \in DOMAIN prose : prose[d] # Blank})
  /\ UNCHANGED <<graph, adrs, prose, index, repository, job, count>>

UpsertDoc(d) ==
  /\ pc = "docs" /\ InTurn(d)
  /\ chunks' = ChunksBut(d) \union Chunk(d, "doc", prose[d])
  /\ links' = UpsertedLinks(d, Describes(d, prose[d]))
  /\ UNCHANGED <<code, decisions, recorded, touched>>
  /\ UNCHANGED <<pc, adrs, prose, index, repository, job, count>>

EndDocs ==
  /\ pc = "docs" /\ todo = {}
  /\ Goto("commits", {})
  /\ UNCHANGED <<graph, adrs, prose, index, repository, job, count>>

\* git log is asked for the last commits; the ones the graph has are skipped, as are those
\* that say nothing or touched no file it knows.  One transaction adds the rest.
Window == {c \in 1..made : c > made - Limit}
Telling(c) == History[c].qualifies /\ History[c].files \intersect code # {}
\* Mistake: the newest one recorded is where it stops.
SinceLast == {c \in Window : Telling(c) /\ \A r \in recorded : r < c}
NewCommits == {c \in Window \ recorded : Telling(c)}

AddCommits ==
  /\ pc = "commits"
  /\ recorded' = recorded \union NewCommits
  /\ touched' = touched \union UNION {{c} \X (History[c].files \intersect code) : c \in NewCommits}
  /\ pc' = "done"
  /\ UNCHANGED <<code, decisions, chunks, links, todo, adrs, prose, index, repository, job, count>>

End ==
  /\ pc = "done"
  /\ pc' = "idle" /\ adrs' = NoFiles /\ prose' = NoFiles /\ index' = {}
  /\ UNCHANGED <<todo, graph, repository, job, count>>

Crash ==
  /\ pc \notin {"idle", "done"} /\ crashes < MaxCrashes
  /\ crashes' = crashes + 1
  /\ pc' = "idle" /\ todo' = {} /\ adrs' = NoFiles /\ prose' = NoFiles /\ index' = {}
  /\ UNCHANGED <<graph, repository, job, edits, runs>>

(***************************************************************************)
(* infer_governs: decisions without a parsed link are considered until the *)
(* budget is spent, and what was inferred for those before gives way to    *)
(* what is inferred now.                                                   *)
(***************************************************************************)
ParsedGoverns(d) == {l \in links : l.src = d /\ l.kind = "GOVERNS" /\ l.by = "parsed"}
Ungoverned == {d \in decisions : ParsedGoverns(d) = {}}

\* What a model may answer: a symbol for some of those it is asked about.
Matches(considered) ==
  UNION {{{Link(d, i, "GOVERNS", "llm") : d \in matched} : matched \in SUBSET considered} : i \in code}

\* The store gives the decisions in no order of theirs, so the budget leaves out any of them.
BeginInference ==
  /\ job = Resting /\ (Overlap \/ pc = "idle") /\ Ungoverned # {} /\ code # {}
  /\ \E considered \in (SUBSET Ungoverned) \ {{}} : \E found \in Matches(considered) :
       job' = [pc |-> "clear", targets |-> considered, found |-> found]
  /\ UNCHANGED <<repository, graph, pass, count>>

ClearInferred ==
  /\ job.pc = "clear"
  /\ links' = {l \in links : l.src \notin job.targets \/ l.kind # "GOVERNS"}
  /\ job' = [job EXCEPT !.pc = "add"]
  /\ UNCHANGED <<repository, code, decisions, chunks, recorded, touched, pass, count>>

AddInferred ==
  /\ job.pc = "add"
  /\ links' = links \union {l \in job.found : l.src \in decisions /\ l.dst \in code}
  /\ job' = Resting
  /\ UNCHANGED <<repository, code, decisions, chunks, recorded, touched, pass, count>>

PassStep ==
  \/ \E d \in Docs : DropDecision(d) \/ UpsertDecision(d) \/ UpsertAgain(d) \/ DropDoc(d) \/ UpsertDoc(d)
  \/ ReadCode \/ EndRoundA \/ DiscoverDocs \/ BeginDocs \/ EndDocs \/ AddCommits \/ End
InferenceStep == ClearInferred \/ AddInferred

Next ==
  \/ \E d \in Docs : Edit(d) \/ Reglob(d)
  \/ CommitSubject
  \/ \E ids \in Snapshots : Begin(ids)
  \/ PassStep \/ Crash
  \/ BeginInference \/ InferenceStep

Spec == Init /\ [][Next]_vars

(***************************************************************************)
(* What a first pass over an empty graph would find.                       *)
(***************************************************************************)
Facts == [decisions |-> decisions, chunks |-> chunks,
          links |-> {l \in links : l.by = "parsed"}]

OnlyOne(n) == \E i \in index : Named(n, index) = {i}
LinkTo(d, t, k) == {Link(d, i, k, "parsed") : i \in {j \in index : NameOf[j] \in t.mentions /\ OnlyOne(NameOf[j])}}
Fresh ==
  [decisions |-> DOMAIN adrs,
   chunks |-> (UNION {Chunk(d, "adr", adrs[d]) : d \in DOMAIN adrs})
               \union (UNION {Chunk(d, "doc", prose[d]) : d \in DOMAIN prose}),
   links |-> (UNION {LinkTo(d, adrs[d], "GOVERNS") \union Supersedes(d, adrs[d]) : d \in DOMAIN adrs})
               \union (UNION {LinkTo(d, prose[d], "DESCRIBES") : d \in DOMAIN prose})]

(***************************************************************************)
(* Properties.                                                             *)
(***************************************************************************)
\* Types: links start at nodes of this pass and end at nodes of the graph.
TypeOK ==
  /\ \A l \in links : /\ l.dst \in code \union decisions
                      /\ l.src \in decisions \union {c.doc : c \in chunks}
  /\ decisions \subseteq Docs /\ recorded \subseteq 1..made /\ touched \subseteq recorded \X code
  /\ DOMAIN adrs \intersect DOMAIN prose = {}

\* A pass that comes to its end leaves what a first one over an empty graph would have:
\* whatever was edited, deleted or moved between the globs before, at whichever point
\* earlier passes were killed, and however the names in the code have changed.
EqualsFresh == pc = "done" => Facts = Fresh

\* Every commit within the window that says something about a known file is recorded.
CommitsRecorded == pc = "done" => \A c \in Window : Telling(c) => c \in recorded

\* Going over a decision again keeps what was inferred for it, as long as both ends stay.
InferredStay ==
  [][~InferenceStep => \A l \in links : l.by = "llm" /\ l.src \in decisions' /\ l.dst \in code'
                                           => l \in links']_vars

(***************************************************************************)
(* What is said of the program and is not so: see README.md.               *)
(***************************************************************************)
\* A decision supersedes what its text says it replaces.
SupersedesReplaced ==
  \A l \in links : l.kind = "SUPERSEDES" =>
    \E c \in chunks : c.doc = l.src /\ c.text.supersedes = Number[l.dst]
=============================================================================
