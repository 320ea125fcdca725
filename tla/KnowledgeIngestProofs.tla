----------------------- MODULE KnowledgeIngestProofs ------------------------
(***************************************************************************)
(* A knowledge pass over whatever earlier ones left ends where a first one *)
(* would, for every repository, while inference keeps out of its way.      *)
(***************************************************************************)
EXTENDS KnowledgeIngest, FiniteSetTheorems, TLAPS

USE DEF vars, repository, graph, pass, count

(***************************************************************************)
(* Inferred links stay.                                                    *)
(***************************************************************************)
CodeInv == code \subseteq Code

LEMMA CodeStays ==
  ASSUME CodeInv, [Next]_vars
  PROVE  CodeInv'
<1>1. CASE \E ids \in Snapshots : Begin(ids)
  BY <1>1, CodeAssumption DEF Begin, CodeInv
<1>2. CASE ~\E ids \in Snapshots : Begin(ids)
  <2>1. UNCHANGED code
    BY <1>2 DEF Next, Edit, Reglob, CommitSubject, PassStep, DropDecision, DeleteFile, UpsertDecision,
                UpsertAgain, Land, DropDoc, UpsertDoc, ReadCode, EndRoundA, DiscoverDocs, BeginDocs,
                EndDocs, AddCommits, End, Crash, BeginInference, InferenceStep, ClearInferred,
                AddInferred
  <2> QED BY <2>1 DEF CodeInv
<1> QED BY <1>1, <1>2

\* What a step that deletes a file takes along has one of its ends there.
LEMMA DeletingKeeps ==
  ASSUME CodeInv, NEW d \in Docs, DeleteFile(d), NEW l \in links, l.src \in decisions', l.dst \in code'
  PROVE  l \in links'
BY CodeAssumption DEF DeleteFile, CodeInv

\* An inferred link is not one that an upsert of its file replaces.
LEMMA UpsertingKeeps ==
  ASSUME NEW d, NEW new, links' = UpsertedLinks(d, new), NEW l \in links, l.by = "llm"
  PROVE  l \in links'
BY DEF UpsertedLinks, Owned

LEMMA StepKeepsInferred ==
  ASSUME CodeInv, Next, ~InferenceStep,
         NEW l \in links, l.by = "llm", l.src \in decisions', l.dst \in code'
  PROVE  l \in links'
<1>1. ASSUME NEW d \in Docs, DropDecision(d) \/ DropDoc(d) PROVE l \in links'
  BY <1>1, DeletingKeeps DEF DropDecision, DropDoc
<1>2. ASSUME NEW d \in Docs, UpsertDecision(d) \/ UpsertAgain(d) \/ UpsertDoc(d) PROVE l \in links'
  BY <1>2, UpsertingKeeps DEF UpsertDecision, UpsertAgain, UpsertDoc, Land
<1>3. ASSUME NEW ids \in Snapshots, Begin(ids) PROVE l \in links'
  BY <1>3 DEF Begin
<1>4. ASSUME UNCHANGED links PROVE l \in links'
  BY <1>4
<1> QED
  BY <1>1, <1>2, <1>3, <1>4
     DEF Next, PassStep, Edit, Reglob, CommitSubject, ReadCode, EndRoundA, DiscoverDocs, BeginDocs,
         EndDocs, AddCommits, End, Crash, BeginInference

\* Going over a decision again, deleting others, moving files between the globs and being
\* killed keep what a model has inferred for it (knowledge/ingest.py upserts under its own
\* origin), as long as both ends stay, whether or not an inference is under way.
THEOREM InferredLinksStay == Spec => InferredStay
<1>1. Init => CodeInv
  BY DEF Init, CodeInv
<1>2. CodeInv /\ [Next]_vars => CodeInv'
  BY CodeStays
<1>3. CodeInv /\ [Next]_vars =>
        [~InferenceStep => \A l \in links : l.by = "llm" /\ l.src \in decisions' /\ l.dst \in code'
                                              => l \in links']_vars
  BY StepKeepsInferred
<1> QED BY <1>1, <1>2, <1>3, PTL DEF Spec, InferredStay

(***************************************************************************)
(* A pass that ends has left what a first one would have.                  *)
(***************************************************************************)
At(d) == {c \in chunks : c.doc = d}

\* The types that the argument needs.
Shape ==
  /\ decisions \subseteq Docs /\ code \subseteq Code /\ todo \subseteq Docs
  /\ DOMAIN adrs \subseteq Docs /\ DOMAIN prose \subseteq Docs
  /\ DOMAIN adrs \intersect DOMAIN prose = {}
  /\ \A d \in DOMAIN prose : prose[d] # Blank
  /\ texts \in [Docs -> Texts \union {None}]
  /\ \A l \in job.found : l.by = "llm"
  /\ pc # "idle" => job = Resting

\* At every moment: chunks say which kind of file they are from, links start at a node of
\* this pass and end at a node of the graph, and without document globs there are no documents.
GraphInv ==
  /\ \A c \in chunks : \/ c.source = "adr" /\ c.doc \in decisions
                       \/ c.source = "doc" /\ c.doc \in Docs \ decisions
  /\ \A l \in links : /\ l.dst \in code \union decisions
                      /\ l.by = "parsed" => l.src \in decisions \union DocPaths
  /\ HasDocGlobs \/ DocPaths = {}

\* What is done with a file that the pass has gone over.
Landed(d) == d \in decisions /\ At(d) = Chunk(d, "adr", adrs[d]) /\ Owned(d) = Governs(d, adrs[d])
Relinked(d) ==
  /\ At(d) = Chunk(d, "adr", adrs[d])
  /\ Owned(d) = Governs(d, adrs[d]) \union Supersedes(d, adrs[d])
Told(d) == At(d) = Chunk(d, "doc", prose[d]) /\ Owned(d) = Describes(d, prose[d])
AdrsDone == decisions = DOMAIN adrs /\ \A d \in DOMAIN adrs : Relinked(d)

\* Where the pass is.
PassInv ==
  /\ pc \in {"idle", "gone", "upsert", "relink", "docsGone", "docs", "commits", "done"}
  /\ pc \notin {"idle", "gone"} => index = code
  /\ pc \in {"gone", "upsert", "relink"} => prose = NoFiles
  /\ pc = "gone" => decisions \subseteq DOMAIN adrs \union todo
  /\ pc = "upsert" => /\ decisions \subseteq DOMAIN adrs /\ todo \subseteq DOMAIN adrs
                      /\ \A d \in DOMAIN adrs \ todo : Landed(d)
  /\ pc = "relink" => /\ decisions = DOMAIN adrs /\ todo \subseteq DOMAIN adrs
                      /\ \A d \in todo : At(d) = Chunk(d, "adr", adrs[d])
                      /\ \A d \in DOMAIN adrs \ todo : Relinked(d)
  /\ pc \in {"docsGone", "docs", "commits", "done"} => AdrsDone
  /\ pc \in {"docsGone", "docs"} => HasDocGlobs
  /\ pc = "docsGone" => DocPaths \subseteq DOMAIN prose \union todo /\ todo \intersect decisions = {}
  /\ pc \in {"docs", "commits", "done"} => DocPaths \subseteq DOMAIN prose
  /\ pc = "docs" => todo \subseteq DOMAIN prose /\ \A d \in DOMAIN prose \ todo : Told(d)
  /\ pc \in {"commits", "done"} => \A d \in DOMAIN prose : Told(d)

IngestInv == Shape /\ GraphInv /\ PassInv

(***************************************************************************)
(* What the store's transactions do.                                       *)
(***************************************************************************)
LEMMA NoFilesAtAll == DOMAIN NoFiles = {}
BY DEF NoFiles

LEMMA Reading ==
  ASSUME NEW files
  PROVE  DOMAIN Read(files) = files /\ \A d \in files : Read(files)[d] = texts[d]
BY DEF Read

LEMMA LinksOut ==
  ASSUME NEW d, NEW t, Shape, index = code
  PROVE  /\ \A l \in Governs(d, t) \union Describes(d, t) :
              l.src = d /\ l.by = "parsed" /\ l.dst \in code
         /\ \A l \in Supersedes(d, t) : l.src = d /\ l.by = "parsed" /\ l.dst \in DOMAIN adrs
BY DEF Governs, Describes, Supersedes, Resolve, DecisionOf, Link

LEMMA ChunksOut ==
  ASSUME NEW d, NEW s, NEW t
  PROVE  /\ \A c \in Chunk(d, s, t) : c.doc = d /\ c.source = s
         /\ t # Blank => [doc |-> d, source |-> s, text |-> t] \in Chunk(d, s, t)
<1>1. CASE t = Blank
  BY <1>1 DEF Chunk
<1>2. CASE t # Blank
  BY <1>2 DEF Chunk
<1> QED BY <1>1, <1>2

\* Deleting a file takes its own away and, unless it was a decision, nothing else.
LEMMA Deleting ==
  ASSUME Shape, GraphInv, NEW d \in Docs, DeleteFile(d)
  PROVE  /\ GraphInv' /\ decisions' = decisions \ {d} /\ code' = code
         /\ DocPaths' = DocPaths \ {d}
         /\ d \notin decisions => \A e : e # d => At(e)' = At(e) /\ Owned(e)' = Owned(e)
<1>1. /\ decisions' = decisions \ {d} /\ chunks' = {c \in chunks : c.doc # d} /\ code' = code
      /\ links' = {l \in links : d \notin {l.src, l.dst}}
  BY DEF DeleteFile, ChunksBut
<1>2. DocPaths' = DocPaths \ {d}
  BY <1>1 DEF DocPaths
<1>3. ASSUME d \notin decisions, NEW e, e # d PROVE At(e)' = At(e) /\ Owned(e)' = Owned(e)
  <2>1. \A l \in links : l.dst # d
    BY <1>3, CodeAssumption DEF GraphInv, Shape
  <2> QED BY <1>1, <1>3, <2>1 DEF At, Owned
<1>4. GraphInv'
  BY <1>1, <1>2 DEF GraphInv, Shape
<1> QED BY <1>1, <1>2, <1>3, <1>4

\* Landing a decision replaces its own and touches nothing else.
LEMMA Landing ==
  ASSUME Shape, GraphInv, NEW d \in Docs, NEW new, Land(d, new),
         \A l \in new : l.src = d /\ l.by = "parsed" /\ l.dst \in code \union decisions'
  PROVE  /\ GraphInv' /\ decisions' = decisions \union {d} /\ code' = code
         /\ DocPaths' = DocPaths \ {d}
         /\ At(d)' = Chunk(d, "adr", adrs[d]) /\ Owned(d)' = new
         /\ \A e : e # d => At(e)' = At(e) /\ Owned(e)' = Owned(e)
<1>1. /\ decisions' = decisions \union {d} /\ code' = code
      /\ chunks' = {c \in chunks : c.doc # d} \union Chunk(d, "adr", adrs[d])
      /\ links' = (links \ Owned(d)) \union new
  <2>1. {l \in new : l.dst \in code \union decisions'} = new
    OBVIOUS
  <2> QED BY <2>1 DEF Land, UpsertedLinks, ChunksBut
<1>2. \A c \in Chunk(d, "adr", adrs[d]) : c.doc = d /\ c.source = "adr"
  BY ChunksOut
<1>3. DocPaths' = DocPaths \ {d}
  BY <1>1, <1>2 DEF DocPaths
<1>4. At(d)' = Chunk(d, "adr", adrs[d]) /\ \A e : e # d => At(e)' = At(e)
  BY <1>1, <1>2 DEF At
<1>5. Owned(d)' = new /\ \A e : e # d => Owned(e)' = Owned(e)
  BY <1>1 DEF Owned
<1>6. GraphInv'
  BY <1>1, <1>2, <1>3 DEF GraphInv, Shape, Owned
<1> QED BY <1>1, <1>3, <1>4, <1>5, <1>6

(***************************************************************************)
(* The steps.                                                              *)
(***************************************************************************)
LEMMA InitOk == Init => IngestInv
<1> SUFFICES ASSUME Init PROVE IngestInv
  OBVIOUS
<1>1. texts \in [Docs -> Texts \union {None}]
  BY TextsAssumption DEF Init
<1>2. /\ DOMAIN adrs = {} /\ DOMAIN prose = {} /\ job.found = {} /\ todo = {}
      /\ pc = "idle" /\ DocPaths = {}
  BY NoFilesAtAll DEF Init, Resting, DocPaths
<1>3. Shape
  BY <1>1, <1>2 DEF Init, Shape
<1>4. GraphInv /\ PassInv
  BY <1>2 DEF Init, GraphInv, PassInv
<1> QED BY <1>3, <1>4 DEF IngestInv

LEMMA UserSteps ==
  ASSUME IngestInv, ~Emptied, (\E d \in Docs : Edit(d) \/ Reglob(d)) \/ CommitSubject
  PROVE  IngestInv'
<1>1. UNCHANGED <<graph, pass, job>>
  BY DEF Edit, Reglob, CommitSubject
<1>2. texts' \in [Docs -> Texts \union {None}]
  <2>1. ASSUME NEW d \in Docs, Edit(d) PROVE texts' \in [Docs -> Texts \union {None}]
    <3>1. PICK t \in Texts \union {None} : texts' = [texts EXCEPT ![d] = t]
      BY <2>1 DEF Edit, Texts
    <3> QED BY <3>1 DEF IngestInv, Shape
  <2>2. ASSUME UNCHANGED texts PROVE texts' \in [Docs -> Texts \union {None}]
    BY <2>2 DEF IngestInv, Shape
  <2> QED BY <2>1, <2>2 DEF Reglob, CommitSubject
<1>3. Shape'
  BY <1>1, <1>2 DEF IngestInv, Shape
<1>4. GraphInv'
  BY <1>1 DEF IngestInv, GraphInv, DocPaths
<1>5. PassInv'
  BY <1>1 DEF IngestInv, PassInv, DocPaths, Landed, Relinked, Told, AdrsDone, At, Owned, Governs,
              Supersedes, Describes
<1> QED BY <1>3, <1>4, <1>5 DEF IngestInv

LEMMA BeginStep ==
  ASSUME IngestInv, ~Overlap, NEW ids \in Snapshots, Begin(ids)
  PROVE  IngestInv'
<1>1. DOMAIN adrs' = Found("adr") /\ Found("adr") \subseteq Docs /\ DOMAIN prose' = {}
  BY Reading, NoFilesAtAll DEF Begin, Found
<1>2. Shape'
  BY <1>1, CodeAssumption DEF Begin, IngestInv, Shape, Goto
<1>3. GraphInv'
  <2>1. decisions' = decisions /\ chunks' = chunks /\ DocPaths' = DocPaths
    BY DEF Begin, DocPaths
  <2>2. ASSUME NEW l \in links' PROVE l \in links /\ l.dst \in code' \union decisions'
    BY <2>1, CodeAssumption DEF Begin, IngestInv, Shape, GraphInv
  <2> QED BY <2>1, <2>2 DEF IngestInv, GraphInv
<1>4. PassInv'
  BY <1>1 DEF Begin, PassInv, Goto
<1> QED BY <1>2, <1>3, <1>4 DEF IngestInv

LEMMA DropDecisionStep ==
  ASSUME IngestInv, NEW d \in Docs, DropDecision(d)
  PROVE  IngestInv'
<1>1. /\ pc = "gone" /\ pc' = pc /\ todo' = todo \ {d} /\ DeleteFile(d)
      /\ UNCHANGED <<adrs, prose, index, texts, job>>
  BY DEF DropDecision, Handle
<1>2. GraphInv' /\ decisions' = decisions \ {d} /\ code' = code
  BY <1>1, Deleting DEF IngestInv
<1>3. Shape'
  BY <1>1, <1>2 DEF IngestInv, Shape
<1>4. PassInv'
  BY <1>1, <1>2 DEF IngestInv, PassInv
<1> QED BY <1>2, <1>3, <1>4 DEF IngestInv

LEMMA UpsertDecisionStep ==
  ASSUME IngestInv, NEW d \in Docs, UpsertDecision(d)
  PROVE  IngestInv'
<1>1. /\ pc = "upsert" /\ pc' = pc /\ d \in todo /\ todo' = todo \ {d} /\ Land(d, Governs(d, adrs[d]))
      /\ index = code /\ d \in DOMAIN adrs /\ UNCHANGED <<adrs, prose, index, texts, job>>
  BY DEF UpsertDecision, InTurn, Handle, RoundA, IngestInv, PassInv
<1>2. /\ GraphInv' /\ decisions' = decisions \union {d} /\ code' = code
      /\ At(d)' = Chunk(d, "adr", adrs[d]) /\ Owned(d)' = Governs(d, adrs[d])
      /\ \A e : e # d => At(e)' = At(e) /\ Owned(e)' = Owned(e)
  BY <1>1, Landing, LinksOut DEF IngestInv
<1>3. Shape'
  BY <1>1, <1>2 DEF IngestInv, Shape
<1>4. \A e \in DOMAIN adrs : Governs(e, adrs[e])' = Governs(e, adrs[e])
  BY <1>1 DEF Governs
<1>5. \A e \in DOMAIN adrs \ todo' : Landed(e)'
  BY <1>1, <1>2, <1>4 DEF IngestInv, PassInv, Landed
<1>6. PassInv'
  BY <1>1, <1>2, <1>5 DEF IngestInv, PassInv
<1> QED BY <1>2, <1>3, <1>6 DEF IngestInv

LEMMA UpsertAgainStep ==
  ASSUME IngestInv, NEW d \in Docs, UpsertAgain(d)
  PROVE  IngestInv'
<1> DEFINE new == Governs(d, adrs[d]) \union Supersedes(d, adrs[d])
<1>1. /\ pc = "relink" /\ pc' = pc /\ d \in todo /\ todo' = todo \ {d} /\ Land(d, new)
      /\ index = code /\ d \in DOMAIN adrs /\ decisions = DOMAIN adrs
      /\ UNCHANGED <<adrs, prose, index, texts, job>>
  BY DEF UpsertAgain, InTurn, Handle, IngestInv, PassInv
<1>2. /\ GraphInv' /\ decisions' = decisions \union {d} /\ code' = code
      /\ At(d)' = Chunk(d, "adr", adrs[d]) /\ Owned(d)' = new
      /\ \A e : e # d => At(e)' = At(e) /\ Owned(e)' = Owned(e)
  <2>1. \A l \in new : l.src = d /\ l.by = "parsed" /\ l.dst \in code \union decisions'
    BY <1>1, LinksOut DEF IngestInv, Land
  <2> QED BY <1>1, <2>1, Landing DEF IngestInv
<1>3. Shape'
  BY <1>1, <1>2 DEF IngestInv, Shape
<1>4. \A e \in DOMAIN adrs : /\ Governs(e, adrs[e])' = Governs(e, adrs[e])
                             /\ Supersedes(e, adrs[e])' = Supersedes(e, adrs[e])
  BY <1>1 DEF Governs, Supersedes
<1>5. /\ \A e \in DOMAIN adrs \ todo' : Relinked(e)'
      /\ \A e \in todo' : At(e)' = Chunk(e, "adr", adrs[e])
  BY <1>1, <1>2, <1>4 DEF IngestInv, PassInv, Relinked
<1>6. PassInv'
  BY <1>1, <1>2, <1>5 DEF IngestInv, PassInv
<1> QED BY <1>2, <1>3, <1>6 DEF IngestInv

\* What is left as it is by a step that only goes on.
LEMMA Onward ==
  ASSUME IngestInv, UNCHANGED <<code, decisions, chunks, links, job, texts, adrs, index>>
  PROVE  /\ GraphInv' /\ DocPaths' = DocPaths
         /\ \A d : At(d)' = At(d) /\ Owned(d)' = Owned(d)
         /\ \A d \in DOMAIN adrs : /\ Governs(d, adrs[d])' = Governs(d, adrs[d])
                                   /\ Supersedes(d, adrs[d])' = Supersedes(d, adrs[d])
         /\ AdrsDone => AdrsDone'
<1>1. DocPaths' = DocPaths /\ \A d : At(d)' = At(d) /\ Owned(d)' = Owned(d)
  BY DEF DocPaths, At, Owned
<1>2. \A d \in DOMAIN adrs : /\ Governs(d, adrs[d])' = Governs(d, adrs[d])
                             /\ Supersedes(d, adrs[d])' = Supersedes(d, adrs[d])
  BY DEF Governs, Supersedes
<1>3. GraphInv'
  BY <1>1 DEF IngestInv, GraphInv
<1>4. AdrsDone => AdrsDone'
  BY <1>1, <1>2 DEF AdrsDone, Relinked
<1> QED BY <1>1, <1>2, <1>3, <1>4

LEMMA ReadCodeStep ==
  ASSUME IngestInv, ReadCode
  PROVE  IngestInv'
<1>1. /\ pc = "gone" /\ todo = {} /\ index' = code /\ prose = NoFiles
      /\ UNCHANGED <<graph, adrs, prose, texts, job>>
      /\ \/ pc' = "commits" /\ todo' = {} /\ DOMAIN adrs = {} /\ ~HasDocGlobs
         \/ pc' = "upsert" /\ todo' = DOMAIN adrs
  BY DEF ReadCode, Goto, IngestInv, PassInv
<1>2. DocPaths' = DocPaths /\ decisions \subseteq DOMAIN adrs /\ DOMAIN prose = {}
  BY <1>1, NoFilesAtAll DEF DocPaths, IngestInv, PassInv
<1>3. Shape'
  BY <1>1 DEF IngestInv, Shape
<1>4. GraphInv'
  BY <1>1, <1>2 DEF IngestInv, GraphInv
<1>5. PassInv'
  BY <1>1, <1>2 DEF IngestInv, GraphInv, PassInv, AdrsDone
<1> QED BY <1>3, <1>4, <1>5 DEF IngestInv

LEMMA EndRoundAStep ==
  ASSUME IngestInv, EndRoundA
  PROVE  IngestInv'
<1>1. /\ pc = "upsert" /\ todo = {} /\ pc' = "relink" /\ todo' = Superseding
      /\ UNCHANGED <<graph, adrs, prose, index, texts, job>>
  BY DEF EndRoundA, Goto
<1>2. Superseding \subseteq DOMAIN adrs /\ decisions = DOMAIN adrs /\ index = code
  BY <1>1 DEF Superseding, IngestInv, PassInv, Landed
<1>3. /\ \A d \in DOMAIN adrs : At(d) = Chunk(d, "adr", adrs[d])
      /\ \A d \in DOMAIN adrs \ Superseding : Relinked(d)
  BY <1>1 DEF IngestInv, PassInv, Landed, Relinked, Superseding
<1>4. Shape'
  BY <1>1, <1>2 DEF IngestInv, Shape
<1>5. /\ \A d \in todo' : At(d)' = Chunk(d, "adr", adrs[d])
      /\ \A d \in DOMAIN adrs \ todo' : Relinked(d)'
  BY <1>1, <1>2, <1>3, Onward DEF Relinked
<1>6. PassInv'
  BY <1>1, <1>2, <1>5 DEF IngestInv, PassInv
<1> QED BY <1>1, <1>4, <1>6, Onward DEF IngestInv

LEMMA DiscoverDocsStep ==
  ASSUME IngestInv, DiscoverDocs
  PROVE  IngestInv'
<1> DEFINE files == Found("doc") \ DOMAIN adrs
<1>1. /\ pc = "relink" /\ todo = {} /\ UNCHANGED <<graph, adrs, index, texts, job>>
      /\ \/ HasDocGlobs /\ prose' = Read(files) /\ pc' = "docsGone" /\ todo' = DocPaths \ DOMAIN prose'
         \/ ~HasDocGlobs /\ prose' = NoFiles /\ pc' = "commits" /\ todo' = {}
  BY DEF DiscoverDocs, Goto
<1>2. AdrsDone /\ index = code
  BY <1>1 DEF IngestInv, PassInv, AdrsDone
<1>3. DocPaths \subseteq Docs \ decisions /\ (~HasDocGlobs => DocPaths = {})
  BY DEF DocPaths, IngestInv, GraphInv
<1>4. DOMAIN prose' \subseteq Docs \ DOMAIN adrs /\ \A d \in DOMAIN prose' : prose'[d] # Blank
  <2>1. CASE HasDocGlobs
    <3>1. DOMAIN prose' = files /\ \A d \in files : prose'[d] = texts[d]
      BY <1>1, <2>1, Reading
    <3>2. \A d \in files : texts[d] # Blank
      BY TextsAssumption DEF Found, IngestInv, Shape
    <3> QED BY <3>1, <3>2 DEF Found
  <2>2. CASE ~HasDocGlobs
    BY <1>1, <2>2, NoFilesAtAll
  <2> QED BY <2>1, <2>2
<1>5. Shape'
  BY <1>1, <1>3, <1>4 DEF IngestInv, Shape
<1>6. DOMAIN NoFiles = {}
  BY NoFilesAtAll
<1>7. PassInv'
  BY <1>1, <1>2, <1>3, <1>6, Onward DEF PassInv
<1> QED BY <1>1, <1>5, <1>7, Onward DEF IngestInv

LEMMA DropDocStep ==
  ASSUME IngestInv, NEW d \in Docs, DropDoc(d)
  PROVE  IngestInv'
<1>1. /\ pc = "docsGone" /\ pc' = pc /\ d \in todo /\ todo' = todo \ {d} /\ DeleteFile(d)
      /\ UNCHANGED <<adrs, prose, index, texts, job>>
  BY DEF DropDoc, Handle
<1>2. d \notin decisions /\ decisions = DOMAIN adrs /\ AdrsDone /\ index = code /\ HasDocGlobs
  BY <1>1 DEF IngestInv, PassInv, AdrsDone
<1>3. /\ GraphInv' /\ decisions' = decisions /\ code' = code /\ DocPaths' = DocPaths \ {d}
      /\ \A e : e # d => At(e)' = At(e) /\ Owned(e)' = Owned(e)
  BY <1>1, <1>2, Deleting DEF IngestInv
<1>4. Shape'
  BY <1>1, <1>3 DEF IngestInv, Shape
<1>5. \A e \in DOMAIN adrs : /\ Governs(e, adrs[e])' = Governs(e, adrs[e])
                             /\ Supersedes(e, adrs[e])' = Supersedes(e, adrs[e])
  BY <1>1 DEF Governs, Supersedes
<1>6. AdrsDone'
  BY <1>1, <1>2, <1>3, <1>5 DEF AdrsDone, Relinked
<1>7. PassInv'
  BY <1>1, <1>2, <1>3, <1>6 DEF IngestInv, PassInv
<1> QED BY <1>3, <1>4, <1>7 DEF IngestInv

LEMMA BeginDocsStep ==
  ASSUME IngestInv, BeginDocs
  PROVE  IngestInv'
<1>1. /\ pc = "docsGone" /\ todo = {} /\ pc' = "docs"
      /\ todo' = {d \in DOMAIN prose : prose[d] # Blank}
      /\ UNCHANGED <<graph, adrs, prose, index, texts, job>>
  BY DEF BeginDocs, Goto
<1>2. todo' = DOMAIN prose
  BY <1>1 DEF IngestInv, Shape
<1>3. Shape'
  BY <1>1, <1>2 DEF IngestInv, Shape
<1>4. PassInv'
  BY <1>1, <1>2, Onward DEF IngestInv, PassInv
<1> QED BY <1>1, <1>3, <1>4, Onward DEF IngestInv

LEMMA UpsertDocStep ==
  ASSUME IngestInv, NEW d \in Docs, UpsertDoc(d)
  PROVE  IngestInv'
<1> DEFINE new == Describes(d, prose[d])
<1>1. /\ pc = "docs" /\ pc' = pc /\ d \in todo /\ todo' = todo \ {d}
      /\ chunks' = {c \in chunks : c.doc # d} \union Chunk(d, "doc", prose[d])
      /\ links' = (links \ Owned(d)) \union new
      /\ UNCHANGED <<code, decisions, adrs, prose, index, texts, job>>
  BY DEF UpsertDoc, InTurn, Handle, UpsertedLinks, ChunksBut
<1>2. /\ d \in DOMAIN prose /\ d \notin decisions /\ prose[d] # Blank /\ AdrsDone /\ index = code
      /\ decisions = DOMAIN adrs /\ HasDocGlobs /\ d \notin DOMAIN adrs
  BY <1>1 DEF IngestInv, Shape, PassInv, AdrsDone
<1>3. /\ \A c \in Chunk(d, "doc", prose[d]) : c.doc = d /\ c.source = "doc"
      /\ [doc |-> d, source |-> "doc", text |-> prose[d]] \in Chunk(d, "doc", prose[d])
  BY <1>2, ChunksOut
<1>4. DocPaths' = DocPaths \union {d}
  BY <1>1, <1>3 DEF DocPaths
<1>5. \A l \in new : l.src = d /\ l.by = "parsed" /\ l.dst \in code
  BY <1>2, LinksOut DEF IngestInv
<1>6. GraphInv'
  BY <1>1, <1>2, <1>3, <1>4, <1>5 DEF IngestInv, GraphInv
<1>7. /\ At(d)' = Chunk(d, "doc", prose[d]) /\ Owned(d)' = new
      /\ \A e : e # d => At(e)' = At(e) /\ Owned(e)' = Owned(e)
  BY <1>1, <1>3, <1>5 DEF At, Owned
<1>8. /\ \A e \in DOMAIN adrs : /\ Governs(e, adrs[e])' = Governs(e, adrs[e])
                                /\ Supersedes(e, adrs[e])' = Supersedes(e, adrs[e])
      /\ \A e \in DOMAIN prose : Describes(e, prose[e])' = Describes(e, prose[e])
  BY <1>1 DEF Governs, Supersedes, Describes
<1>9. AdrsDone' /\ \A e \in DOMAIN prose \ todo' : Told(e)'
  BY <1>1, <1>2, <1>7, <1>8 DEF IngestInv, PassInv, AdrsDone, Relinked, Told
<1>10. Shape'
  BY <1>1 DEF IngestInv, Shape
<1>11. PassInv'
  BY <1>1, <1>2, <1>4, <1>9 DEF IngestInv, PassInv
<1> QED BY <1>6, <1>10, <1>11 DEF IngestInv

LEMMA LastSteps ==
  ASSUME IngestInv, EndDocs \/ AddCommits
  PROVE  IngestInv'
<1>1. /\ UNCHANGED <<code, decisions, chunks, links, adrs, prose, index, texts, job>>
      /\ \/ pc = "docs" /\ todo = {} /\ pc' = "commits" /\ todo' = {}
         \/ pc = "commits" /\ pc' = "done" /\ todo' = todo
  BY DEF EndDocs, AddCommits, Goto
<1>2. \A d \in DOMAIN prose : Describes(d, prose[d])' = Describes(d, prose[d])
  BY <1>1 DEF Describes
<1>3. \A d \in DOMAIN prose : Told(d)'
  BY <1>1, <1>2, Onward DEF IngestInv, PassInv, Told
<1>4. Shape'
  BY <1>1 DEF IngestInv, Shape
<1>5. PassInv'
  BY <1>1, <1>3, Onward DEF IngestInv, PassInv
<1> QED BY <1>1, <1>4, <1>5, Onward DEF IngestInv

LEMMA Ending ==
  ASSUME IngestInv, End \/ Crash
  PROVE  IngestInv'
<1>1. /\ UNCHANGED <<code, decisions, chunks, links, texts, job>>
      /\ pc' = "idle" /\ adrs' = NoFiles /\ prose' = NoFiles /\ todo' \subseteq todo
  BY DEF End, Crash
<1>2. DocPaths' = DocPaths
  BY <1>1 DEF DocPaths
<1>3. Shape' /\ GraphInv' /\ PassInv'
  BY <1>1, <1>2, NoFilesAtAll DEF IngestInv, Shape, GraphInv, PassInv
<1> QED BY <1>3 DEF IngestInv

LEMMA InferenceSteps ==
  ASSUME IngestInv, ~Overlap, BeginInference \/ InferenceStep
  PROVE  IngestInv'
<1>1. /\ UNCHANGED <<code, decisions, chunks, texts, pass>> /\ pc = "idle"
      /\ \A l \in job'.found : l.by = "llm"
      /\ \A l \in links' : l \in links \/ (l.by = "llm" /\ l.dst \in code)
  <2>1. CASE BeginInference
    <3>1. PICK considered \in (SUBSET Ungoverned) \ {{}} : \E found \in Matches(considered) :
            job' = [pc |-> "clear", targets |-> considered, found |-> found]
      BY <2>1 DEF BeginInference
    <3>2. job'.found \in Matches(considered)
      BY <3>1
    <3>3. PICK i \in code, matched \in SUBSET considered : job'.found = {Link(d, i, "GOVERNS", "llm") : d \in matched}
      BY <3>2 DEF Matches
    <3>4. \A l \in job'.found : l.by = "llm"
      BY <3>3 DEF Link
    <3> QED BY <2>1, <3>4 DEF BeginInference
  <2>2. CASE ClearInferred
    <3>1. job.pc = "clear" /\ job # Resting
      BY <2>2 DEF ClearInferred, Resting
    <3>2. job' = [job EXCEPT !.pc = "add"] /\ links' \subseteq links
          /\ UNCHANGED <<code, decisions, chunks, texts, pass>>
      BY <2>2 DEF ClearInferred
    <3>3. job'.found = job.found
      BY <3>2, <2>2 DEF ClearInferred
    <3> QED BY <3>1, <3>2, <3>3 DEF IngestInv, Shape
  <2>3. CASE AddInferred
    <3>1. job.pc = "add" /\ job # Resting
      BY <2>3 DEF AddInferred, Resting
    <3>2. job'.found = {}
      BY <2>3 DEF AddInferred, Resting
    <3>3. /\ links' = links \union {l \in job.found : l.src \in decisions /\ l.dst \in code}
          /\ UNCHANGED <<code, decisions, chunks, texts, pass>>
      BY <2>3 DEF AddInferred
    <3> QED BY <3>1, <3>2, <3>3 DEF IngestInv, Shape
  <2> QED BY <2>1, <2>2, <2>3 DEF InferenceStep
<1>2. DocPaths' = DocPaths
  BY <1>1 DEF DocPaths
<1>3. Shape' /\ GraphInv' /\ PassInv'
  BY <1>1, <1>2 DEF IngestInv, Shape, GraphInv, PassInv
<1> QED BY <1>3 DEF IngestInv

LEMMA IngestStep ==
  ASSUME IngestInv, ~Overlap, ~Emptied, [Next]_vars
  PROVE  IngestInv'
<1>1. CASE UNCHANGED vars
  <2>1. UNCHANGED <<code, decisions, chunks, links, job, texts, adrs, index, prose, pc, todo>>
    BY <1>1
  <2>2. Shape' /\ GraphInv' /\ PassInv'
    BY <2>1 DEF IngestInv, Shape, GraphInv, PassInv, DocPaths, Landed, Relinked, Told, AdrsDone, At,
                Owned, Governs, Supersedes, Describes
  <2> QED BY <2>2 DEF IngestInv
<1>2. CASE Next
  BY <1>2, UserSteps, BeginStep, DropDecisionStep, UpsertDecisionStep, UpsertAgainStep, ReadCodeStep,
     EndRoundAStep, DiscoverDocsStep, DropDocStep, BeginDocsStep, UpsertDocStep, LastSteps, Ending,
     InferenceSteps DEF Next, PassStep
<1> QED BY <1>1, <1>2

(***************************************************************************)
(* What a first pass finds is said in another way.                         *)
(***************************************************************************)
LEMMA SameLinks ==
  ASSUME Shape, index = code, NEW d, NEW t
  PROVE  Governs(d, t) = LinkTo(d, t, "GOVERNS") /\ Describes(d, t) = LinkTo(d, t, "DESCRIBES")
<1>1. ASSUME NEW i \in index PROVE Cardinality(Named(NameOf[i], index)) = 1 <=> OnlyOne(NameOf[i])
  <2> DEFINE same == Named(NameOf[i], index)
  <2>1. same \in SUBSET Code /\ IsFiniteSet(Code) /\ same \subseteq index
    BY CodeAssumption DEF Named, Shape
  <2>2. IsFiniteSet(same)
    BY <2>1, FS_Subset
  <2>3. Cardinality(same) = 1 <=> \E j : same = {j}
    BY <2>2, FS_Singleton
  <2> QED BY <2>1, <2>3 DEF OnlyOne
<1>2. Resolve(t.mentions, index) = {j \in index : NameOf[j] \in t.mentions /\ OnlyOne(NameOf[j])}
  BY <1>1 DEF Resolve
<1> QED BY <1>2 DEF Governs, Describes, LinkTo

LEMMA DoneIsFresh ==
  ASSUME IngestInv
  PROVE  EqualsFresh
<1> SUFFICES ASSUME pc = "done" PROVE Facts = Fresh
  BY DEF EqualsFresh
<1>1. /\ AdrsDone /\ index = code /\ DocPaths \subseteq DOMAIN prose
      /\ \A d \in DOMAIN prose : Told(d)
  BY DEF IngestInv, PassInv
<1>2. Facts.decisions = Fresh.decisions
  BY <1>1 DEF Facts, Fresh, AdrsDone
<1>3. Facts.chunks = Fresh.chunks
  <2>1. ASSUME NEW c \in chunks
        PROVE  c \in (UNION {Chunk(d, "adr", adrs[d]) : d \in DOMAIN adrs})
                       \union (UNION {Chunk(d, "doc", prose[d]) : d \in DOMAIN prose})
    <3>1. CASE c.source = "adr"
      BY <1>1, <3>1 DEF IngestInv, GraphInv, AdrsDone, Relinked, At
    <3>2. CASE c.source = "doc"
      <4>1. c.doc \in DOMAIN prose
        BY <1>1, <3>2 DEF DocPaths
      <4> QED BY <1>1, <4>1 DEF Told, At
    <3> QED BY <3>1, <3>2 DEF IngestInv, GraphInv
  <2>2. /\ \A d \in DOMAIN adrs : Chunk(d, "adr", adrs[d]) \subseteq chunks
        /\ \A d \in DOMAIN prose : Chunk(d, "doc", prose[d]) \subseteq chunks
    BY <1>1 DEF AdrsDone, Relinked, Told, At
  <2> QED BY <2>1, <2>2 DEF Facts, Fresh
<1>4. Facts.links = Fresh.links
  <2> DEFINE ofAdr(d) == Governs(d, adrs[d]) \union Supersedes(d, adrs[d])
             ofDoc(d) == Describes(d, prose[d])
  <2>1. ASSUME NEW l \in links, l.by = "parsed"
        PROVE  l \in (UNION {ofAdr(d) : d \in DOMAIN adrs}) \union (UNION {ofDoc(d) : d \in DOMAIN prose})
    <3>1. l \in Owned(l.src) /\ (l.src \in DOMAIN adrs \/ l.src \in DOMAIN prose)
      BY <1>1, <2>1 DEF IngestInv, GraphInv, AdrsDone, Owned
    <3> QED BY <1>1, <3>1 DEF AdrsDone, Relinked, Told
  <2>2. /\ \A d \in DOMAIN adrs : ofAdr(d) \subseteq {l \in links : l.by = "parsed"}
        /\ \A d \in DOMAIN prose : ofDoc(d) \subseteq {l \in links : l.by = "parsed"}
    BY <1>1 DEF AdrsDone, Relinked, Told, Owned
  <2>3. {l \in links : l.by = "parsed"} =
          (UNION {ofAdr(d) : d \in DOMAIN adrs}) \union (UNION {ofDoc(d) : d \in DOMAIN prose})
    BY <2>1, <2>2
  <2>4. /\ \A d \in DOMAIN adrs : ofAdr(d) = LinkTo(d, adrs[d], "GOVERNS") \union Supersedes(d, adrs[d])
        /\ \A d \in DOMAIN prose : ofDoc(d) = LinkTo(d, prose[d], "DESCRIBES")
    BY <1>1, SameLinks DEF IngestInv
  <2> QED BY <2>3, <2>4 DEF Facts, Fresh
<1> QED BY <1>2, <1>3, <1>4 DEF Facts, Fresh

\* A knowledge pass that comes to its end (codegraph.py _ingest_knowledge) leaves what a first
\* pass over an empty graph would leave, whatever was edited, deleted, renumbered or moved
\* between the globs, at whichever transactions earlier passes were killed, and however the
\* code has changed, for every set of files and every history: if no inference is under way
\* during a pass and no document loses all its text.
THEOREM PassEqualsFresh ==
  ASSUME ~Overlap, ~Emptied
  PROVE  Spec => []EqualsFresh
<1>1. Init => IngestInv
  BY InitOk
<1>2. IngestInv /\ [Next]_vars => IngestInv'
  BY IngestStep
<1>3. IngestInv => EqualsFresh
  BY DoneIsFresh
<1> QED BY <1>1, <1>2, <1>3, PTL DEF Spec

(***************************************************************************)
(* The commits of the window.                                              *)
(***************************************************************************)
LEMMA CommitsStep ==
  ASSUME CommitsRecorded, [Next]_vars
  PROVE  CommitsRecorded'
<1>1. CASE AddCommits
  <2>1. recorded' = recorded \union {c \in Window \ recorded : Telling(c)} /\ UNCHANGED <<code, made>>
    BY <1>1 DEF AddCommits, NewCommits
  <2>2. Window' = Window /\ \A c : Telling(c)' = Telling(c)
    BY <2>1 DEF Window, Telling
  <2> QED BY <2>1, <2>2 DEF CommitsRecorded
<1>2. CASE pc' = "done" /\ ~AddCommits
  <2>1. pc = "done" /\ UNCHANGED <<code, made, recorded>>
    BY <1>2 DEF Next, PassStep, Edit, Reglob, CommitSubject, Begin, DropDecision, UpsertDecision, UpsertAgain,
                Land, DropDoc, UpsertDoc, DeleteFile, ReadCode, EndRoundA, DiscoverDocs, BeginDocs, EndDocs,
                End, Crash, BeginInference, InferenceStep, ClearInferred, AddInferred, Goto
  <2>2. Window' = Window /\ \A c : Telling(c)' = Telling(c)
    BY <2>1 DEF Window, Telling
  <2> QED BY <2>1, <2>2 DEF CommitsRecorded
<1>3. CASE pc' # "done"
  BY <1>3 DEF CommitsRecorded
<1> QED BY <1>1, <1>2, <1>3

\* A pass that comes to its end has recorded every commit within the window that says something
\* about a file it knows, also one it skipped while the file was unknown (knowledge/commits.py),
\* for every history and every limit, whatever was killed or inferred meanwhile.
THEOREM NoCommitMissed == Spec => []CommitsRecorded
<1>1. Init => CommitsRecorded
  BY DEF Init, CommitsRecorded
<1>2. CommitsRecorded /\ [Next]_vars => CommitsRecorded'
  BY CommitsStep
<1> QED BY <1>1, <1>2, PTL DEF Spec
=============================================================================
