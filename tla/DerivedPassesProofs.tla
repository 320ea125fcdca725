------------------------ MODULE DerivedPassesProofs -------------------------
(***************************************************************************)
(* The passes under a budget take an id out of the dirty set only with its *)
(* work done, what embed takes for unchanged is current, and what is stale *)
(* is marked: for every repository, every budget and every order of runs   *)
(* and failures, as long as commands do not overlap.                       *)
(***************************************************************************)
EXTENDS DerivedPasses, TLAPS

USE DEF vars, graph, index, side, count, Consumers

Typing ==
  /\ dirty \in [Consumers -> SUBSET Symbols]
  /\ tags = [s \in Symbols |-> tags[s]]
  /\ summaries = [f \in Files |-> summaries[f]]
  /\ jobs = [c \in Commands |-> jobs[c]]

OneAtATime == \A c, d \in Commands : jobs[c] # Idle /\ jobs[d] # Idle => c = d

Tagged(s) == code[PathOf[s]] # NoFile => tags[s] = code[PathOf[s]]

\* What a job has in its hands is what is on disk, but for a refresh that has marked its
\* ids; what a pass has read is what the graph has; what it is about to mark is done.
JobOk(c) ==
  /\ {"pc", "held"} \subseteq DOMAIN jobs[c]
  /\ jobs[c].held = dirty \/ (c = "refresh" /\ jobs[c].pc = "save")
  /\ c \in {"enrich", "summarize"} =>
       {"read", "done", "ids"} \subseteq DOMAIN jobs[c] /\ jobs[c].read = code
  /\ c = "enrich" /\ jobs[c].pc = "clean" => \A s \in jobs[c].done \intersect Symbols : Tagged(s)
  /\ c = "summarize" /\ jobs[c].pc \in {"vectors", "clean"} =>
       \A f \in jobs[c].done \intersect Files : summaries[f] = code[f]

DoneInv == Typing /\ OneAtATime /\ \A c \in Commands : jobs[c] = Idle \/ JobOk(c)

\* What a step takes out of the dirty set.
Cleans ==
  \A s \in Symbols : code[PathOf[s]] # NoFile =>
    /\ s \in dirty["patterns"] \ dirty'["patterns"] => tags[s] = code[PathOf[s]]
    /\ s \in dirty["summaries"] \ dirty'["summaries"] => summaries[PathOf[s]] = code[PathOf[s]]

LEMMA Busy == ASSUME NEW c, NEW pc, pc # "idle", At(c, pc) PROVE c \in Commands /\ jobs[c] # Idle
  BY DEF At, Idle

LEMMA Alone ==
  ASSUME DoneInv, NEW c \in Commands, ~Overlap, jobs[c] # Idle \/ Free(c)
  PROVE  /\ \A d \in Commands : d # c => jobs[d] = Idle
         /\ jobs[c] # Idle => JobOk(c)
  BY DEF DoneInv, OneAtATime, Free

\* One job takes a step, or ends, and the others are idle.
LEMMA OneJob ==
  ASSUME NEW c \in Commands, \A d \in Commands : d # c => jobs[d] = Idle, Typing,
         NEW j, jobs' = [jobs EXCEPT ![c] = j],
         j = Idle \/ JobOk(c)', dirty' \in [Consumers -> SUBSET Symbols],
         tags' = [s \in Symbols |-> tags'[s]], summaries' = [f \in Files |-> summaries'[f]]
  PROVE  DoneInv'
<1>1. /\ jobs' = [d \in Commands |-> jobs'[d]] /\ jobs'[c] = j
      /\ \A d \in Commands : d # c => jobs'[d] = Idle
  BY DEF Typing
<1>2. Idle' = Idle
  BY DEF Idle
<1> QED BY <1>1, <1>2 DEF DoneInv, OneAtATime, Typing

\* A job goes on to another place with the same things in its hands.
LEMMA Moves ==
  ASSUME NEW c \in Commands, Typing, {"pc", "held"} \subseteq DOMAIN jobs[c], NEW pc, Goto(c, pc)
  PROVE  /\ jobs' = [jobs EXCEPT ![c] = [jobs[c] EXCEPT !.pc = pc]]
         /\ DOMAIN jobs'[c] = DOMAIN jobs[c] /\ jobs'[c].pc = pc
         /\ jobs'[c].held = jobs[c].held
         /\ \A k \in DOMAIN jobs[c] : k # "pc" => jobs'[c][k] = jobs[c][k]
  BY DEF Goto, Typing

LEMMA RefreshKeeps ==
  ASSUME DoneInv, ~Overlap, Refresh
  PROVE  DoneInv' /\ Cleans
<1>1. CASE RefreshGraph
  <2>1. /\ "refresh" \in Commands /\ jobs["refresh"] = Idle
        /\ \A d \in Commands : d # "refresh" => jobs[d] = Idle
    BY <1>1, Alone DEF RefreshGraph, Free
  <2>2. /\ jobs' = [jobs EXCEPT !["refresh"] = [pc |-> "dirty", held |-> dirty]]
        /\ UNCHANGED <<dirty, summaries>> /\ tags' = [s \in Symbols |-> tags'[s]]
    BY <1>1 DEF RefreshGraph
  <2>3. JobOk("refresh")'
    <3>1. jobs'["refresh"] = [pc |-> "dirty", held |-> dirty]
      BY <2>1, <2>2 DEF DoneInv, Typing
    <3> QED BY <2>2, <3>1 DEF JobOk
  <2>4. DoneInv'
    BY <2>1, <2>2, <2>3, OneJob DEF DoneInv, Typing
  <2> QED BY <2>2, <2>4 DEF Cleans
<1>2. CASE RefreshDirty
  <2>1. /\ "refresh" \in Commands /\ jobs["refresh"].pc = "dirty" /\ JobOk("refresh")
        /\ \A d \in Commands : d # "refresh" => jobs[d] = Idle
    BY <1>2, Busy, Alone DEF RefreshDirty, At
  <2>2. dirty' = [c \in Consumers |-> dirty[c] \union ChangedSymbols]
    BY <1>2, <2>1 DEF RefreshDirty, Added, JobOk
  <2>3. dirty' \in [Consumers -> SUBSET Symbols]
    BY <2>2 DEF DoneInv, Typing, ChangedSymbols, SymbolsIn
  <2>4. UNCHANGED <<tags, summaries, code>> /\ Goto("refresh", "save")
    BY <1>2 DEF RefreshDirty
  <2>5. /\ jobs' = [jobs EXCEPT !["refresh"] = [jobs["refresh"] EXCEPT !.pc = "save"]]
        /\ DOMAIN jobs'["refresh"] = DOMAIN jobs["refresh"] /\ jobs'["refresh"].pc = "save"
    BY <2>1, <2>4, Moves DEF JobOk, DoneInv
  <2>6. JobOk("refresh")'
    BY <2>1, <2>5 DEF JobOk
  <2>7. DoneInv'
    BY <2>1, <2>3, <2>4, <2>5, <2>6, OneJob DEF DoneInv, Typing
  <2> QED BY <2>2, <2>7 DEF Cleans
<1>3. CASE RefreshSave
  <2>1. /\ "refresh" \in Commands
        /\ \A d \in Commands : d # "refresh" => jobs[d] = Idle
    BY <1>3, Busy, Alone DEF RefreshSave
  <2>2. UNCHANGED <<tags, summaries, dirty>> /\ jobs' = [jobs EXCEPT !["refresh"] = Idle]
    BY <1>3 DEF RefreshSave, End
  <2>3. DoneInv'
    BY <2>1, <2>2, OneJob DEF DoneInv, Typing
  <2> QED BY <2>2, <2>3 DEF Cleans
<1> QED BY <1>1, <1>2, <1>3 DEF Refresh

\* An embedding holds on to the dirty set it has read.
LEMMA EmbedGoesOn ==
  ASSUME DoneInv, ~Overlap, "embed" \in Commands, jobs["embed"] # Idle,
         jobs' = [jobs EXCEPT !["embed"] = jobs'["embed"]],
         {"pc", "held"} \subseteq DOMAIN jobs'["embed"], jobs'["embed"].held = jobs["embed"].held,
         UNCHANGED <<code, tags, summaries, dirty>>
  PROVE  DoneInv' /\ Cleans
<1>1. JobOk("embed") /\ \A d \in Commands : d # "embed" => jobs[d] = Idle
  BY Alone
<1>2. JobOk("embed")'
  BY <1>1 DEF JobOk
<1>3. DoneInv'
  BY <1>1, <1>2, OneJob DEF DoneInv, Typing
<1> QED BY <1>3 DEF Cleans

LEMMA EmbedKeeps ==
  ASSUME DoneInv, ~Overlap, Embed
  PROVE  DoneInv' /\ Cleans
<1>1. ASSUME NEW onlyDirty, StartEmbed(onlyDirty) PROVE DoneInv' /\ Cleans
  <2>1. "embed" \in Commands /\ \A d \in Commands : d # "embed" => jobs[d] = Idle
    BY <1>1, Alone DEF StartEmbed, Free
  <2>2. PICK ids, todo : jobs' = [jobs EXCEPT !["embed"] =
          [pc |-> "file", held |-> dirty, ids |-> ids, only |-> onlyDirty,
           todo |-> todo \intersect Indexed, at |-> NoFile, text |-> None, visited |-> {}]]
    BY <1>1 DEF StartEmbed
  <2>3. UNCHANGED <<tags, summaries, dirty>>
    BY <1>1 DEF StartEmbed
  <2>4. JobOk("embed")'
    <3>1. jobs'["embed"] = [pc |-> "file", held |-> dirty, ids |-> ids, only |-> onlyDirty,
                            todo |-> todo \intersect Indexed, at |-> NoFile, text |-> None, visited |-> {}]
      BY <2>1, <2>2 DEF DoneInv, Typing
    <3> QED BY <2>3, <3>1 DEF JobOk
  <2>5. DoneInv'
    BY <2>1, <2>2, <2>3, <2>4, OneJob DEF DoneInv, Typing
  <2> QED BY <2>3, <2>5 DEF Cleans
<1>2. ASSUME "embed" \in Commands, jobs["embed"] # Idle, NEW pc, Goto("embed", pc),
             UNCHANGED <<code, tags, summaries, dirty>>
      PROVE  DoneInv' /\ Cleans
  <2>1. {"pc", "held"} \subseteq DOMAIN jobs["embed"] /\ Typing
    BY <1>2, Alone DEF JobOk, DoneInv
  <2>2. /\ jobs' = [jobs EXCEPT !["embed"] = [jobs["embed"] EXCEPT !.pc = pc]]
        /\ DOMAIN jobs'["embed"] = DOMAIN jobs["embed"] /\ jobs'["embed"].held = jobs["embed"].held
    BY <1>2, <2>1, Moves
  <2>3. jobs' = [jobs EXCEPT !["embed"] = jobs'["embed"]]
    BY <1>2, <2>1, <2>2 DEF Typing
  <2> QED BY <1>2, <2>1, <2>2, <2>3, EmbedGoesOn
<1>3. CASE EmbedFile
  <2>1. "embed" \in Commands /\ jobs["embed"] # Idle
    BY <1>3, Busy DEF EmbedFile
  <2>2. {"pc", "held"} \subseteq DOMAIN jobs["embed"] /\ Typing
    BY <2>1, Alone DEF JobOk, DoneInv
  <2>3. PICK f :
          \/ jobs' = [jobs EXCEPT !["embed"].todo = @ \ {f}, !["embed"].visited = @ \union {f}]
          \/ jobs' = [jobs EXCEPT !["embed"].pc = "replace", !["embed"].at = f,
                                   !["embed"].text = code[f], !["embed"].todo = @ \ {f}]
    BY <1>3 DEF EmbedFile
  <2>4. /\ DOMAIN jobs'["embed"] = DOMAIN jobs["embed"] /\ jobs'["embed"].held = jobs["embed"].held
        /\ jobs' = [jobs EXCEPT !["embed"] = jobs'["embed"]]
    BY <2>1, <2>2, <2>3 DEF Typing
  <2>5. UNCHANGED <<code, tags, summaries, dirty>>
    BY <1>3 DEF EmbedFile
  <2> QED BY <2>1, <2>2, <2>4, <2>5, EmbedGoesOn
<1>4. CASE UpsertVectors
  <2>1. "embed" \in Commands /\ jobs["embed"] # Idle
    BY <1>4, Busy DEF UpsertVectors
  <2>2. {"pc", "held"} \subseteq DOMAIN jobs["embed"] /\ Typing
    BY <2>1, Alone DEF JobOk, DoneInv
  <2>3. PICK f : jobs' = [jobs EXCEPT !["embed"].pc = "file", !["embed"].text = None,
                                        !["embed"].visited = @ \union {f}]
    BY <1>4 DEF UpsertVectors
  <2>4. /\ DOMAIN jobs'["embed"] = DOMAIN jobs["embed"] /\ jobs'["embed"].held = jobs["embed"].held
        /\ jobs' = [jobs EXCEPT !["embed"] = jobs'["embed"]]
    BY <2>1, <2>2, <2>3 DEF Typing
  <2>5. UNCHANGED <<code, tags, summaries, dirty>>
    BY <1>4 DEF UpsertVectors
  <2> QED BY <2>1, <2>2, <2>4, <2>5, EmbedGoesOn
<1>5. CASE DeleteVectors \/ EmbedDocs \/ UpsertDocs \/ WriteFingerprint
  <2>1. "embed" \in Commands /\ jobs["embed"] # Idle
    BY <1>5, Busy DEF DeleteVectors, EmbedDocs, UpsertDocs, WriteFingerprint
  <2>2. /\ UNCHANGED <<code, tags, summaries, dirty>>
        /\ \E pc : Goto("embed", pc)
    BY <1>5 DEF DeleteVectors, EmbedDocs, UpsertDocs, WriteFingerprint
  <2> QED BY <1>2, <2>1, <2>2
<1>6. CASE CleanEmbedded
  <2>1. /\ "embed" \in Commands /\ JobOk("embed")
        /\ \A d \in Commands : d # "embed" => jobs[d] = Idle
    BY <1>6, Busy, Alone DEF CleanEmbedded
  <2>2. /\ jobs' = [jobs EXCEPT !["embed"] = Idle] /\ UNCHANGED <<tags, summaries>>
        /\ dirty' = dirty \/ dirty' = [dirty EXCEPT !["embeddings"] = @ \ jobs["embed"].ids]
    BY <1>6, <2>1 DEF CleanEmbedded, End, Cleaned, JobOk
  <2>3. /\ dirty' \in [Consumers -> SUBSET Symbols]
        /\ dirty'["patterns"] = dirty["patterns"] /\ dirty'["summaries"] = dirty["summaries"]
    BY <2>2 DEF DoneInv, Typing
  <2>4. DoneInv'
    BY <2>1, <2>2, <2>3, OneJob DEF DoneInv, Typing
  <2> QED BY <2>3, <2>4 DEF Cleans
<1> QED BY <1>1, <1>3, <1>4, <1>5, <1>6 DEF Embed

(***************************************************************************)
(* The passes under a budget.                                              *)
(***************************************************************************)
Hands == {"pc", "held", "read", "done", "ids"}

\* A pass that starts has read the graph and the dirty set.
LEMMA WorkStarts ==
  ASSUME DoneInv, ~Overlap, NEW c \in {"enrich", "summarize"}, Free(c),
         NEW ids, NEW todo, NEW budget, jobs' = [jobs EXCEPT ![c] = WorkingOn(ids, todo, budget)],
         UNCHANGED <<code, tags, summaries, dirty>>
  PROVE  DoneInv' /\ Cleans
<1>1. c \in Commands /\ \A d \in Commands : d # c => jobs[d] = Idle
  BY Alone DEF Free
<1>2. jobs'[c] = WorkingOn(ids, todo, budget)
  BY <1>1 DEF DoneInv, Typing
<1>3. JobOk(c)'
  BY <1>2 DEF JobOk, WorkingOn
<1>4. DoneInv'
  BY <1>1, <1>3, OneJob DEF DoneInv, Typing
<1> QED BY <1>4 DEF Cleans

\* A batch is judged, or a summary written: the lists change, what was read does not.
LEMMA WorkKeeps ==
  ASSUME DoneInv, ~Overlap, NEW c \in {"enrich", "summarize"}, Work(c)
  PROVE  DoneInv' /\ Cleans
<1>1. c \in Commands /\ jobs[c] # Idle /\ jobs[c].pc = "work"
  BY Busy DEF Work, At
<1>2. JobOk(c) /\ Typing /\ \A d \in Commands : d # c => jobs[d] = Idle
  BY <1>1, Alone DEF DoneInv
<1>3. PICK todo, done, spent : jobs' = [jobs EXCEPT ![c].todo = todo, ![c].done = done, ![c].spent = spent]
  BY DEF Work
<1>4. Hands \subseteq DOMAIN jobs[c]
  BY <1>2 DEF JobOk, Hands
<1>5. /\ DOMAIN jobs'[c] = DOMAIN jobs[c] /\ jobs'[c].pc = "work"
      /\ jobs'[c].held = jobs[c].held /\ jobs'[c].read = jobs[c].read
      /\ jobs' = [jobs EXCEPT ![c] = jobs'[c]]
  BY <1>1, <1>2, <1>3, <1>4 DEF Typing, Hands
<1>6. UNCHANGED <<code, tags, summaries, dirty>>
  BY DEF Work
<1>7. JobOk(c)'
  BY <1>1, <1>2, <1>4, <1>5, <1>6 DEF JobOk, Hands
<1>8. DoneInv'
  BY <1>1, <1>2, <1>5, <1>6, <1>7, OneJob DEF DoneInv, Typing
<1> QED BY <1>6, <1>8 DEF Cleans

\* A pass goes on with the same things in its hands; what it writes it owes for the place
\* it comes to.
LEMMA WorkMoves ==
  ASSUME DoneInv, ~Overlap, NEW c \in {"enrich", "summarize"}, c \in Commands, jobs[c] # Idle,
         NEW pc, Goto(c, pc), UNCHANGED <<code, dirty>>,
         tags' = [s \in Symbols |-> tags'[s]], summaries' = [f \in Files |-> summaries'[f]],
         c = "enrich" /\ pc = "clean" => \A s \in jobs[c].done \intersect Symbols : Tagged(s)',
         c = "summarize" /\ pc \in {"vectors", "clean"} =>
           \A f \in jobs[c].done \intersect Files : summaries'[f] = code[f]
  PROVE  DoneInv' /\ Cleans
<1>1. JobOk(c) /\ Typing /\ \A d \in Commands : d # c => jobs[d] = Idle
  BY Alone DEF DoneInv
<1>2. Hands \subseteq DOMAIN jobs[c]
  BY <1>1 DEF JobOk, Hands
<1>3. /\ jobs' = [jobs EXCEPT ![c] = [jobs[c] EXCEPT !.pc = pc]]
      /\ DOMAIN jobs'[c] = DOMAIN jobs[c] /\ jobs'[c].pc = pc
      /\ \A k \in DOMAIN jobs[c] : k # "pc" => jobs'[c][k] = jobs[c][k]
  BY <1>1, <1>2, Moves DEF Hands
<1>4. jobs'[c].held = jobs[c].held /\ jobs'[c].read = jobs[c].read /\ jobs'[c].done = jobs[c].done
  BY <1>2, <1>3 DEF Hands
<1>5. JobOk(c)'
  BY <1>1, <1>2, <1>3, <1>4 DEF JobOk, Hands
<1>6. jobs' = [jobs EXCEPT ![c] = jobs'[c]]
  BY <1>1, <1>3 DEF Typing
<1>7. DoneInv'
  BY <1>1, <1>5, <1>6, OneJob DEF DoneInv, Typing
<1> QED BY <1>7 DEF Cleans

LEMMA EnrichKeeps ==
  ASSUME DoneInv, ~Overlap, Enrich
  PROVE  DoneInv' /\ Cleans
<1>1. CASE StartEnrich
  <2>1. PICK ids, todo, budget : jobs' = [jobs EXCEPT !["enrich"] = WorkingOn(ids, todo, budget)]
    BY <1>1 DEF StartEnrich
  <2> QED BY <1>1, <2>1, WorkStarts DEF StartEnrich
<1>2. CASE Work("enrich")
  BY <1>2, WorkKeeps
<1>3. CASE ClearTags
  <2>1. "enrich" \in Commands /\ jobs["enrich"] # Idle
    BY <1>3, Busy DEF ClearTags, WorkEnded
  <2>2. /\ UNCHANGED <<code, dirty, summaries>> /\ Goto("enrich", "tag")
        /\ tags' = [s \in Symbols |-> tags'[s]]
    BY <1>3 DEF ClearTags
  <2>3. summaries' = [f \in Files |-> summaries'[f]]
    BY <2>2 DEF DoneInv, Typing
  <2> QED BY <2>1, <2>2, <2>3, WorkMoves
<1>4. CASE AddTags
  <2>1. "enrich" \in Commands /\ jobs["enrich"] # Idle
    BY <1>4, Busy DEF AddTags
  <2>2. jobs["enrich"].read = code
    BY <2>1, Alone DEF JobOk
  <2>3. /\ UNCHANGED <<code, dirty, summaries>> /\ Goto("enrich", "clean")
        /\ tags' = [s \in Symbols |-> IF s \in jobs["enrich"].done /\ PathOf[s] \in Indexed
                                      THEN code[PathOf[s]] ELSE tags[s]]
    BY <1>4, <2>2 DEF AddTags
  <2>4. \A s \in jobs["enrich"].done \intersect Symbols : Tagged(s)'
    BY <2>3, PathAssumption DEF Tagged, Indexed
  <2>5. tags' = [s \in Symbols |-> tags'[s]] /\ summaries' = [f \in Files |-> summaries'[f]]
    BY <2>3 DEF DoneInv, Typing
  <2> QED BY <2>1, <2>3, <2>4, <2>5, WorkMoves
<1>5. CASE CleanJudged
  <2>1. /\ "enrich" \in Commands /\ jobs["enrich"].pc = "clean" /\ JobOk("enrich")
        /\ \A d \in Commands : d # "enrich" => jobs[d] = Idle
    BY <1>5, Busy, Alone DEF CleanJudged, At
  <2>2. /\ jobs' = [jobs EXCEPT !["enrich"] = Idle] /\ UNCHANGED <<tags, summaries>>
        /\ dirty' = [dirty EXCEPT !["patterns"] = @ \ jobs["enrich"].done]
    BY <1>5, <2>1 DEF CleanJudged, End, Cleaned, JudgedIds, JobOk
  <2>3. /\ dirty' \in [Consumers -> SUBSET Symbols]
        /\ dirty["patterns"] \ dirty'["patterns"] \subseteq jobs["enrich"].done
        /\ dirty'["summaries"] = dirty["summaries"]
    BY <2>2 DEF DoneInv, Typing
  <2>4. DoneInv'
    BY <2>1, <2>2, <2>3, OneJob DEF DoneInv, Typing
  <2>5. Cleans
    BY <2>1, <2>3 DEF Cleans, JobOk, Tagged
  <2> QED BY <2>4, <2>5
<1> QED BY <1>1, <1>2, <1>3, <1>4, <1>5 DEF Enrich

LEMMA SummarizeKeeps ==
  ASSUME DoneInv, ~Overlap, Summarize
  PROVE  DoneInv' /\ Cleans
<1>0. tags = [s \in Symbols |-> tags[s]] /\ summaries = [f \in Files |-> summaries[f]]
  BY DEF DoneInv, Typing
<1>1. CASE StartSummarize
  <2>1. PICK ids, todo, budget : jobs' = [jobs EXCEPT !["summarize"] = WorkingOn(ids, todo, budget)]
    BY <1>1 DEF StartSummarize
  <2> QED BY <1>1, <2>1, WorkStarts DEF StartSummarize
<1>2. CASE Work("summarize")
  BY <1>2, WorkKeeps
<1>3. CASE SummarizeRepo
  <2>1. "summarize" \in Commands /\ jobs["summarize"] # Idle
    BY <1>3, Busy DEF SummarizeRepo
  <2>2. JobOk("summarize") /\ Typing /\ \A d \in Commands : d # "summarize" => jobs[d] = Idle
    BY <2>1, Alone DEF DoneInv
  <2>3. PICK spent : jobs' = [jobs EXCEPT !["summarize"].spent = spent, !["summarize"].pc = "write"]
    BY <1>3 DEF SummarizeRepo
  <2>4. Hands \subseteq DOMAIN jobs["summarize"]
    BY <2>2 DEF JobOk, Hands
  <2>5. /\ DOMAIN jobs'["summarize"] = DOMAIN jobs["summarize"] /\ jobs'["summarize"].pc = "write"
        /\ jobs'["summarize"].held = jobs["summarize"].held
        /\ jobs'["summarize"].read = jobs["summarize"].read
        /\ jobs' = [jobs EXCEPT !["summarize"] = jobs'["summarize"]]
    BY <2>1, <2>2, <2>3, <2>4 DEF Typing, Hands
  <2>6. UNCHANGED <<code, tags, summaries, dirty>>
    BY <1>3 DEF SummarizeRepo
  <2>7. JobOk("summarize")'
    BY <2>2, <2>4, <2>5, <2>6 DEF JobOk, Hands
  <2>8. DoneInv'
    BY <1>0, <2>1, <2>2, <2>5, <2>6, <2>7, OneJob DEF DoneInv, Typing
  <2> QED BY <2>6, <2>8 DEF Cleans
<1>4. CASE SkipRepo
  <2>1. "summarize" \in Commands /\ jobs["summarize"] # Idle
    BY <1>4, Busy DEF SkipRepo, WorkEnded
  <2>2. UNCHANGED <<code, dirty, summaries, tags>> /\ Goto("summarize", "write")
    BY <1>4 DEF SkipRepo
  <2> QED BY <1>0, <2>1, <2>2, WorkMoves
<1>5. CASE WriteSummaries
  <2>1. "summarize" \in Commands /\ jobs["summarize"] # Idle
    BY <1>5, Busy DEF WriteSummaries
  <2>2. jobs["summarize"].read = code
    BY <2>1, Alone DEF JobOk
  <2>3. /\ UNCHANGED <<code, dirty, tags>> /\ Goto("summarize", "vectors")
        /\ summaries' = [f \in Files |-> IF f \in jobs["summarize"].done THEN code[f] ELSE summaries[f]]
    BY <1>5, <2>2 DEF WriteSummaries
  <2>4. /\ \A f \in jobs["summarize"].done \intersect Files : summaries'[f] = code[f]
        /\ summaries' = [f \in Files |-> summaries'[f]]
    BY <2>3
  <2> QED BY <1>0, <2>1, <2>3, <2>4, WorkMoves
<1>6. CASE EmbedSummaries
  <2>1. "summarize" \in Commands /\ jobs["summarize"] # Idle /\ jobs["summarize"].pc = "vectors"
    BY <1>6, Busy DEF EmbedSummaries, At
  <2>2. \A f \in jobs["summarize"].done \intersect Files : summaries[f] = code[f]
    BY <2>1, Alone DEF JobOk
  <2>3. UNCHANGED <<code, dirty, summaries, tags>> /\ Goto("summarize", "clean")
    BY <1>6 DEF EmbedSummaries
  <2> QED BY <1>0, <2>1, <2>2, <2>3, WorkMoves
<1>7. CASE CleanSummarized
  <2>1. /\ "summarize" \in Commands /\ jobs["summarize"].pc = "clean" /\ JobOk("summarize")
        /\ \A d \in Commands : d # "summarize" => jobs[d] = Idle
    BY <1>7, Busy, Alone DEF CleanSummarized, At
  <2>2. /\ jobs' = [jobs EXCEPT !["summarize"] = Idle] /\ UNCHANGED <<tags, summaries>>
        /\ dirty' = [dirty EXCEPT !["summaries"] =
                       @ \ {s \in jobs["summarize"].ids : PathOf[s] \in jobs["summarize"].done}]
    BY <1>7, <2>1 DEF CleanSummarized, End, Cleaned, SummarizedIds, JobOk
  <2>3. /\ dirty' \in [Consumers -> SUBSET Symbols]
        /\ \A s \in dirty["summaries"] \ dirty'["summaries"] : PathOf[s] \in jobs["summarize"].done
        /\ dirty'["patterns"] = dirty["patterns"]
    BY <2>2 DEF DoneInv, Typing
  <2>4. DoneInv'
    BY <2>1, <2>2, <2>3, OneJob DEF DoneInv, Typing
  <2>5. Cleans
    BY <2>1, <2>3, PathAssumption DEF Cleans, JobOk
  <2> QED BY <2>4, <2>5
<1> QED BY <1>1, <1>2, <1>3, <1>4, <1>5, <1>6, <1>7 DEF Summarize

LEMMA DoneStep ==
  ASSUME DoneInv, ~Overlap, [Next]_vars
  PROVE  DoneInv' /\ Cleans
<1>1. ASSUME NEW c \in Commands, Fail(c) PROVE DoneInv' /\ Cleans
  <2>1. \A d \in Commands : d # c => jobs[d] = Idle
    BY <1>1, Alone DEF Fail
  <2>2. jobs' = [jobs EXCEPT ![c] = Idle] /\ UNCHANGED <<tags, summaries, dirty>>
    BY <1>1 DEF Fail, End
  <2>3. DoneInv'
    BY <2>1, <2>2, OneJob DEF DoneInv, Typing
  <2> QED BY <2>2, <2>3 DEF Cleans
<1>2. CASE UNCHANGED vars
  BY <1>2 DEF DoneInv, Typing, OneAtATime, JobOk, Tagged, Idle, Cleans
<1> QED BY <1>1, <1>2, RefreshKeeps, EmbedKeeps, EnrichKeeps, SummarizeKeeps DEF Next

LEMMA DoneInit == Init => DoneInv
  BY DEF Init, DoneInv, Typing, OneAtATime, Idle

\* An id leaves the dirty set of the pattern tags or of the summaries only when its work is done
\* on the text the graph has, wherever a budget stopped a run and whatever was killed
\* (enrich/enricher.py, enrich/summary_enricher.py), for every repository and every budget,
\* while commands do not overlap.
THEOREM CleanOnlyWhatIsDone ==
  ASSUME ~Overlap
  PROVE  Spec => CleanMeansDone
<1>1. Init => DoneInv
  BY DoneInit
<1>2. DoneInv /\ [Next]_vars => DoneInv'
  BY DoneStep
<1>3. DoneInv /\ [Next]_vars =>
        [\A s \in Symbols : code[PathOf[s]] # NoFile =>
           /\ s \in dirty["patterns"] \ dirty'["patterns"] => tags[s] = code[PathOf[s]]
           /\ s \in dirty["summaries"] \ dirty'["summaries"] => summaries[PathOf[s]] = code[PathOf[s]]]_vars
  BY DoneStep DEF Cleans
<1> QED BY <1>1, <1>2, <1>3, PTL DEF Spec, CleanMeansDone

(***************************************************************************)
(* A skipped file has the vectors it should have.                          *)
(***************************************************************************)
\* The file an embedding is in the middle of.
InHand(j) == IF j.pc \in {"replace", "upsert"} THEN {j.at} ELSE {}
Midway(f) == "embed" \in Commands /\ f \in InHand(jobs["embed"])

\* What an embedding has visited is current; no file is visited twice, and what the dirty
\* ids are of is visited, in hand or to do.
EmbedJobOk(j) ==
  /\ DOMAIN j = {"pc", "held", "ids", "only", "todo", "at", "text", "visited"}
  /\ j.pc \in {"file", "replace", "upsert", "docs", "fingerprint", "clean"}
  /\ j.todo \subseteq Indexed /\ j.visited \subseteq Files \ j.todo
  /\ \A f \in j.visited : vectors[f] = ChunksOf(code[f])
  /\ j.pc \in {"replace", "upsert"} => j.at \in Indexed \ (j.todo \union j.visited) /\ j.text = code[j.at]
  /\ j.pc = "upsert" => vectors[j.at] = {}
  /\ j.only => \A s \in j.ids \intersect Symbols :
       PathOf[s] \in Indexed => PathOf[s] \in j.todo \union j.visited \union InHand(j)
  /\ j.pc \in {"docs", "fingerprint", "clean"} => j.todo = {}
  /\ j.pc = "docs" => docs # NoDocs /\ docHash # docs
  /\ j.pc \in {"fingerprint", "clean"} => docVectors = docs

\* Where a skip would look, what it takes for done is done.
EmbedInv ==
  /\ vectors = [f \in Files |-> vectors[f]] /\ chunkNodes = [f \in Files |-> chunkNodes[f]]
  /\ docs # NoDocs /\ docHash = docs => docVectors = docs
  /\ "embed" \in Commands /\ jobs["embed"] # Idle => EmbedJobOk(jobs["embed"])
  /\ \A f \in Indexed : KnownChunks(f) /\ ~Midway(f) => vectors[f] = ChunksOf(code[f])

\* A file that its last run left in peace stays as it is while no embedding is under way.
LEMMA EmbedAway ==
  ASSUME EmbedInv, UNCHANGED <<code, docs, chunkNodes, vectors, docVectors, docHash>>,
         "embed" \in Commands => jobs'["embed"] = Idle /\ jobs["embed"].pc \notin {"replace", "upsert"}
  PROVE  EmbedInv'
<1>1. \A f : ~Midway(f)
  BY DEF Midway, InHand
<1>2. Idle' = Idle
  BY DEF Idle
<1>3. \A f \in Indexed : KnownChunks(f) => vectors[f] = ChunksOf(code[f])
  BY <1>1 DEF EmbedInv
<1>4. Indexed' = Indexed /\ \A f : KnownChunks(f)' = KnownChunks(f)
  BY DEF Indexed, KnownChunks, PriorHashes
<1> QED BY <1>2, <1>3, <1>4 DEF EmbedInv

\* A refresh brings no text back whose chunks the graph has.
LEMMA EmbedRefresh ==
  ASSUME EmbedInv, DoneInv, ~Overlap, ~ChunksReturn, ~DocsReturn, Refresh
  PROVE  EmbedInv'
<1>0. /\ "refresh" \in Commands /\ Idle' = Idle /\ Idle.pc = "idle"
      /\ "embed" \in Commands => jobs["embed"] = Idle /\ jobs'["embed"] = Idle
  <2>1. "refresh" \in Commands /\ \A d \in Commands : d # "refresh" => jobs[d] = Idle
    BY Busy, Alone DEF Refresh, RefreshGraph, RefreshDirty, RefreshSave, Free
  <2>2. "embed" \in Commands => jobs'["embed"] = jobs["embed"]
    BY <2>1 DEF Refresh, RefreshGraph, RefreshDirty, RefreshSave, Goto, End, DoneInv, Typing
  <2> QED BY <2>1, <2>2 DEF Idle
<1>1. CASE RefreshGraph
  <2>1. /\ \A f \in Files : code'[f] \in MayBecome(f)
        /\ vectors' = [f \in Files |-> IF Gone(f) THEN {} ELSE vectors[f]]
        /\ UNCHANGED <<docs, chunkNodes, docVectors, docHash>>
    BY <1>1 DEF RefreshGraph
  <2>2. ASSUME NEW f \in Files, code'[f] # NoFile, KnownChunks(f)'
        PROVE  vectors'[f] = ChunksOf(code'[f])
    <3>1. PriorHashes(f) # {} /\ PriorHashes(f) = Hashes(code'[f])
      BY <2>1, <2>2 DEF KnownChunks, PriorHashes
    <3>2. code'[f] = code[f]
      BY <2>1, <2>2, <3>1 DEF MayBecome, ChunksStillThere
    <3>3. f \in Indexed /\ KnownChunks(f) /\ ~Midway(f)
      BY <1>0, <2>2, <3>1, <3>2 DEF Indexed, KnownChunks, Midway, InHand
    <3> QED BY <2>1, <2>2, <3>2, <3>3 DEF EmbedInv, Gone
  <2> QED BY <1>0, <2>1, <2>2 DEF EmbedInv, Indexed
<1>2. CASE RefreshDirty
  BY <1>0, <1>2, EmbedAway DEF RefreshDirty
<1>3. CASE RefreshSave
  <2>1. /\ UNCHANGED <<code, chunkNodes, vectors, docVectors, docHash>>
        /\ docs' = docs \/ ~ProseStillFingerprinted(docs')
    BY <1>3 DEF RefreshSave
  <2>2. docs' # NoDocs /\ docHash' = docs' => docVectors' = docs'
    BY <2>1 DEF ProseStillFingerprinted, EmbedInv
  <2>3. \A f : ~Midway(f)
    BY <1>0 DEF Midway, InHand
  <2>4. Indexed' = Indexed /\ \A f : KnownChunks(f)' = KnownChunks(f)
    BY <2>1 DEF Indexed, KnownChunks, PriorHashes
  <2> QED BY <1>0, <2>1, <2>2, <2>3, <2>4 DEF EmbedInv
<1> QED BY <1>1, <1>2, <1>3 DEF Refresh

LEMMA EmbedStarts ==
  ASSUME EmbedInv, DoneInv, NEW onlyDirty, StartEmbed(onlyDirty)
  PROVE  EmbedInv'
<1> DEFINE ids == IF onlyDirty THEN dirty["embeddings"] ELSE {}
           todo == IF onlyDirty THEN Paths(ids) ELSE Files
           j == [pc |-> "file", held |-> dirty, ids |-> ids, only |-> onlyDirty,
                 todo |-> todo \intersect Indexed, at |-> NoFile, text |-> None, visited |-> {}]
<1>1. /\ "embed" \in Commands /\ jobs["embed"] = Idle /\ jobs' = [jobs EXCEPT !["embed"] = j]
      /\ UNCHANGED <<code, docs, chunkNodes, vectors, docVectors, docHash>>
  BY DEF StartEmbed, Free
<1>2. jobs'["embed"] = j
  BY <1>1 DEF DoneInv, Typing
<1>3. j.only => \A s \in j.ids : PathOf[s] \in Indexed => PathOf[s] \in j.todo
  BY DEF Paths
<1>4. EmbedJobOk(j)
  BY <1>3 DEF EmbedJobOk, InHand
<1> HIDE DEF j
<1>5. /\ UNCHANGED Indexed /\ \A f : ~Midway(f)
      /\ \A f : KnownChunks(f)' = KnownChunks(f) /\ ~Midway(f)'
  BY <1>1, <1>2, <1>4 DEF Indexed, KnownChunks, PriorHashes, Midway, InHand, Idle, j
<1>6. EmbedJobOk(jobs["embed"])'
  BY <1>1, <1>2, <1>4, <1>5 DEF EmbedJobOk
<1> QED BY <1>1, <1>5, <1>6 DEF EmbedInv

\* A file is skipped, or its chunks are merged into the graph and it is in hand.
LEMMA EmbedVisits ==
  ASSUME EmbedInv, DoneInv, EmbedFile
  PROVE  EmbedInv'
<1>0. PICK j, k : j = jobs["embed"] /\ k = jobs'["embed"]
  OBVIOUS
<1>1. /\ "embed" \in Commands /\ j # Idle /\ j.pc = "file" /\ EmbedJobOk(j)
      /\ UNCHANGED <<code, docs, vectors, docVectors, docHash>> /\ UNCHANGED Indexed
  BY <1>0, Busy DEF EmbedFile, At, EmbedInv, Indexed
<1>2. PICK f \in j.todo :
        /\ f \in Indexed
        /\ IF KnownChunks(f)
           THEN /\ jobs' = [jobs EXCEPT !["embed"].todo = @ \ {f}, !["embed"].visited = @ \union {f}]
                /\ UNCHANGED chunkNodes
           ELSE /\ chunkNodes' = [chunkNodes EXCEPT ![f] =
                     [i \in 1..MaxSeq |-> IF i <= Len(code[f]) THEN code[f][i] ELSE @[i]]]
                /\ jobs' = [jobs EXCEPT !["embed"].pc = "replace", !["embed"].at = f,
                                        !["embed"].text = code[f], !["embed"].todo = @ \ {f}]
  BY <1>0 DEF EmbedFile
<1>3. \A g : ~Midway(g)
  BY <1>0, <1>1 DEF Midway, InHand
<1>4. CASE KnownChunks(f)
  <2>1. k = [j EXCEPT !.todo = j.todo \ {f}, !.visited = j.visited \union {f}] /\ UNCHANGED chunkNodes
    BY <1>0, <1>1, <1>2, <1>4 DEF DoneInv, Typing
  <2>2. /\ DOMAIN k = DOMAIN j /\ k.pc = "file" /\ k.todo = j.todo \ {f} /\ k.visited = j.visited \union {f}
        /\ k.ids = j.ids /\ k.only = j.only
    BY <1>1, <2>1 DEF EmbedJobOk
  <2>3. vectors[f] = ChunksOf(code[f]) /\ f \in Files
    BY <1>2, <1>3, <1>4 DEF EmbedInv, Indexed
  <2>4. EmbedJobOk(k)'
    BY <1>1, <2>2, <2>3 DEF EmbedJobOk, InHand
  <2>5. \A g : KnownChunks(g)' = KnownChunks(g)
    BY <1>1, <2>1 DEF KnownChunks, PriorHashes
  <2> QED BY <1>0, <1>1, <1>3, <2>1, <2>4, <2>5 DEF EmbedInv
<1>5. CASE ~KnownChunks(f)
  <2>1. k = [j EXCEPT !.pc = "replace", !.at = f, !.text = code[f], !.todo = j.todo \ {f}]
    BY <1>0, <1>1, <1>2, <1>5 DEF DoneInv, Typing
  <2>2. /\ DOMAIN k = DOMAIN j /\ k.pc = "replace" /\ k.todo = j.todo \ {f} /\ k.visited = j.visited
        /\ k.ids = j.ids /\ k.only = j.only /\ k.at = f /\ k.text = code[f]
    BY <1>1, <2>1 DEF EmbedJobOk
  <2>3. EmbedJobOk(k)'
    BY <1>1, <1>2, <2>2 DEF EmbedJobOk, InHand
  <2>4. /\ chunkNodes' = [g \in Files |-> chunkNodes'[g]]
        /\ \A g \in Files \ {f} : chunkNodes'[g] = chunkNodes[g]
    BY <1>2, <1>5 DEF EmbedInv
  <2>5. \A g \in Indexed \ {f} : KnownChunks(g)' = KnownChunks(g)
    BY <1>1, <2>4 DEF KnownChunks, PriorHashes, Indexed
  <2>6. Midway(f)'
    BY <1>0, <1>1, <2>2 DEF Midway, InHand
  <2> QED BY <1>0, <1>1, <1>3, <2>3, <2>4, <2>5, <2>6 DEF EmbedInv
<1> QED BY <1>4, <1>5

\* The vectors of the file in hand are replaced.
LEMMA EmbedReplaces ==
  ASSUME EmbedInv, DoneInv, DeleteVectors \/ UpsertVectors
  PROVE  EmbedInv'
<1>0. PICK j, k : j = jobs["embed"] /\ k = jobs'["embed"]
  OBVIOUS
<1>1. /\ "embed" \in Commands /\ j # Idle /\ j.pc \in {"replace", "upsert"} /\ EmbedJobOk(j)
      /\ UNCHANGED <<code, docs, chunkNodes, docVectors, docHash>> /\ UNCHANGED Indexed
  BY <1>0, Busy DEF DeleteVectors, UpsertVectors, At, EmbedInv, Indexed
<1>2. /\ \A f : KnownChunks(f)' = KnownChunks(f)
      /\ \A f : Midway(f) => f = j.at
      /\ j.at \in Indexed /\ j.at \in Files /\ j.text = code[j.at] /\ j.at \notin j.todo \union j.visited
  BY <1>0, <1>1 DEF KnownChunks, PriorHashes, Midway, InHand, EmbedJobOk, Indexed
<1>3. CASE DeleteVectors
  <2>1. k = [j EXCEPT !.pc = "upsert"] /\ vectors' = [vectors EXCEPT ![j.at] = {}]
    BY <1>0, <1>1, <1>3 DEF DeleteVectors, Goto, DoneInv, Typing
  <2>2. /\ DOMAIN k = DOMAIN j /\ k.pc = "upsert" /\ k.todo = j.todo /\ k.visited = j.visited
        /\ k.ids = j.ids /\ k.only = j.only /\ k.at = j.at /\ k.text = j.text
    BY <1>1, <2>1 DEF EmbedJobOk
  <2>3. /\ vectors' = [f \in Files |-> vectors'[f]] /\ vectors'[j.at] = {}
        /\ \A f \in Files : f # j.at => vectors'[f] = vectors[f]
    BY <1>2, <2>1 DEF EmbedInv
  <2>4. EmbedJobOk(k)'
    BY <1>1, <1>2, <2>2, <2>3 DEF EmbedJobOk, InHand
  <2>5. Midway(j.at)'
    BY <1>0, <1>1, <2>2 DEF Midway, InHand
  <2> QED BY <1>0, <1>1, <1>2, <2>3, <2>4, <2>5 DEF EmbedInv, Indexed
<1>4. CASE UpsertVectors
  <2>1. /\ k = [j EXCEPT !.pc = "file", !.text = None, !.visited = j.visited \union {j.at}]
        /\ vectors' = [vectors EXCEPT ![j.at] = vectors[j.at] \union ChunksOf(j.text)] /\ j.pc = "upsert"
    BY <1>0, <1>1, <1>4 DEF UpsertVectors, DoneInv, Typing, At
  <2>2. /\ DOMAIN k = DOMAIN j /\ k.pc = "file" /\ k.todo = j.todo /\ k.visited = j.visited \union {j.at}
        /\ k.ids = j.ids /\ k.only = j.only
    BY <1>1, <2>1 DEF EmbedJobOk
  <2>3. vectors[j.at] = {}
    BY <1>1, <2>1 DEF EmbedJobOk
  <2>4. /\ vectors' = [f \in Files |-> vectors'[f]] /\ vectors'[j.at] = ChunksOf(code[j.at])
        /\ \A f \in Files : f # j.at => vectors'[f] = vectors[f]
    BY <1>2, <2>1, <2>3 DEF EmbedInv
  <2>5. EmbedJobOk(k)'
    BY <1>1, <1>2, <2>1, <2>2, <2>4 DEF EmbedJobOk, InHand
  <2> QED BY <1>0, <1>1, <1>2, <2>4, <2>5 DEF EmbedInv, Indexed
<1> QED BY <1>3, <1>4

\* The prose is skipped, or replaced and its fingerprint written.
LEMMA EmbedsDocs ==
  ASSUME EmbedInv, DoneInv, EmbedDocs \/ UpsertDocs \/ WriteFingerprint
  PROVE  EmbedInv'
<1>0. PICK j, k : j = jobs["embed"] /\ k = jobs'["embed"]
  OBVIOUS
<1>1. /\ "embed" \in Commands /\ j # Idle /\ j.pc \in {"file", "docs", "fingerprint"} /\ EmbedJobOk(j)
      /\ UNCHANGED <<code, docs, chunkNodes, vectors>> /\ UNCHANGED Indexed
  BY <1>0, Busy DEF EmbedDocs, UpsertDocs, WriteFingerprint, At, EmbedInv, Indexed
<1>2. /\ \A f : KnownChunks(f)' = KnownChunks(f) /\ ~Midway(f)
      /\ j.todo = {}
  BY <1>0, <1>1 DEF KnownChunks, PriorHashes, Midway, InHand, EmbedJobOk, EmbedDocs, UpsertDocs, WriteFingerprint, At
<1>3. PICK p \in {"docs", "fingerprint", "clean"} :
        /\ Goto("embed", p)
        /\ p = "docs" => docs # NoDocs /\ docHash' # docs
        /\ p \in {"fingerprint", "clean"} => docVectors' = docs
        /\ docs # NoDocs /\ docHash' = docs => docVectors' = docs
  <2>1. CASE EmbedDocs
    BY <2>1 DEF EmbedDocs, EmbedInv
  <2>2. CASE UpsertDocs
    BY <2>2 DEF UpsertDocs
  <2>3. CASE WriteFingerprint
    <3>1. docVectors = docs
      BY <1>0, <1>1, <2>3 DEF WriteFingerprint, EmbedJobOk, At
    <3> QED BY <2>3, <3>1 DEF WriteFingerprint
  <2> QED BY <2>1, <2>2, <2>3
<1>4. k = [j EXCEPT !.pc = p]
  BY <1>0, <1>1, <1>3 DEF Goto, DoneInv, Typing
<1>5. /\ DOMAIN k = DOMAIN j /\ k.pc = p /\ k.todo = {} /\ k.visited = j.visited
      /\ k.ids = j.ids /\ k.only = j.only
  BY <1>1, <1>2, <1>4 DEF EmbedJobOk
<1>6. EmbedJobOk(k)'
  BY <1>1, <1>2, <1>3, <1>5 DEF EmbedJobOk, InHand
<1> QED BY <1>0, <1>1, <1>2, <1>3, <1>6 DEF EmbedInv

LEMMA EmbedStep ==
  ASSUME EmbedInv, DoneInv, ~Overlap, ~ChunksReturn, ~DocsReturn, ~FailsEmbedding, [Next]_vars
  PROVE  EmbedInv'
<1>1. CASE Embed
  <2>1. CASE CleanEmbedded
    <3>1. "embed" \in Commands /\ jobs["embed"].pc = "clean" /\ jobs'["embed"] = Idle
      BY <2>1 DEF CleanEmbedded, At, End, DoneInv, Typing
    <3> QED BY <2>1, <3>1, EmbedAway DEF CleanEmbedded
  <2> QED BY <1>1, <2>1, EmbedStarts, EmbedVisits, EmbedReplaces, EmbedsDocs DEF Embed
<1>2. ASSUME NEW c \in Commands, Fail(c) PROVE EmbedInv'
  <2>1. jobs[c] # Idle /\ jobs[c].pc \notin {"replace", "upsert"} /\ jobs' = [jobs EXCEPT ![c] = Idle]
    BY <1>2 DEF Fail, End
  <2>2. "embed" \in Commands => jobs'["embed"] = Idle /\ jobs["embed"].pc \notin {"replace", "upsert"}
    BY <1>2, <2>1, Alone DEF DoneInv, Typing, Idle
  <2> QED BY <1>2, <2>2, EmbedAway DEF Fail
<1>3. CASE Enrich \/ Summarize
  <2>1. PICK c \in {"enrich", "summarize"} :
          /\ c \in Commands /\ (jobs[c] # Idle \/ Free(c))
          /\ \E q : jobs' = [jobs EXCEPT ![c] = q]
    <3>1. CASE Enrich
      <4>1. "enrich" \in Commands /\ (jobs["enrich"] # Idle \/ Free("enrich"))
        BY <3>1, Busy DEF Enrich, StartEnrich, Work, ClearTags, WorkEnded, AddTags, CleanJudged, Free
      <4>2. jobs' = [jobs EXCEPT !["enrich"] = jobs'["enrich"]]
        BY <3>1, <4>1 DEF Enrich, StartEnrich, Work, ClearTags, AddTags, CleanJudged, Goto, End, DoneInv, Typing
      <4> QED BY <4>1, <4>2
    <3>2. CASE Summarize
      <4>1. "summarize" \in Commands /\ (jobs["summarize"] # Idle \/ Free("summarize"))
        BY <3>2, Busy DEF Summarize, StartSummarize, Work, SummarizeRepo, SkipRepo, WorkEnded, WriteSummaries,
                         EmbedSummaries, CleanSummarized, Free
      <4>2. jobs' = [jobs EXCEPT !["summarize"] = jobs'["summarize"]]
        BY <3>2, <4>1 DEF Summarize, StartSummarize, Work, SummarizeRepo, SkipRepo, WriteSummaries,
                         EmbedSummaries, CleanSummarized, Goto, End, DoneInv, Typing
      <4> QED BY <4>1, <4>2
    <3> QED BY <1>3, <3>1, <3>2
  <2>2. "embed" \in Commands => jobs["embed"] = Idle /\ jobs'["embed"] = Idle
    BY <2>1, Alone DEF DoneInv, Typing
  <2>3. UNCHANGED <<code, docs, chunkNodes, vectors, docVectors, docHash>>
    BY <1>3 DEF Enrich, Summarize, StartEnrich, StartSummarize, Work, ClearTags, AddTags, CleanJudged,
                SummarizeRepo, SkipRepo, WriteSummaries, EmbedSummaries, CleanSummarized
  <2>4. "embed" \in Commands => jobs'["embed"] = Idle /\ jobs["embed"].pc \notin {"replace", "upsert"}
    BY <2>2 DEF Idle
  <2> QED BY <2>3, <2>4, EmbedAway
<1>4. CASE UNCHANGED vars
  BY <1>4 DEF EmbedInv, EmbedJobOk, Idle, Indexed, KnownChunks, PriorHashes, Midway
<1> QED BY <1>1, <1>2, <1>3, <1>4, EmbedRefresh DEF Next

LEMMA EmbedInit == Init => EmbedInv
<1> SUFFICES ASSUME Init PROVE EmbedInv
  OBVIOUS
<1>1. "embed" \in Commands => jobs["embed"] = Idle
  BY DEF Init
<1>2. \A f \in Files : ~KnownChunks(f)
  <2>1. \A f \in Files : PriorHashes(f) = {}
    BY DEF Init, PriorHashes, Range
  <2> QED BY <2>1 DEF KnownChunks
<1> QED BY <1>1, <1>2 DEF Init, EmbedInv, Indexed

\* When embed comes to its end, every file it visited is searchable by exactly its chunks, also
\* where it took the file for unchanged, and so is the prose (embed/pipeline.py), for every
\* repository and every order of runs and failures, while commands do not overlap, no run ends
\* between a file's chunks and their vectors, and no text returns whose hashes outlived its vectors.
THEOREM SkipsAreCurrent ==
  ASSUME ~Overlap, ~ChunksReturn, ~DocsReturn, ~FailsEmbedding
  PROVE  Spec => []EmbedLeavesCurrent
<1>1. Init => DoneInv /\ EmbedInv
  BY DoneInit, EmbedInit
<1>2. DoneInv /\ EmbedInv /\ [Next]_vars => DoneInv' /\ EmbedInv'
  BY DoneStep, EmbedStep
<1>3. EmbedInv => EmbedLeavesCurrent
  BY Busy DEF EmbedInv, EmbedJobOk, EmbedLeavesCurrent, At, Idle
<1> QED BY <1>1, <1>2, <1>3, PTL DEF Spec

(***************************************************************************)
(* What is stale is marked.                                                *)
(***************************************************************************)
\* No refresh is owed for the file, but for the one that is about to write the manifest.
Settled(f) == code[f] = manifest[f] \/ At("refresh", "save")

Marked(s) ==
  LET f == PathOf[s]
  IN /\ vectors[f] \notin {{}, ChunksOf(code[f])} => s \in dirty["embeddings"]
     /\ tags[s] \notin {None, code[f]} => s \in dirty["patterns"]
     /\ summaries[f] \notin {None, code[f]} => s \in dirty["summaries"]

MarkedInv == \A s \in Symbols : PathOf[s] \in Indexed /\ Settled(PathOf[s]) => Marked(s)

\* A step of a pass: no text changes, what is derived anew is derived from it, and what is
\* taken out of the dirty set was not stale.
LEMMA PassMarks ==
  ASSUME MarkedInv, UNCHANGED <<code, manifest>>,
         At("refresh", "save")' => At("refresh", "save"),
         \A f \in Indexed : vectors'[f] \in {vectors[f], {}, ChunksOf(code[f])},
         \A s \in Symbols : PathOf[s] \in Indexed => tags'[s] \in {tags[s], None, code[PathOf[s]]},
         \A f \in Indexed : summaries'[f] \in {summaries[f], code[f]},
         \A s \in Symbols : PathOf[s] \in Indexed =>
           /\ s \in dirty["embeddings"] \ dirty'["embeddings"] =>
                vectors'[PathOf[s]] \in {{}, ChunksOf(code[PathOf[s]])}
           /\ s \in dirty["patterns"] \ dirty'["patterns"] => tags'[s] = code[PathOf[s]]
           /\ s \in dirty["summaries"] \ dirty'["summaries"] => summaries'[PathOf[s]] = code[PathOf[s]]
  PROVE  MarkedInv'
<1> SUFFICES ASSUME NEW s \in Symbols, PathOf[s] \in Indexed, Settled(PathOf[s])'
             PROVE  Marked(s)'
  BY DEF MarkedInv, Indexed
<1>1. Marked(s)
  BY DEF MarkedInv, Settled
<1> QED BY <1>1 DEF Marked

\* A refresh marks every symbol of a file it changed before it owes the file nothing.
LEMMA RefreshMarks ==
  ASSUME MarkedInv, DoneInv, ~Overlap, Refresh
  PROVE  MarkedInv'
<1>1. CASE RefreshGraph
  <2>1. /\ UNCHANGED <<manifest, dirty, summaries>> /\ \A f \in Files : code'[f] \in MayBecome(f)
        /\ vectors' = [f \in Files |-> IF Gone(f) THEN {} ELSE vectors[f]]
        /\ tags' = [s \in Symbols |-> IF Gone(PathOf[s]) THEN None ELSE tags[s]]
    BY <1>1 DEF RefreshGraph
  <2>2. ~At("refresh", "save")'
    BY <1>1 DEF RefreshGraph, Free, At, DoneInv, Typing
  <2> SUFFICES ASSUME NEW s \in Symbols, PathOf[s] \in Indexed', Settled(PathOf[s])'
               PROVE  Marked(s)'
    BY DEF MarkedInv
  <2>3. PathOf[s] \in Files /\ code'[PathOf[s]] = manifest[PathOf[s]] /\ ~Gone(PathOf[s])
    BY <2>1, <2>2, PathAssumption DEF Settled, Indexed, Gone
  <2>4. code'[PathOf[s]] = code[PathOf[s]]
    BY <2>1, <2>3 DEF MayBecome
  <2>5. Marked(s)
    BY <2>3, <2>4 DEF MarkedInv, Indexed, Settled, Gone
  <2> QED BY <2>1, <2>3, <2>4, <2>5 DEF Marked
<1>2. CASE RefreshDirty
  <2>1. jobs["refresh"].held = dirty /\ dirty \in [Consumers -> SUBSET Symbols]
    BY <1>2, Busy, Alone DEF RefreshDirty, At, JobOk, DoneInv, Typing
  <2>2. /\ UNCHANGED <<code, manifest, vectors, tags, summaries>>
        /\ \A k \in Consumers : dirty'[k] = dirty[k] \union ChangedSymbols
    BY <1>2, <2>1 DEF RefreshDirty, Added
  <2> SUFFICES ASSUME NEW s \in Symbols, PathOf[s] \in Indexed PROVE Marked(s)'
    BY <2>2 DEF MarkedInv, Indexed
  <2>3. CASE code[PathOf[s]] = manifest[PathOf[s]]
    <3>1. Marked(s)
      BY <2>3 DEF MarkedInv, Settled
    <3> QED BY <2>2, <3>1 DEF Marked
  <2>4. CASE code[PathOf[s]] # manifest[PathOf[s]]
    <3>1. s \in ChangedSymbols
      BY <2>4 DEF ChangedSymbols, SymbolsIn, Indexed
    <3> QED BY <2>2, <3>1 DEF Marked
  <2> QED BY <2>3, <2>4
<1>3. CASE RefreshSave
  <2>1. At("refresh", "save") /\ UNCHANGED <<code, vectors, tags, summaries, dirty>>
    BY <1>3 DEF RefreshSave
  <2>2. \A s : Marked(s)' = Marked(s)
    BY <2>1 DEF Marked
  <2> QED BY <2>1, <2>2 DEF MarkedInv, Indexed, Settled
<1> QED BY <1>1, <1>2, <1>3 DEF Refresh

\* A command that is at another place, or none, is not a refresh at its end.
LEMMA NotSaving ==
  ASSUME DoneInv, ~Overlap, NEW c \in Commands, c # "refresh", jobs[c] # Idle \/ Free(c), NEW q,
         jobs' = [jobs EXCEPT ![c] = q]
  PROVE  ~At("refresh", "save")'
BY Alone DEF At, Idle, DoneInv, Typing

LEMMA EmbedMarks ==
  ASSUME MarkedInv, DoneInv, EmbedInv, ~Overlap, Embed
  PROVE  MarkedInv'
<1>0. "embed" \in Commands /\ (jobs["embed"] # Idle \/ Free("embed"))
  BY Busy DEF Embed, StartEmbed, EmbedFile, DeleteVectors, UpsertVectors, EmbedDocs, UpsertDocs,
              WriteFingerprint, CleanEmbedded, Free
<1>1. jobs' = [jobs EXCEPT !["embed"] = jobs'["embed"]]
  BY <1>0 DEF Embed, StartEmbed, EmbedFile, DeleteVectors, UpsertVectors, EmbedDocs, UpsertDocs,
              WriteFingerprint, CleanEmbedded, Goto, End, DoneInv, Typing
<1>2. ~At("refresh", "save")'
  BY <1>0, <1>1, NotSaving
<1>3. UNCHANGED <<code, manifest, tags, summaries>>
  BY DEF Embed, StartEmbed, EmbedFile, DeleteVectors, UpsertVectors, EmbedDocs, UpsertDocs,
         WriteFingerprint, CleanEmbedded
<1>4. CASE DeleteVectors \/ UpsertVectors
  <2>1. PICK j : j = jobs["embed"] /\ EmbedJobOk(j) /\ j.pc \in {"replace", "upsert"}
    BY <1>0, <1>4, Busy DEF EmbedInv, DeleteVectors, UpsertVectors, At
  <2>2. j.at \in Files /\ j.text = code[j.at]
    BY <2>1 DEF EmbedJobOk, Indexed
  <2>3. \A f \in Indexed : vectors'[f] \in {vectors[f], {}, ChunksOf(code[f])}
    <3>1. CASE DeleteVectors
      BY <2>1, <2>2, <3>1 DEF DeleteVectors, EmbedInv, Indexed
    <3>2. CASE UpsertVectors
      <4>1. vectors[j.at] = {}
        BY <2>1, <3>2 DEF UpsertVectors, At, EmbedJobOk
      <4> QED BY <2>1, <2>2, <3>2, <4>1 DEF UpsertVectors, EmbedInv, Indexed
    <3> QED BY <1>4, <3>1, <3>2
  <2>4. UNCHANGED dirty
    BY <1>4 DEF DeleteVectors, UpsertVectors
  <2> QED BY <1>2, <1>3, <2>3, <2>4, PassMarks
<1>5. CASE CleanEmbedded
  <2>1. PICK j : /\ j = jobs["embed"] /\ EmbedJobOk(j) /\ j.pc = "clean" /\ j.held = dirty
    BY <1>0, <1>5, Busy, Alone DEF EmbedInv, CleanEmbedded, At, JobOk
  <2>2. /\ UNCHANGED vectors
        /\ dirty' = IF j.only THEN [dirty EXCEPT !["embeddings"] = @ \ j.ids] ELSE dirty
    BY <1>5, <2>1 DEF CleanEmbedded, Cleaned
  <2>3. /\ dirty["embeddings"] \ dirty'["embeddings"] \subseteq IF j.only THEN j.ids ELSE {}
        /\ dirty'["patterns"] = dirty["patterns"] /\ dirty'["summaries"] = dirty["summaries"]
    BY <2>2 DEF DoneInv, Typing
  <2>4. \A s \in Symbols : PathOf[s] \in Indexed /\ j.only /\ s \in j.ids =>
          vectors[PathOf[s]] = ChunksOf(code[PathOf[s]])
    BY <2>1 DEF EmbedJobOk, InHand
  <2> QED BY <1>2, <1>3, <2>2, <2>3, <2>4, PassMarks
<1>6. CASE ~(DeleteVectors \/ UpsertVectors \/ CleanEmbedded)
  <2>1. UNCHANGED <<vectors, dirty>>
    BY <1>6 DEF Embed, StartEmbed, EmbedFile, EmbedDocs, UpsertDocs, WriteFingerprint
  <2> QED BY <1>2, <1>3, <2>1, PassMarks
<1> QED BY <1>4, <1>5, <1>6

LEMMA EnrichMarks ==
  ASSUME MarkedInv, DoneInv, ~Overlap, Enrich
  PROVE  MarkedInv'
<1>0. "enrich" \in Commands /\ (jobs["enrich"] # Idle \/ Free("enrich"))
  BY Busy DEF Enrich, StartEnrich, Work, ClearTags, WorkEnded, AddTags, CleanJudged, Free
<1>1. jobs' = [jobs EXCEPT !["enrich"] = jobs'["enrich"]]
  BY <1>0 DEF Enrich, StartEnrich, Work, ClearTags, AddTags, CleanJudged, Goto, End, DoneInv, Typing
<1>2. ~At("refresh", "save")'
  BY <1>0, <1>1, NotSaving
<1>3. UNCHANGED <<code, manifest, vectors, summaries>>
  BY DEF Enrich, StartEnrich, Work, ClearTags, AddTags, CleanJudged
<1>4. \A s \in Symbols : PathOf[s] \in Indexed => tags'[s] \in {tags[s], None, code[PathOf[s]]}
  <2>1. CASE AddTags
    <3>1. jobs["enrich"].read = code
      BY <1>0, <2>1, Busy, Alone DEF AddTags, JobOk
    <3> QED BY <2>1, <3>1 DEF AddTags
  <2> QED BY <2>1 DEF Enrich, StartEnrich, Work, ClearTags, CleanJudged
<1>5. /\ DoneInv' /\ \A s \in Symbols : PathOf[s] \in Indexed /\
           s \in dirty["patterns"] \ dirty'["patterns"] => tags[s] = code[PathOf[s]]
      /\ dirty'["embeddings"] = dirty["embeddings"] /\ dirty'["summaries"] = dirty["summaries"]
  <2>1. Cleans
    BY EnrichKeeps
  <2>2. \A k \in {"embeddings", "summaries"} : dirty'[k] = dirty[k]
    <3>1. CASE CleanJudged
      <4>1. jobs["enrich"].held = dirty
        BY <1>0, <3>1, Busy, Alone DEF CleanJudged, JobOk
      <4> QED BY <3>1, <4>1 DEF CleanJudged, Cleaned, DoneInv, Typing
    <3> QED BY <3>1 DEF Enrich, StartEnrich, Work, ClearTags, AddTags
  <2> QED BY <2>1, <2>2, EnrichKeeps DEF Cleans, Indexed
<1>6. dirty["patterns"] # dirty'["patterns"] => UNCHANGED tags
  BY DEF Enrich, StartEnrich, Work, ClearTags, AddTags, CleanJudged
<1> QED BY <1>2, <1>3, <1>4, <1>5, <1>6, PassMarks

LEMMA SummarizeMarks ==
  ASSUME MarkedInv, DoneInv, ~Overlap, Summarize
  PROVE  MarkedInv'
<1>0. "summarize" \in Commands /\ (jobs["summarize"] # Idle \/ Free("summarize"))
  BY Busy DEF Summarize, StartSummarize, Work, SummarizeRepo, SkipRepo, WorkEnded, WriteSummaries,
              EmbedSummaries, CleanSummarized, Free
<1>1. jobs' = [jobs EXCEPT !["summarize"] = jobs'["summarize"]]
  BY <1>0 DEF Summarize, StartSummarize, Work, SummarizeRepo, SkipRepo, WriteSummaries,
              EmbedSummaries, CleanSummarized, Goto, End, DoneInv, Typing
<1>2. ~At("refresh", "save")'
  BY <1>0, <1>1, NotSaving
<1>3. UNCHANGED <<code, manifest, vectors, tags>>
  BY DEF Summarize, StartSummarize, Work, SummarizeRepo, SkipRepo, WriteSummaries, EmbedSummaries, CleanSummarized
<1>4. \A f \in Indexed : summaries'[f] \in {summaries[f], code[f]}
  <2>1. CASE WriteSummaries
    <3>1. jobs["summarize"].read = code
      BY <1>0, <2>1, Busy, Alone DEF WriteSummaries, JobOk
    <3> QED BY <2>1, <3>1 DEF WriteSummaries, Indexed
  <2> QED BY <2>1 DEF Summarize, StartSummarize, Work, SummarizeRepo, SkipRepo, EmbedSummaries, CleanSummarized
<1>5. /\ \A s \in Symbols : PathOf[s] \in Indexed /\
           s \in dirty["summaries"] \ dirty'["summaries"] => summaries[PathOf[s]] = code[PathOf[s]]
      /\ dirty'["embeddings"] = dirty["embeddings"] /\ dirty'["patterns"] = dirty["patterns"]
  <2>1. Cleans
    BY SummarizeKeeps
  <2>2. \A k \in {"embeddings", "patterns"} : dirty'[k] = dirty[k]
    <3>1. CASE CleanSummarized
      <4>1. jobs["summarize"].held = dirty
        BY <1>0, <3>1, Busy, Alone DEF CleanSummarized, JobOk
      <4> QED BY <3>1, <4>1 DEF CleanSummarized, Cleaned, DoneInv, Typing
    <3> QED BY <3>1 DEF Summarize, StartSummarize, Work, SummarizeRepo, SkipRepo, WriteSummaries, EmbedSummaries
  <2> QED BY <2>1, <2>2 DEF Cleans, Indexed
<1>6. dirty["summaries"] # dirty'["summaries"] => UNCHANGED summaries
  BY DEF Summarize, StartSummarize, Work, SummarizeRepo, SkipRepo, WriteSummaries, EmbedSummaries, CleanSummarized
<1> QED BY <1>2, <1>3, <1>4, <1>5, <1>6, PassMarks

LEMMA MarkedStep ==
  ASSUME MarkedInv, DoneInv, EmbedInv, ~Overlap, [Next]_vars
  PROVE  MarkedInv'
<1>1. ASSUME NEW c \in Commands, Fail(c) PROVE MarkedInv'
  <2>1. At("refresh", "save")' => At("refresh", "save")
    BY <1>1 DEF Fail, End, At, Idle, DoneInv, Typing
  <2> QED BY <1>1, <2>1, PassMarks DEF Fail
<1>2. CASE UNCHANGED vars
  BY <1>2, PassMarks DEF At
<1> QED BY <1>1, <1>2, RefreshMarks, EmbedMarks, EnrichMarks, SummarizeMarks DEF Next

\* The dirty set is the one staleness signal: when nothing is under way, whatever was derived from
\* another text than the one its file is indexed and recorded with is marked for the pass that
\* derives it (ingest/incremental/dirty.py), under the assumptions of SkipsAreCurrent.
THEOREM StaleIsMarked ==
  ASSUME ~Overlap, ~ChunksReturn, ~DocsReturn, ~FailsEmbedding
  PROVE  Spec => []StaleIsDirty
<1>1. Init => DoneInv /\ EmbedInv /\ MarkedInv
  <2>1. Init => MarkedInv
    BY PathAssumption DEF Init, MarkedInv, Marked
  <2> QED BY <2>1, DoneInit, EmbedInit
<1>2. DoneInv /\ EmbedInv /\ MarkedInv /\ [Next]_vars => DoneInv' /\ EmbedInv' /\ MarkedInv'
  BY DoneStep, EmbedStep, MarkedStep
<1>3. MarkedInv => StaleIsDirty
  BY DEF MarkedInv, Marked, Settled, StaleIsDirty, SymbolsIn
<1> QED BY <1>1, <1>2, <1>3, PTL DEF Spec

(***************************************************************************)
(* The budget.                                                             *)
(***************************************************************************)
\* What a pass has spent is bounded wherever it is; between batches it goes on only with
\* some of its budget left.
SpendOk(j) ==
  /\ {"pc", "todo", "done", "spent", "budget"} \subseteq DOMAIN j
  /\ j.spent \in Nat /\ j.budget \in Nat
  /\ j.spent < j.budget + Concurrency

Passes == {"enrich", "summarize"}

SpendInv ==
  /\ jobs = [c \in Commands |-> jobs[c]]
  /\ \A c \in Passes \intersect Commands : jobs[c] = Idle \/ SpendOk(jobs[c])

\* A pass's own step, or the end of it.
LEMMA SpendOne ==
  ASSUME SpendInv, NEW c \in Commands, NEW j, jobs' = [jobs EXCEPT ![c] = j],
         c \in Passes => j = Idle \/ SpendOk(j)
  PROVE  SpendInv'
<1>1. Idle' = Idle /\ \A i : SpendOk(i)' <=> SpendOk(i)
  BY DEF Idle, SpendOk
<1>2. /\ jobs' = [d \in Commands |-> jobs'[d]] /\ jobs'[c] = j
      /\ \A d \in Commands : d # c => jobs'[d] = jobs[d]
  BY DEF SpendInv
<1> QED BY <1>1, <1>2 DEF SpendInv

\* A step that is not a pass's takes nothing from a budget.
LEMMA SpendOthers ==
  ASSUME SpendInv, NEW c \in Commands \ Passes, jobs' = [jobs EXCEPT ![c] = jobs'[c]]
  PROVE  SpendInv'
BY SpendOne

LEMMA SpendMoves ==
  ASSUME SpendInv, NEW c, NEW old, old # "idle", At(c, old), NEW pc, Goto(c, pc)
  PROVE  SpendInv'
<1>1. c \in Commands /\ jobs[c] # Idle
  BY Busy
<1>2. jobs' = [jobs EXCEPT ![c] = [jobs[c] EXCEPT !.pc = pc]]
  BY DEF Goto
<1>3. c \in Passes => SpendOk([jobs[c] EXCEPT !.pc = pc])
  <2> SUFFICES ASSUME c \in Passes PROVE SpendOk([jobs[c] EXCEPT !.pc = pc])
    OBVIOUS
  <2>1. SpendOk(jobs[c])
    BY <1>1 DEF SpendInv
  <2> QED BY <2>1 DEF SpendOk
<1> QED BY <1>1, <1>2, <1>3, SpendOne

LEMMA SpendEnds ==
  ASSUME SpendInv, NEW c \in Commands, End(c)
  PROVE  SpendInv'
BY SpendOne DEF End

\* A run starts with nothing spent.
LEMMA SpendStarts ==
  ASSUME SpendInv, NEW c \in Passes, Free(c), NEW ids, NEW todo, NEW budget \in Budgets[c],
         jobs' = [jobs EXCEPT ![c] = WorkingOn(ids, todo, budget)]
  PROVE  SpendInv'
<1>1. budget \in Nat \ {0} /\ Concurrency \in Nat \ {0}
  BY BoundsAssumption DEF Passes
<1>2. SpendOk(WorkingOn(ids, todo, budget))
  BY <1>1 DEF SpendOk, WorkingOn
<1> QED BY <1>2, SpendOne DEF Free

\* A batch is begun with some of the budget left and charged whole.
LEMMA SpendWorks ==
  ASSUME SpendInv, NEW c \in Passes, Work(c)
  PROVE  SpendInv'
<1>1. c \in Commands /\ jobs[c] # Idle /\ ~Spent(jobs[c])
  BY Busy DEF Work
<1>2. SpendOk(jobs[c])
  BY <1>1 DEF SpendInv
<1> DEFINE todo(n) == SubSeq(jobs[c].todo, n + 1, Len(jobs[c].todo))
           done(n) == jobs[c].done \union Range(SubSeq(jobs[c].todo, 1, n))
<1>3. PICK n \in 1..Concurrency :
        jobs' = [jobs EXCEPT ![c].todo = todo(n), ![c].done = done(n), ![c].spent = jobs[c].spent + n]
  BY Zenon DEF Work, BatchOf
<1> HIDE DEF todo, done
<1> DEFINE j == [jobs[c] EXCEPT !.todo = todo(n), !.done = done(n), !.spent = jobs[c].spent + n]
<1>4. jobs' = [jobs EXCEPT ![c] = j]
  BY <1>1, <1>3 DEF SpendInv
<1>5. jobs[c].spent < jobs[c].budget
  BY <1>1, <1>2 DEF Spent, SpendOk
<1>6. SpendOk(j)
  BY <1>2, <1>5, BoundsAssumption DEF SpendOk
<1> QED BY <1>1, <1>4, <1>6, SpendOne

\* The repository's summary is begun with some of the budget left and costs 1.
LEMMA SpendOnRepo ==
  ASSUME SpendInv, SummarizeRepo
  PROVE  SpendInv'
<1>1. "summarize" \in Commands /\ jobs["summarize"] # Idle /\ ~Spent(jobs["summarize"])
  BY Busy DEF SummarizeRepo
<1>2. SpendOk(jobs["summarize"])
  BY <1>1 DEF SpendInv, Passes
<1> DEFINE j == [jobs["summarize"] EXCEPT !.spent = @ + 1, !.pc = "write"]
<1>3. jobs' = [jobs EXCEPT !["summarize"] = j]
  BY <1>1 DEF SummarizeRepo, SpendInv
<1>4. SpendOk(j)
  BY <1>1, <1>2, BoundsAssumption DEF SpendOk, Spent
<1> QED BY <1>1, <1>3, <1>4, SpendOne

LEMMA SpendEmbed ==
  ASSUME SpendInv, Embed
  PROVE  SpendInv'
<1>0. jobs = [c \in Commands |-> jobs[c]]
  BY DEF SpendInv
<1>1. ASSUME NEW onlyDirty, StartEmbed(onlyDirty) PROVE SpendInv'
  <2>1. "embed" \in Commands \ Passes
    BY <1>1 DEF StartEmbed, Free, Passes
  <2>2. PICK ids, todo : jobs' = [jobs EXCEPT !["embed"] =
          [pc |-> "file", held |-> dirty, ids |-> ids, only |-> onlyDirty,
           todo |-> todo \intersect Indexed, at |-> NoFile, text |-> None, visited |-> {}]]
    BY <1>1 DEF StartEmbed
  <2> QED BY <1>0, <2>1, <2>2, SpendOthers
<1>2. CASE EmbedFile
  <2>1. "embed" \in Commands \ Passes
    BY <1>2, Busy DEF EmbedFile, Passes
  <2>2. PICK f :
          \/ jobs' = [jobs EXCEPT !["embed"].todo = @ \ {f}, !["embed"].visited = @ \union {f}]
          \/ jobs' = [jobs EXCEPT !["embed"].pc = "replace", !["embed"].at = f,
                                   !["embed"].text = code[f], !["embed"].todo = @ \ {f}]
    BY <1>2 DEF EmbedFile
  <2>3. jobs' = [jobs EXCEPT !["embed"] = jobs'["embed"]]
    BY <1>0, <2>1, <2>2
  <2> QED BY <2>1, <2>3, SpendOthers
<1>3. CASE UpsertVectors
  <2>1. "embed" \in Commands \ Passes
    BY <1>3, Busy DEF UpsertVectors, Passes
  <2>2. PICK f : jobs' = [jobs EXCEPT !["embed"].pc = "file", !["embed"].text = None,
                                        !["embed"].visited = @ \union {f}]
    BY <1>3 DEF UpsertVectors
  <2>3. jobs' = [jobs EXCEPT !["embed"] = jobs'["embed"]]
    BY <1>0, <2>1, <2>2
  <2> QED BY <2>1, <2>3, SpendOthers
<1>4. CASE DeleteVectors \/ EmbedDocs \/ UpsertDocs \/ WriteFingerprint
  <2>1. \E old, pc : old # "idle" /\ At("embed", old) /\ Goto("embed", pc)
    BY <1>4 DEF DeleteVectors, EmbedDocs, UpsertDocs, WriteFingerprint
  <2> QED BY <2>1, SpendMoves
<1>5. CASE CleanEmbedded
  BY <1>5, Busy, SpendEnds DEF CleanEmbedded
<1> QED BY <1>1, <1>2, <1>3, <1>4, <1>5 DEF Embed

LEMMA SpendStep ==
  ASSUME SpendInv, [Next]_vars
  PROVE  SpendInv'
<1>1. CASE Refresh
  <2>1. "refresh" \in Commands \ Passes /\ jobs' = [jobs EXCEPT !["refresh"] = jobs'["refresh"]]
    BY <1>1, Busy DEF Refresh, RefreshGraph, RefreshDirty, RefreshSave, Free, Goto, End, Passes, SpendInv
  <2> QED BY <2>1, SpendOthers
<1>2. CASE Embed
  BY <1>2, SpendEmbed
<1>3. CASE Enrich
  <2>1. CASE StartEnrich
    <3> DEFINE ids == IF dirty["patterns"] # {} THEN dirty["patterns"] ELSE Symbols
               todo == Queue(SymbolOrder, ids \intersect Candidates \intersect SymbolsIn(Indexed))
    <3>1. PICK budget \in Budgets["enrich"] : jobs' = [jobs EXCEPT !["enrich"] = WorkingOn(ids, todo, budget)]
      BY <2>1, Zenon DEF StartEnrich
    <3> QED BY <2>1, <3>1, SpendStarts DEF StartEnrich, Passes
  <2>2. CASE Work("enrich")
    BY <2>2, SpendWorks DEF Passes
  <2>3. CASE ClearTags \/ AddTags
    BY <2>3, SpendMoves DEF ClearTags, AddTags, WorkEnded
  <2>4. CASE CleanJudged
    BY <2>4, Busy, SpendEnds DEF CleanJudged
  <2> QED BY <1>3, <2>1, <2>2, <2>3, <2>4 DEF Enrich
<1>4. CASE Summarize
  <2>1. CASE StartSummarize
    <3> DEFINE ids == dirty["summaries"]
               wanted == IF ids # {} THEN Paths(ids) ELSE Files
               todo == Queue(FileOrder, wanted \intersect Indexed)
    <3>1. PICK budget \in Budgets["summarize"] : jobs' = [jobs EXCEPT !["summarize"] = WorkingOn(ids, todo, budget)]
      BY <2>1, Zenon DEF StartSummarize
    <3> QED BY <2>1, <3>1, SpendStarts DEF StartSummarize, Passes
  <2>2. CASE Work("summarize")
    BY <2>2, SpendWorks DEF Passes
  <2>3. CASE SummarizeRepo
    BY <2>3, SpendOnRepo
  <2>4. CASE SkipRepo \/ WriteSummaries \/ EmbedSummaries
    BY <2>4, SpendMoves DEF SkipRepo, WorkEnded, WriteSummaries, EmbedSummaries
  <2>5. CASE CleanSummarized
    BY <2>5, Busy, SpendEnds DEF CleanSummarized
  <2> QED BY <1>4, <2>1, <2>2, <2>3, <2>4, <2>5 DEF Summarize
<1>5. ASSUME NEW c \in Commands, Fail(c) PROVE SpendInv'
  BY <1>5, SpendEnds DEF Fail
<1>6. CASE UNCHANGED vars
  BY <1>6 DEF SpendInv, Idle, SpendOk
<1> QED BY <1>1, <1>2, <1>3, <1>4, <1>5, <1>6 DEF Next

\* enrich and summarize spend less than a batch beyond their budget, which is checked before
\* a batch and charged after it (enrich/enricher.py, enrich/summary_enricher.py), whatever else
\* runs at the same time: for every repository, every budget and every batch size.
THEOREM BudgetsHold == Spec => []SpendBounded
<1>1. Init => SpendInv
  BY DEF Init, SpendInv
<1>2. SpendInv /\ [Next]_vars => SpendInv'
  BY SpendStep
<1>3. SpendInv => SpendBounded
  BY DEF SpendInv, SpendOk, SpendBounded, Passes
<1> QED BY <1>1, <1>2, <1>3, PTL DEF Spec
=============================================================================
