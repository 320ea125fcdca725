----------------------- MODULE IncrementalIndexProofs -----------------------
(***************************************************************************)
(* Theorems about IncrementalIndex, for every repository, every bound and  *)
(* every setting of the environment unless a theorem says otherwise.       *)
(***************************************************************************)
EXTENDS IncrementalIndex, WellFoundedInduction, FiniteSetTheorems, TLAPS

(***************************************************************************)
(* What holds of the run's variables at each of its steps.                 *)
(***************************************************************************)
Running == pc \notin {"idle", "prune"}
Applying == pc \in {"upsert", "clear", "resolve", "dirty", "record", "save"}

\* A skipped file is in the graph as it is in the tree, mid-run as well.
SkippedIsStored == \A f \in Files : tree[f] = manifest[f] => content[f] = manifest[f]

\* A file the run will delete or extract has left the recorded content for good.
ChangedStaysChanged ==
  Running => \A f \in Files : hashes[f] # manifest[f] => tree[f] # manifest[f]

\* Deletions are of removed files, and no loop leaves anything to do.
TodoIsChanged ==
  /\ pc = "delete" => todo \subseteq Removed
  /\ pc = "upsert" => todo \subseteq FilesIn(got)
  /\ pc \notin {"delete", "upsert"} => todo = {}

\* A file that was read is not what is recorded, and is none the run removed.
ReadIsNews ==
  Applying => \A f \in FilesIn(got) : tree[f] # manifest[f] /\ f \notin Removed

\* A deleted file's part is gone, or is about to be deleted.
RemovedIsGone ==
  Running => \A f \in Removed : content[f] = NoFile \/ (pc = "delete" /\ f \in todo)

\* A touched file that still is what was hashed was read as hashed, and is
\* stored or about to be.
TouchedIsStored ==
  Applying => \A f \in Touched :
    tree[f] = hashes[f] => got[f] = hashes[f] /\ (f \in todo \/ content[f] = got[f])

\* A full run is a first run: nothing is recorded yet.
FullIsFirst == /\ Running /\ mode = "full" => manifest = Nothing
               /\ ~Running => hashes = Nothing /\ got = Nothing

DetectorInv ==
  /\ SkippedIsStored /\ ChangedStaysChanged /\ TodoIsChanged /\ ReadIsNews
  /\ RemovedIsGone /\ TouchedIsStored /\ FullIsFirst

(***************************************************************************)
(* Types.                                                                  *)
(***************************************************************************)
\* The symbols of any extracted files are among Symbols.
LEMMA SymbolsInType ==
  ASSUME NEW g \in Snapshot, NEW fs \in SUBSET Files
  PROVE  SymbolsIn(g, fs) \subseteq Symbols
  BY ContentsAssumption DEF SymbolsIn, SymbolsOf, Symbols, Snapshot

\* A resolved edge is owned by a file of the scope and starts in it.
LEMMA ResolvedEdgeType ==
  ASSUME NEW g \in Snapshot, NEW scope, NEW e \in ResolvedEdges(g, scope)
  PROVE  /\ e.origin \in Files /\ e.kind \in {"IMPORTS", "CALLS"}
         /\ e.src \in {FileNode(e.origin)} \union SymbolsOf(e.origin, g[e.origin])
<1>1. PICK f \in scope \intersect FilesIn(g) : e \in ImportEdges(g, f) \union CallEdges(g, f)
  BY DEF ResolvedEdges
<1>2. f \in Files /\ g[f] \in Contents /\ g[f] # NoFile
  BY <1>1 DEF FilesIn, Snapshot
<1>3. CASE e \in ImportEdges(g, f)
  <2>1. PICK imp \in g[f].imports :
          e \in {Edge(f, FileNode(f), "IMPORTS", t) : t \in ImportTargets(g, f, imp)}
    BY <1>3 DEF ImportEdges
  <2> QED BY <1>2, <2>1 DEF Edge
<1>4. CASE e \in CallEdges(g, f)
  <2>1. PICK call \in g[f].calls :
          e \in {Edge(f, Symbol(f, call[1]), "CALLS", t) : t \in CallTargets(g, f, call[2])}
    BY <1>4 DEF CallEdges
  <2>2. call[1] \in g[f].defs
    BY <1>2, <2>1, ContentsAssumption
  <2> QED BY <1>2, <2>1, <2>2 DEF Edge, SymbolsOf
<1> QED BY <1>1, <1>3, <1>4

\* Recording and pruning keep the rows of a symbol rows.
LEMMA LogType ==
  ASSUME NEW rows \in SUBSET EventRow, NEW c \in Nat, NEW horizon
  PROVE  /\ Record(rows, "opened", c) \in SUBSET EventRow
         /\ Record(rows, "closed", c) \in SUBSET EventRow
         /\ Prune(rows, horizon) \in SUBSET EventRow
<1>1. \A b \in BOOLEAN : /\ [event |-> "opened", at |-> c, second |-> b] \in EventRow
                         /\ [event |-> "closed", at |-> c, second |-> b] \in EventRow
  BY DEF EventRow
<1>2. (\E r \in rows : r.at = c) \in BOOLEAN
  OBVIOUS
<1>3. Record(rows, "opened", c) \in SUBSET EventRow
  BY <1>1, <1>2 DEF Record
<1>4. Record(rows, "closed", c) \in SUBSET EventRow
  BY <1>1, <1>2 DEF Record
<1>5. Prune(rows, horizon) \in SUBSET EventRow
  BY DEF Prune
<1> QED BY <1>3, <1>4, <1>5

USE DEF environment, disk, run, vars

\* Every variable keeps its type.
THEOREM Typing == Spec => []TypeOK
<1>1. Init => TypeOK
  <2> SUFFICES ASSUME Init PROVE TypeOK
    OBVIOUS
  <2>1. tree \in Snapshot /\ Nothing \in Snapshot
    BY VersionsAssumption DEF Init, Trees, Snapshot, Nothing
  <2> QED BY <2>1 DEF Init, TypeOK
<1>2. TypeOK /\ [Next]_vars => TypeOK'
  <2> SUFFICES ASSUME TypeOK, [Next]_vars PROVE TypeOK'
    OBVIOUS
  <2> USE DEF TypeOK
  <2>1. ASSUME NEW f \in Files, Edit(f) PROVE TypeOK'
    <3>1. tree' \in Snapshot
      BY <2>1, VersionsAssumption DEF Edit, Snapshot
    <3> QED BY <2>1, <3>1 DEF Edit
  <2>2. CASE Commit
    BY <2>2 DEF Commit
  <2>3. CASE BeginRefresh
    <3>1. hashes' \in Snapshot /\ content' \in Snapshot /\ UNCHANGED <<content, manifest>>
      BY <2>3 DEF BeginRefresh, Detect
    <3>2. todo' \subseteq Files /\ Changed' \subseteq Files /\ Removed' \subseteq Files
      BY <2>3, <3>1 DEF BeginRefresh, Removed, Touched, Changed
    <3>3. before' \subseteq Symbols /\ vanishing' \subseteq Symbols
      BY <2>3, <3>2, SymbolsInType DEF BeginRefresh
    <3>4. pc' \in {"save", "read", "delete"}
      BY <2>3 DEF BeginRefresh
    <3> QED BY <2>3, <3>1, <3>2, <3>3, <3>4 DEF BeginRefresh, Detect
  <2>4. CASE BeginFull
    BY <2>4 DEF BeginFull, Detect
  <2>5. CASE ReadTouched
    <3>1. got' \in Snapshot
      BY <2>5 DEF ReadTouched, Snapshot
    <3>2. todo' \subseteq Files
      BY <2>5 DEF ReadTouched, FilesIn
    <3> QED BY <2>5, <3>1, <3>2 DEF ReadTouched, AfterUpserts
  <2>6. ASSUME NEW f \in Files, DeleteFile(f) PROVE TypeOK'
    <3>1. content' \in Snapshot
      BY <2>6 DEF DeleteFile, Snapshot
    <3>2. edges' \subseteq edges
      BY <2>6 DEF DeleteFile
    <3> QED BY <2>6, <3>1, <3>2 DEF DeleteFile
  <2>7. ASSUME NEW f \in Files, Upsert(f) PROVE TypeOK'
    <3>1. content' \in Snapshot
      BY <2>7 DEF Upsert, Snapshot
    <3>2. edges' \subseteq edges
      BY <2>7 DEF Upsert
    <3> QED BY <2>7, <3>1, <3>2 DEF Upsert, AfterUpserts
  <2>8. CASE ClearResolved
    BY <2>8 DEF ClearResolved, Reached
  <2>9. CASE Resolve
    <3>1. PICK scope : edges' \subseteq edges \union ResolvedEdges(content, scope)
      BY <2>9 DEF Resolve
    <3>2. \A e \in edges' : e.origin \in Files /\ e.kind \in {"IMPORTS", "CALLS"}
      BY <3>1, ResolvedEdgeType
    <3>3. \A p \in packages' : p[1] = "package"
      BY <2>9 DEF Resolve, Externals, Package
    <3> QED BY <2>9, <3>2, <3>3 DEF Resolve
  <2>10. CASE MarkDirty
    <3>1. After \subseteq Symbols
      BY SymbolsInType DEF After, Touched
    <3>2. dirty' \subseteq Symbols
      BY <2>10, <3>1 DEF MarkDirty, DirtyIds, Neighbours
    <3> QED BY <2>10, <3>2 DEF MarkDirty
  <2>11. CASE FlushRecorder
    <3>1. log' \in [Symbols -> SUBSET EventRow]
      BY <2>11, LogType DEF FlushRecorder
    <3> QED BY <2>11, <3>1 DEF FlushRecorder
  <2>12. CASE SaveMeta
    <3>1. Nothing \in Snapshot
      BY DEF Nothing, Snapshot
    <3> QED BY <2>12, <3>1 DEF SaveMeta, Rest
  <2>13. CASE PruneLog
    <3>1. log' \in [Symbols -> SUBSET EventRow]
      BY <2>13, LogType DEF PruneLog
    <3> QED BY <2>13, <3>1 DEF PruneLog
  <2>14. CASE Crash
    <3>1. Nothing \in Snapshot
      BY DEF Nothing, Snapshot
    <3> QED BY <2>14, <3>1 DEF Crash, Rest
  <2>15. CASE Drain
    BY <2>15 DEF Drain
  <2>16. CASE UNCHANGED vars
    BY <2>16
  <2> QED BY <2>1, <2>2, <2>3, <2>4, <2>5, <2>6, <2>7, <2>8, <2>9, <2>10, <2>11, <2>12,
             <2>13, <2>14, <2>15, <2>16 DEF Next, Step
<1> QED BY <1>1, <1>2, PTL DEF Spec

(***************************************************************************)
(* No dangling edges.  The graph is consistent after every transaction, so *)
(* a reader or a crash between two of them finds it so.                    *)
(***************************************************************************)
UpsertsWhatWasRead == pc = "upsert" => todo \subseteq FilesIn(got)
GraphInv == NoDangling /\ UpsertsWhatWasRead

\* Only files that were read are upserted.
LEMMA FilesInStep ==
  ASSUME UpsertsWhatWasRead, TypeOK, TypeOK', [Next]_vars
  PROVE  UpsertsWhatWasRead'
<1> USE DEF UpsertsWhatWasRead
<1>1. CASE ReadTouched
  BY <1>1 DEF ReadTouched, FilesIn
<1>2. ASSUME NEW f \in Files, Upsert(f) PROVE UpsertsWhatWasRead'
  BY <1>2 DEF Upsert, FilesIn
<1>3. CASE ~(\E f \in Files : Upsert(f)) /\ ~ReadTouched
  <2>1. pc' = "upsert" => pc = "upsert" /\ UNCHANGED <<todo, got>>
    BY <1>3 DEF Next, Step, Edit, Commit, BeginRefresh, BeginFull, Detect, DeleteFile,
      ClearResolved, Resolve, MarkDirty, FlushRecorder, SaveMeta, PruneLog, Crash, Drain
  <2> QED BY <2>1 DEF FilesIn
<1> QED BY <1>1, <1>2, <1>3

\* Every edge has both its ends in the graph, and starts in the file that owns it.
THEOREM EdgesAnchored == Spec => []NoDangling
<1>1. Init => GraphInv
  BY DEF Init, GraphInv, NoDangling, UpsertsWhatWasRead
<1>2. TypeOK /\ TypeOK' /\ GraphInv /\ [Next]_vars => GraphInv'
  <2> SUFFICES ASSUME TypeOK, TypeOK', GraphInv, [Next]_vars PROVE NoDangling'
    BY FilesInStep DEF GraphInv
  <2> USE DEF GraphInv
  <2>1. ASSUME NEW f \in Files, DeleteFile(f) PROVE NoDangling'
    <3> DEFINE gone == {FileNode(f)} \union SymbolsOf(f, content[f])
    <3>1. SUFFICES ASSUME NEW e \in edges'
                   PROVE  /\ {e.src, e.dst} \subseteq NodesNow'
                          /\ e.src \in ({FileNode(e.origin)} \union SymbolsOf(e.origin, content[e.origin]))'
      BY DEF NoDangling
    <3>2. e \in edges /\ e.origin # f /\ ~Touches(e, gone) /\ e.origin \in Files
      BY <2>1, <3>1 DEF DeleteFile, TypeOK
    <3>3. content' = [content EXCEPT ![f] = NoFile] /\ packages' = packages
      BY <2>1 DEF DeleteFile
    <3>4. content'[e.origin] = content[e.origin]
      BY <3>2, <3>3 DEF TypeOK, Snapshot
    <3>5. ASSUME NEW n \in NodesNow, n \notin gone PROVE n \in NodesNow'
      <4>1. CASE n \in packages
        BY <3>3, <4>1 DEF NodesNow
      <4>2. CASE \E h \in FilesIn(content) : n = FileNode(h)
        <5>1. PICK h \in FilesIn(content) : n = FileNode(h)
          BY <4>2
        <5>2. h \in FilesIn(content')
          BY <5>1, <3>3, <3>5 DEF FilesIn, TypeOK, Snapshot
        <5> QED BY <5>1, <5>2 DEF NodesNow, ExtractedNodes
      <4>3. CASE n \in SymbolsIn(content, Files)
        <5>1. PICK h \in Files : n \in SymbolsOf(h, content[h])
          BY <4>3 DEF SymbolsIn
        <5>2. content'[h] = content[h]
          BY <5>1, <3>3, <3>5 DEF TypeOK, Snapshot
        <5>3. n \in SymbolsIn(content', Files)
          BY <5>1, <5>2 DEF SymbolsIn
        <5> QED BY <5>3 DEF NodesNow, ExtractedNodes
      <4> QED BY <4>1, <4>2, <4>3 DEF NodesNow, ExtractedNodes
    <3> QED BY <3>2, <3>4, <3>5 DEF NoDangling, Touches
  <2>2. ASSUME NEW f \in Files, Upsert(f) PROVE NoDangling'
    <3> DEFINE gone == SymbolsOf(f, content[f]) \ SymbolsOf(f, got[f])
    <3>1. SUFFICES ASSUME NEW e \in edges'
                   PROVE  /\ {e.src, e.dst} \subseteq NodesNow'
                          /\ e.src \in ({FileNode(e.origin)} \union SymbolsOf(e.origin, content[e.origin]))'
      BY DEF NoDangling
    <3>2. e \in edges /\ e.origin # f /\ ~Touches(e, gone) /\ e.origin \in Files
      BY <2>2, <3>1 DEF Upsert, TypeOK
    <3>3. content' = [content EXCEPT ![f] = got[f]] /\ packages' = packages /\ got[f] # NoFile
      BY <2>2 DEF Upsert, UpsertsWhatWasRead, FilesIn
    <3>4. content'[e.origin] = content[e.origin] /\ content'[f] = got[f]
      BY <3>2, <3>3 DEF TypeOK, Snapshot
    <3>5. ASSUME NEW n \in NodesNow, n \notin gone PROVE n \in NodesNow'
      <4>1. CASE n \in packages
        BY <3>3, <4>1 DEF NodesNow
      <4>2. CASE \E h \in FilesIn(content) : n = FileNode(h)
        <5>1. PICK h \in FilesIn(content) : n = FileNode(h)
          BY <4>2
        <5>2. h \in FilesIn(content')
          BY <5>1, <3>3 DEF FilesIn, TypeOK, Snapshot
        <5> QED BY <5>1, <5>2 DEF NodesNow, ExtractedNodes
      <4>3. CASE n \in SymbolsIn(content, Files)
        <5>1. PICK h \in Files : n \in SymbolsOf(h, content[h])
          BY <4>3 DEF SymbolsIn
        <5>2. n \in SymbolsOf(h, content'[h])
          BY <5>1, <3>3, <3>5 DEF TypeOK, Snapshot
        <5>3. n \in SymbolsIn(content', Files)
          BY <5>1, <5>2 DEF SymbolsIn
        <5> QED BY <5>3 DEF NodesNow, ExtractedNodes
      <4> QED BY <4>1, <4>2, <4>3 DEF NodesNow, ExtractedNodes
    <3> QED BY <3>2, <3>4, <3>5 DEF NoDangling, Touches
  <2>3. CASE ClearResolved
    <3>1. edges' \subseteq edges /\ content' = content
          /\ packages' = {p \in packages : \E e \in edges' : e.dst = p}
      BY <2>3 DEF ClearResolved, Reached
    <3>2. \A e \in edges' : e.src \in ExtractedNodes
      <4>1. SUFFICES ASSUME NEW e \in edges' PROVE e.src \in ExtractedNodes
        OBVIOUS
      <4>2. e \in edges
        BY <3>1
      <4>3. e.src \in NodesNow /\ e.src \in {FileNode(e.origin)} \union SymbolsOf(e.origin, content[e.origin])
        BY <4>2 DEF NoDangling
      <4>4. e.src[1] # "package"
        BY <4>3 DEF FileNode, SymbolsOf, Symbol
      <4> QED BY <4>3, <4>4 DEF NodesNow, TypeOK
    <3> QED BY <3>1, <3>2 DEF NoDangling, NodesNow, ExtractedNodes
  <2>4. CASE Resolve
    <3>1. content' = content /\ packages \subseteq packages'
      BY <2>4 DEF Resolve
    <3>2. PICK scope : edges' = edges \union {e \in ResolvedEdges(content, scope) :
                                     {e.src, e.dst} \subseteq ExtractedNodes \union packages'}
      BY <2>4 DEF Resolve
    <3>3. ASSUME NEW e \in edges PROVE {e.src, e.dst} \subseteq NodesNow'
      BY <3>1 DEF NoDangling, NodesNow, ExtractedNodes
    <3>4. ASSUME NEW e \in ResolvedEdges(content, scope),
                 {e.src, e.dst} \subseteq ExtractedNodes \union packages'
          PROVE  /\ {e.src, e.dst} \subseteq NodesNow'
                 /\ e.src \in {FileNode(e.origin)} \union SymbolsOf(e.origin, content[e.origin])
      BY <3>1, <3>4, ResolvedEdgeType DEF NodesNow, ExtractedNodes, TypeOK
    <3> QED BY <3>1, <3>2, <3>3, <3>4 DEF NoDangling
  <2>5. CASE UNCHANGED <<content, edges, packages>>
    BY <2>5 DEF NoDangling, NodesNow, ExtractedNodes
  <2>6. CASE ~(\E f \in Files : DeleteFile(f) \/ Upsert(f)) /\ ~ClearResolved /\ ~Resolve
    <3>1. UNCHANGED <<content, edges, packages>>
      BY <2>6 DEF Next, Step, Edit, Commit, BeginRefresh, BeginFull, Detect, ReadTouched,
        MarkDirty, FlushRecorder, SaveMeta, PruneLog, Crash, Drain
    <3> QED BY <3>1, <2>5
  <2> QED BY <2>1, <2>2, <2>3, <2>4, <2>6
<1> QED BY <1>1, <1>2, Typing, PTL DEF Spec, GraphInv

(***************************************************************************)
(* The detector is sound when no file returns to a recorded content and no *)
(* full index follows a first one: without either assumption it is not.    *)
(***************************************************************************)
LEMMA DetectorInit == Init => DetectorInv
  BY VersionsAssumption DEF Init, DetectorInv, SkippedIsStored, ChangedStaysChanged, TodoIsChanged,
     ReadIsNews, RemovedIsGone, TouchedIsStored, FullIsFirst, Running, Applying, Nothing, Snapshot

\* Every step keeps the detector's invariant.
LEMMA DetectorStep ==
  ASSUME ~Reverts, ~ForceFull, TypeOK, DetectorInv, [Next]_vars
  PROVE  DetectorInv'
<1> USE DEF DetectorInv, TypeOK
<1>1. ASSUME NEW f \in Files, Edit(f) PROVE DetectorInv'
  <2>1. PICK c : /\ tree' = [tree EXCEPT ![f] = c]
                 /\ c # manifest[f] /\ (Idle \/ c # hashes[f])
    BY <1>1 DEF Edit
  <2>2. UNCHANGED <<manifest, content, hashes, got, todo, pc, mode>>
    BY <1>1 DEF Edit
  <2>3. \A h \in Files : tree'[h] = tree[h] \/ (h = f /\ tree'[h] = c)
    BY <2>1 DEF Snapshot
  <2>4. SkippedIsStored'
    BY <2>1, <2>2, <2>3 DEF SkippedIsStored
  <2>5. ChangedStaysChanged' /\ ReadIsNews'
    BY <2>1, <2>2, <2>3 DEF ChangedStaysChanged, ReadIsNews, Running, Applying, FilesIn, Removed
  <2>6. TodoIsChanged' /\ RemovedIsGone' /\ FullIsFirst'
    BY <2>2 DEF TodoIsChanged, RemovedIsGone, FullIsFirst, Running, Removed, FilesIn, Nothing
  <2>7. TouchedIsStored'
    BY <2>1, <2>2, <2>3 DEF TouchedIsStored, Applying, Touched, Idle
  <2> QED BY <2>4, <2>5, <2>6, <2>7
<1>2. CASE UNCHANGED <<tree, manifest, content, hashes, got, todo, pc, mode>>
  BY <1>2 DEF SkippedIsStored, ChangedStaysChanged, TodoIsChanged, ReadIsNews, RemovedIsGone,
    TouchedIsStored, FullIsFirst, Running, Applying, Removed, Touched, FilesIn, Nothing
<1>3. CASE BeginRefresh
  <2>1. /\ hashes' = tree /\ mode' = "incremental" /\ todo' = Removed'
        /\ UNCHANGED <<tree, manifest, content, got>>
    BY <1>3 DEF BeginRefresh, Detect
  <2>2. /\ pc' \in {"save", "read", "delete"}
        /\ pc' = "save" => Changed' = {}
        /\ pc' # "delete" => Removed' = {}
    BY <1>3 DEF BeginRefresh, Changed
  <2>3. SkippedIsStored' /\ ChangedStaysChanged'
    BY <2>1 DEF SkippedIsStored, ChangedStaysChanged
  <2>4. TodoIsChanged' /\ RemovedIsGone'
    BY <2>1, <2>2 DEF TodoIsChanged, RemovedIsGone
  <2>5. ReadIsNews' /\ TouchedIsStored'
    <3>1. CASE pc' = "save"
      <4>1. Touched' = {}
        BY <2>2, <3>1 DEF Changed
      <4>2. got' = Nothing
        BY <1>3, <2>1 DEF FullIsFirst, BeginRefresh, Detect, Idle, Running
      <4> QED BY <4>1, <4>2 DEF ReadIsNews, TouchedIsStored, FilesIn, Nothing
    <3> QED BY <2>2, <3>1 DEF ReadIsNews, TouchedIsStored, Applying
  <2>6. FullIsFirst'
    BY <2>1, <2>2 DEF FullIsFirst, Running
  <2> QED BY <2>3, <2>4, <2>5, <2>6
<1>4. CASE BeginFull
  <2>1. /\ hashes' = tree /\ mode' = "full" /\ todo' = {} /\ pc' = "read"
        /\ UNCHANGED <<tree, manifest, content, got>> /\ manifest = Nothing
    BY <1>4, FlagsAssumption DEF BeginFull, Detect, Indexed
  <2>2. SkippedIsStored' /\ ChangedStaysChanged' /\ TodoIsChanged' /\ FullIsFirst'
    BY <2>1 DEF SkippedIsStored, ChangedStaysChanged, TodoIsChanged, FullIsFirst, Nothing, Running
  <2>3. RemovedIsGone'
    BY <2>1 DEF RemovedIsGone, Removed, Nothing
  <2>4. ReadIsNews' /\ TouchedIsStored'
    BY <2>1 DEF ReadIsNews, TouchedIsStored, Applying
  <2> QED BY <2>2, <2>3, <2>4
<1>5. CASE ReadTouched
  <2>1. /\ pc = "read" /\ Running /\ Running' /\ pc' \in {"upsert", "clear", "resolve"}
        /\ UNCHANGED <<tree, manifest, content, hashes, mode>>
        /\ todo' = FilesIn(got') /\ (pc' # "upsert" => todo' = {})
    BY <1>5 DEF ReadTouched, Running, AfterUpserts
  <2>2. \A f \in Files : /\ got'[f] = tree[f] \/ got'[f] = NoFile
                         /\ f \in Touched => got'[f] = tree[f]
                         /\ got'[f] # NoFile => f \in Touched \/ mode = "full"
    BY <1>5 DEF ReadTouched, Touched
  <2>3. SkippedIsStored' /\ ChangedStaysChanged' /\ TodoIsChanged' /\ FullIsFirst'
    BY <2>1 DEF SkippedIsStored, ChangedStaysChanged, TodoIsChanged, FullIsFirst, Running, Nothing
  <2>4. RemovedIsGone'
    BY <2>1 DEF RemovedIsGone, Removed, Running
  <2>5. ReadIsNews'
    <3>1. SUFFICES ASSUME NEW f \in Files, got'[f] # NoFile PROVE tree[f] # manifest[f] /\ f \notin Removed
      BY <2>1 DEF ReadIsNews, FilesIn, Removed
    <3>2. CASE mode = "full"
      BY <2>1, <2>2, <3>1, <3>2 DEF FullIsFirst, Nothing, Removed
    <3>3. CASE f \in Touched
      BY <2>1, <3>3 DEF ChangedStaysChanged, Touched, Removed
    <3> QED BY <2>2, <3>1, <3>2, <3>3
  <2>6. TouchedIsStored'
    BY <2>1, <2>2 DEF TouchedIsStored, Touched, FilesIn
  <2> QED BY <2>3, <2>4, <2>5, <2>6
<1>6. ASSUME NEW f \in Files, DeleteFile(f) PROVE DetectorInv'
  <2>1. /\ pc = "delete" /\ f \in todo /\ f \in Removed /\ todo' = todo \ {f}
        /\ pc' = (IF todo = {f} THEN "read" ELSE "delete")
        /\ content' = [content EXCEPT ![f] = NoFile]
        /\ UNCHANGED <<tree, manifest, hashes, got, mode>>
    BY <1>6 DEF DeleteFile, TodoIsChanged
  <2>2. tree[f] # manifest[f]
    BY <2>1 DEF ChangedStaysChanged, Running, Removed
  <2>3. \A h \in Files : content'[h] = content[h] \/ (h = f /\ content'[h] = NoFile)
    BY <2>1 DEF Snapshot
  <2>4. SkippedIsStored' /\ ChangedStaysChanged' /\ FullIsFirst'
    BY <2>1, <2>2, <2>3 DEF SkippedIsStored, ChangedStaysChanged, FullIsFirst, Running, Nothing
  <2>5. TodoIsChanged' /\ ReadIsNews' /\ TouchedIsStored'
    BY <2>1 DEF TodoIsChanged, ReadIsNews, TouchedIsStored, Applying, Removed
  <2>6. RemovedIsGone'
    BY <2>1, <2>3 DEF RemovedIsGone, Removed, Running, Snapshot
  <2> QED BY <2>4, <2>5, <2>6
<1>7. ASSUME NEW f \in Files, Upsert(f) PROVE DetectorInv'
  <2>1. /\ pc = "upsert" /\ f \in todo /\ got[f] # NoFile /\ todo' = todo \ {f}
        /\ pc' \in {"upsert", "clear", "resolve"} /\ (pc' # "upsert" => todo' = {})
        /\ content' = [content EXCEPT ![f] = got[f]]
        /\ UNCHANGED <<tree, manifest, hashes, got, mode>>
    BY <1>7 DEF Upsert, TodoIsChanged, FilesIn, AfterUpserts
  <2>2. tree[f] # manifest[f]
    BY <2>1 DEF ReadIsNews, Applying, FilesIn
  <2>3. \A h \in Files : content'[h] = content[h] \/ (h = f /\ content'[h] = got[h])
    BY <2>1 DEF Snapshot
  <2>4. SkippedIsStored' /\ ChangedStaysChanged' /\ FullIsFirst'
    BY <2>1, <2>2, <2>3 DEF SkippedIsStored, ChangedStaysChanged, FullIsFirst, Running, Nothing
  <2>5. TodoIsChanged' /\ ReadIsNews'
    BY <2>1 DEF TodoIsChanged, ReadIsNews, Applying, FilesIn, Removed
  <2>6. f \notin Removed
    BY <2>1 DEF ReadIsNews, Applying, FilesIn
  <2>7. RemovedIsGone'
    BY <2>1, <2>3, <2>6 DEF RemovedIsGone, Removed, Running
  <2>8. TouchedIsStored'
    BY <2>1, <2>3 DEF TouchedIsStored, Applying, Touched, Snapshot
  <2> QED BY <2>4, <2>5, <2>7, <2>8
<1>8. CASE ClearResolved \/ Resolve \/ MarkDirty \/ FlushRecorder
  <2>1. /\ Applying /\ Applying' /\ Running' /\ pc \notin {"delete", "upsert"}
        /\ pc' \notin {"delete", "upsert"}
        /\ UNCHANGED <<tree, manifest, content, hashes, got, todo, mode>>
    BY <1>8 DEF ClearResolved, Resolve, MarkDirty, FlushRecorder, Applying, Running
  <2>2. SkippedIsStored' /\ ChangedStaysChanged' /\ TodoIsChanged' /\ ReadIsNews'
    BY <2>1 DEF SkippedIsStored, ChangedStaysChanged, TodoIsChanged, ReadIsNews, Applying,
      Running, FilesIn, Removed
  <2>3. RemovedIsGone' /\ TouchedIsStored' /\ FullIsFirst'
    BY <2>1 DEF RemovedIsGone, TouchedIsStored, FullIsFirst, Applying, Running, Removed,
      Touched, Nothing
  <2> QED BY <2>2, <2>3
<1>9. CASE SaveMeta
  <2>1. /\ pc = "save" /\ pc' = "prune" /\ manifest' = hashes /\ todo' = {} /\ todo = {}
        /\ hashes' = Nothing /\ got' = Nothing /\ UNCHANGED <<tree, content>>
    BY <1>9 DEF SaveMeta, Rest, TodoIsChanged
  <2>2. SkippedIsStored'
    <3>1. SUFFICES ASSUME NEW f \in Files, tree[f] = hashes[f] PROVE content[f] = hashes[f]
      BY <2>1 DEF SkippedIsStored
    <3>2. CASE f \in Removed
      BY <2>1, <3>2 DEF RemovedIsGone, Running, Removed
    <3>3. CASE f \in Touched
      BY <2>1, <3>1, <3>3 DEF TouchedIsStored, Applying
    <3>4. CASE hashes[f] = manifest[f]
      BY <3>1, <3>4 DEF SkippedIsStored
    <3> QED BY <3>2, <3>3, <3>4 DEF Removed, Touched
  <2> QED BY <2>1, <2>2 DEF ChangedStaysChanged, TodoIsChanged, ReadIsNews, RemovedIsGone,
        TouchedIsStored, FullIsFirst, Running, Applying
<1>10. CASE PruneLog \/ Crash
  <2>1. /\ pc' = "idle" /\ UNCHANGED <<tree, manifest, content>>
        /\ todo' = {} /\ hashes' = Nothing /\ got' = Nothing
    BY <1>10 DEF PruneLog, Crash, Rest, TodoIsChanged, FullIsFirst, Running
  <2> QED BY <2>1 DEF SkippedIsStored, ChangedStaysChanged, TodoIsChanged, ReadIsNews,
        RemovedIsGone, TouchedIsStored, FullIsFirst, Running, Applying
<1>11. CASE Commit \/ Drain \/ UNCHANGED vars
  BY <1>2, <1>11 DEF Commit, Drain
<1> QED BY <1>1, <1>3, <1>4, <1>5, <1>6, <1>7, <1>8, <1>9, <1>10, <1>11 DEF Next, Step

\* A file the detector skips is in the graph as it is in the tree.
THEOREM DetectorIsSound ==
  ASSUME ~Reverts, ~ForceFull
  PROVE  Spec => []DetectorSound
<1>1. Init => DetectorInv
  BY DetectorInit
<1>2. TypeOK /\ DetectorInv /\ [Next]_vars => DetectorInv'
  BY DetectorStep
<1>3. DetectorInv => DetectorSound
  BY DEF DetectorInv, SkippedIsStored, DetectorSound
<1> QED BY <1>1, <1>2, <1>3, Typing, PTL DEF Spec

\* Hence the extracted part of an index that is up to date is the tree's.
COROLLARY UpToDateMeansExtracted ==
  ASSUME ~Reverts, ~ForceFull
  PROVE  Spec => [](Synced => content = tree)
<1>1. TypeOK /\ DetectorSound => (Synced => content = tree)
  BY DEF TypeOK, DetectorSound, Synced, Snapshot
<1> QED BY <1>1, Typing, DetectorIsSound, PTL

\* Every step of a run is a step of the manifest protocol, or changes nothing it
\* speaks of.
THEOREM ImplementsProtocol ==
  ASSUME ~Reverts, ~ForceFull
  PROVE  Spec => ImplementsManifestProtocol
<1>1. Init => Manifest!Init
  BY VersionsAssumption DEF Init, Manifest!Init, Manifest!Snapshot, Trees, Snapshot, Nothing
<1>2. TypeOK /\ TypeOK' /\ DetectorInv /\ DetectorInv' /\ [Next]_vars
        => [Manifest!Next]_<<tree, manifest, content>>
  <2> SUFFICES ASSUME TypeOK, TypeOK', DetectorInv, DetectorInv', [Next]_vars
               PROVE  [Manifest!Next]_<<tree, manifest, content>>
    OBVIOUS
  <2> USE DEF Snapshot, Manifest!Next
  <2>1. ASSUME NEW f \in Files, Edit(f) PROVE Manifest!Edit(f)
    <3>1. PICK c \in Versions[f] \union {NoFile} :
            c # manifest[f] /\ tree' = [tree EXCEPT ![f] = c]
      BY <2>1 DEF Edit
    <3> QED BY <2>1, <3>1, VersionsAssumption DEF Edit, Manifest!Edit
  <2>2. ASSUME NEW f \in Files, DeleteFile(f) PROVE Manifest!Work(f)
    <3>1. tree[f] # manifest[f]
      BY <2>2 DEF DeleteFile, DetectorInv, TodoIsChanged, ChangedStaysChanged, Running, Removed
    <3> QED BY <2>2, <3>1 DEF DeleteFile, Manifest!Work, Manifest!Skipped
  <2>3. ASSUME NEW f \in Files, Upsert(f) PROVE Manifest!Work(f)
    <3>1. tree[f] # manifest[f]
      BY <2>3 DEF Upsert, DetectorInv, TodoIsChanged, ReadIsNews, Applying
    <3>2. got[f] \in Contents \union {NoFile}
      BY DEF TypeOK
    <3> QED BY <2>3, <3>1, <3>2 DEF Upsert, Manifest!Work, Manifest!Skipped
  <2>4. CASE SaveMeta
    <3>1. manifest' \in Snapshot /\ UNCHANGED <<tree, content>>
      BY <2>4 DEF SaveMeta, TypeOK
    <3>2. \A f \in Files : tree[f] = manifest'[f] => content[f] = tree[f]
      BY <3>1 DEF DetectorInv, SkippedIsStored
    <3> QED BY <3>1, <3>2 DEF Manifest!Publish, Manifest!Snapshot
  <2>5. CASE ~SaveMeta /\ ~(\E f \in Files : Edit(f) \/ DeleteFile(f) \/ Upsert(f))
    BY <2>5 DEF Next, Step, Commit, BeginRefresh, BeginFull, Detect, ReadTouched, ClearResolved,
      Resolve, MarkDirty, FlushRecorder, PruneLog, Crash, Drain
  <2> QED BY <2>1, <2>2, <2>3, <2>4, <2>5
<1>3. DetectorInv /\ TypeOK /\ [Next]_vars => DetectorInv'
  BY DetectorStep
<1> QED BY <1>1, <1>2, <1>3, DetectorInit, Typing, PTL
        DEF Spec, ImplementsManifestProtocol, Manifest!Spec

\* Why a run may skip what the manifest vouches for: content-hash skipping is sound under the
\* protocol, what is skipped is stored as it is in the tree.  By ImplementsProtocol it is of the
\* indexer.
THEOREM ProtocolIsSound == Manifest!Spec => []Manifest!SkippingIsSound
<1> USE DEF Manifest!SkippingIsSound, Manifest!Skipped
<1>1. Manifest!Init => Manifest!SkippingIsSound
  BY DEF Manifest!Init
<1>2. Manifest!SkippingIsSound /\ [Manifest!Next]_<<tree, manifest, content>> => Manifest!SkippingIsSound'
  <2> SUFFICES ASSUME Manifest!SkippingIsSound, [Manifest!Next]_<<tree, manifest, content>>, NEW g \in Files,
                      tree'[g] = manifest'[g]
               PROVE  content'[g] = tree'[g]
    OBVIOUS
  <2>1. ASSUME NEW f \in Files, Manifest!Edit(f) PROVE content'[g] = tree'[g]
    BY <2>1 DEF Manifest!Edit
  <2>2. ASSUME NEW f \in Files, Manifest!Work(f) PROVE content'[g] = tree'[g]
    BY <2>2 DEF Manifest!Work
  <2>3. CASE Manifest!Publish
    BY <2>3 DEF Manifest!Publish
  <2>4. CASE UNCHANGED <<tree, manifest, content>>
    BY <2>4
  <2> QED BY <2>1, <2>2, <2>3, <2>4 DEF Manifest!Next
<1> QED BY <1>1, <1>2, PTL DEF Manifest!Spec

\* A non-empty set of naturals has a least element.
LEMMA LeastNat ==
  ASSUME NEW S, S \subseteq Nat, S # {}
  PROVE  \E n \in S : \A m \in S : n <= m
<1> DEFINE R == OpToRel(<, Nat)
<1>1. PICK n \in S : \A m \in S : <<m, n>> \notin R
  BY NatLessThanWellFounded, WFMin, Zenon
<1>2. R = {p \in Nat \X Nat : p[1] < p[2]}
  BY DEF OpToRel
<1> HIDE DEF R
<1>3. \A m \in S : n <= m
  <2> SUFFICES ASSUME NEW m \in S, m < n PROVE FALSE
    OBVIOUS
  <2>1. <<m, n>> \in R
    BY <1>2
  <2> QED BY <1>1, <2>1
<1> QED BY <1>3

(***************************************************************************)
(* The past is stable: no run records an event at a commit before the last *)
(* indexed one, and pruning takes a symbol's closings only, from before    *)
(* the commits a run can still write to.                                   *)
(***************************************************************************)
CommitOrder ==
  /\ indexedAt <= head
  /\ head <= MaxCommits \/ head = 1
  /\ Running => indexedAt <= at /\ at <= head

\* No step runs on a commit older than the indexed one.
LEMMA CommitOrderStep ==
  ASSUME TypeOK, CommitOrder, [Next]_vars
  PROVE  CommitOrder'
<1> USE DEF TypeOK, CommitOrder, Running
<1>1. CASE Commit
  BY <1>1, BoundsAssumption DEF Commit
<1>2. CASE BeginRefresh \/ BeginFull
  BY <1>2 DEF BeginRefresh, BeginFull, Detect, Idle
<1>3. CASE SaveMeta
  BY <1>3 DEF SaveMeta
<1>4. CASE Crash
  BY <1>4 DEF Crash, Idle
<1>5. CASE ~(Commit \/ BeginRefresh \/ BeginFull \/ SaveMeta \/ Crash)
  <2>1. UNCHANGED <<head, indexedAt, at>> /\ (Running' => Running)
    BY <1>5 DEF Next, Step, Edit, ReadTouched, DeleteFile, Upsert, ClearResolved, Resolve,
      MarkDirty, FlushRecorder, PruneLog, Drain
  <2> QED BY <2>1
<1> QED BY <1>1, <1>2, <1>3, <1>4, <1>5

\* What alive_at answers depends on the rows up to the commit only.
LEMMA AliveAtUpTo ==
  ASSUME NEW rows, NEW later, NEW c, UpTo(rows, c) = UpTo(later, c)
  PROVE  AliveAt(rows, c) <=> AliveAt(later, c)
  BY DEF AliveAt

\* The rows of a symbol are ordered: one event of a kind at a commit, and a first and a second.
Ordered(rows) ==
  \A r, q \in rows : r.at = q.at => (r.event = q.event => r = q) /\ (r.second = q.second => r = q)

\* A second row has its first, from commit c on.
Paired(rows, c) ==
  \A r \in rows : r.second /\ r.at >= c => \E q \in rows : q.at = r.at /\ ~q.second

\* The commit from which on the log is still written to.
OpenFrom == IF Running THEN at ELSE head

LogOrder == \A s \in Symbols : Ordered(log[s]) /\ Paired(log[s], OpenFrom)

\* An event that is recorded keeps the rows in order.
LEMMA RecordOrdered ==
  ASSUME NEW rows \in SUBSET EventRow, NEW event \in {"opened", "closed"}, NEW c \in Nat,
         Ordered(rows), Paired(rows, c)
  PROVE  Ordered(Record(rows, event, c)) /\ Paired(Record(rows, event, c), c)
<1> DEFINE new == [event |-> event, at |-> c, second |-> \E r \in rows : r.at = c]
<1>1. CASE \E r \in rows : r.event = event /\ r.at = c
  BY <1>1 DEF Record
<1>2. CASE ~\E r \in rows : r.event = event /\ r.at = c
  <2>1. Record(rows, event, c) = rows \union {new}
    BY <1>2 DEF Record
  <2>2. new.event = event /\ new.at = c /\ new.second = \E r \in rows : r.at = c
    OBVIOUS
  <2> HIDE DEF new
  <2>3. \A r \in rows : r.at = c => new.second /\ ~r.second
    <3> SUFFICES ASSUME NEW r \in rows, r.at = c, r.second PROVE FALSE
      BY <2>2
    <3>1. PICK q \in rows : q.at = c /\ ~q.second
      BY DEF Paired
    <3>2. r.event = q.event
      BY <1>2, <3>1 DEF EventRow
    <3> QED BY <3>1, <3>2 DEF Ordered
  <2>4. Ordered(rows \union {new})
    <3> SUFFICES ASSUME NEW r \in rows, r.at = c
                 PROVE  r.event # new.event /\ r.second # new.second
      BY <2>2 DEF Ordered
    <3> QED BY <1>2, <2>2, <2>3
  <2>5. Paired(rows \union {new}, c)
    <3>1. new.second => \E q \in rows : q.at = new.at /\ ~q.second
      BY <2>2, <2>3
    <3> QED BY <3>1 DEF Paired
  <2> QED BY <2>1, <2>4, <2>5
<1> QED BY <1>1, <1>2

\* Rows that retention leaves are in order, and paired after its horizon.
LEMMA PruneOrdered ==
  ASSUME NEW rows \in SUBSET EventRow, NEW horizon \in Int, NEW c \in Nat, horizon <= c,
         Ordered(rows), Paired(rows, c)
  PROVE  Ordered(Prune(rows, horizon)) /\ Paired(Prune(rows, horizon), c)
<1>1. \A r \in rows : r.at \in Nat /\ (r.at >= c => r \in Prune(rows, horizon))
  BY DEF Prune, EventRow
<1>2. \A r \in Prune(rows, horizon) : r \in rows
  BY DEF Prune
<1>3. Ordered(Prune(rows, horizon))
  BY <1>2 DEF Ordered
<1>4. Paired(Prune(rows, horizon), c)
  <2> SUFFICES ASSUME NEW r \in Prune(rows, horizon), r.second, r.at >= c
               PROVE  \E q \in Prune(rows, horizon) : q.at = r.at /\ ~q.second
    BY DEF Paired
  <2>1. PICK q \in rows : q.at = r.at /\ ~q.second
    BY <1>2 DEF Paired
  <2> QED BY <1>1, <2>1
<1> QED BY <1>3, <1>4

\* Rows up to a commit have a last one.
LEMMA LastRowIs ==
  ASSUME NEW rows \in SUBSET EventRow, rows # {}, NEW c \in Nat, \A r \in rows : r.at <= c
  PROVE  /\ LastRow(rows) \in rows
         /\ \A q \in rows : q.at < LastRow(rows).at
                            \/ (q.at = LastRow(rows).at /\ (q.second => LastRow(rows).second))
<1> DEFINE ages == {c - r.at : r \in rows}
<1>1. ages \subseteq Nat /\ ages # {}
  BY DEF EventRow
<1>2. PICK age \in ages : \A a \in ages : age <= a
  <2> HIDE DEF ages
  <2> QED BY <1>1, LeastNat
<1>3. PICK r \in rows : age = c - r.at
  OBVIOUS
<1>4. \A q \in rows : q.at \in Nat /\ q.at <= r.at
  <2> SUFFICES ASSUME NEW q \in rows PROVE q.at \in Nat /\ q.at <= r.at
    OBVIOUS
  <2>1. q.at \in Nat /\ r.at \in Nat
    BY DEF EventRow
  <2>2. c - r.at <= c - q.at
    BY <1>2, <1>3
  <2> QED BY <2>1, <2>2
<1>5. PICK m \in rows : m.at = r.at /\ \A q \in rows : q.at = r.at /\ q.second => m.second
  OBVIOUS
<1>6. \A q \in rows : q.at < m.at \/ (q.at = m.at /\ (q.second => m.second))
  BY <1>4, <1>5
<1> QED BY <1>6, Zenon DEF LastRow

\* Retention revives symbols, it never takes one that was alive.
LEMMA PruneAlive ==
  ASSUME NEW rows \in SUBSET EventRow, NEW horizon \in Int, NEW c \in Nat, Ordered(rows), AliveAt(rows, c)
  PROVE  AliveAt(Prune(rows, horizon), c)
<1> DEFINE old == UpTo(rows, c)
           kept == UpTo(Prune(rows, horizon), c)
           r == LastRow(old)
           q == LastRow(kept)
<1>1. old \in SUBSET EventRow /\ kept \subseteq old /\ \A x \in old : x.at <= c /\ x.at \in Nat
  BY DEF UpTo, Prune, EventRow
<1>2. old # {} /\ r.event = "opened"
  BY DEF AliveAt
<1>3. \A x \in old : x.event = "opened" => x \in kept
  BY DEF UpTo, Prune
<1> HIDE DEF old, kept
<1>4. r \in old /\ \A x \in old : x.at < r.at \/ (x.at = r.at /\ (x.second => r.second))
  BY <1>1, <1>2, LastRowIs
<1>5. r \in kept
  BY <1>2, <1>3, <1>4
<1>6. q \in kept /\ \A x \in kept : x.at < q.at \/ (x.at = q.at /\ (x.second => q.second))
  <2>1. kept \in SUBSET EventRow /\ kept # {} /\ \A x \in kept : x.at <= c
    BY <1>1, <1>5
  <2> QED BY <2>1, LastRowIs
<1> HIDE DEF r, q
<1>7. q.at = r.at /\ q.second = r.second
  <2>1. q \in old /\ r.at \in Nat /\ q.at \in Nat /\ q.second \in BOOLEAN /\ r.second \in BOOLEAN
    BY <1>1, <1>4, <1>6 DEF EventRow
  <2>2. (q.at < r.at \/ q.at = r.at) /\ (r.at < q.at \/ r.at = q.at)
    BY <1>4, <1>5, <1>6, <2>1
  <2>3. q.at = r.at
    BY <2>1, <2>2
  <2>4. (q.second => r.second) /\ (r.second => q.second)
    BY <1>4, <1>5, <1>6, <2>1, <2>3
  <2> QED BY <2>1, <2>3, <2>4
<1>8. q = r
  <2>1. q \in rows /\ r \in rows
    BY <1>1, <1>4, <1>6 DEF old, UpTo
  <2> QED BY <1>7, <2>1 DEF Ordered
<1> QED BY <1>2, <1>5, <1>8 DEF AliveAt, kept, q

\* Every step keeps the order of the log.
LEMMA LogOrderStep ==
  ASSUME TypeOK, TypeOK', CommitOrder, LogOrder, [Next]_vars
  PROVE  LogOrder'
<1>1. /\ head \in Nat /\ head' \in Nat /\ at \in Nat /\ at' \in Nat /\ Retention \in Nat \ {0}
      /\ \A s \in Symbols : log[s] \in SUBSET EventRow
  BY BoundsAssumption DEF TypeOK
<1>2. CASE FlushRecorder
  <2>1. /\ pc = "record" /\ pc' = "save" /\ at' = at
        /\ \A s \in Symbols : log'[s] \in {log[s], Record(log[s], "opened", at), Record(log[s], "closed", at)}
    BY <1>2 DEF FlushRecorder
  <2>2. OpenFrom = at /\ OpenFrom' = at
    BY <2>1 DEF OpenFrom, Running
  <2>3. \A s \in Symbols : \A event \in {"opened", "closed"} :
          Ordered(Record(log[s], event, at)) /\ Paired(Record(log[s], event, at), at)
    BY <1>1, <2>2, RecordOrdered DEF LogOrder
  <2> QED BY <2>1, <2>2, <2>3 DEF LogOrder
<1>3. CASE PruneLog
  <2>1. /\ pc = "prune" /\ pc' = "idle" /\ head' = head
        /\ log' = IF Temporal /\ head > Retention
                  THEN [s \in Symbols |-> Prune(log[s], head - Retention)] ELSE log
    BY <1>3 DEF PruneLog, environment
  <2>2. OpenFrom = head /\ OpenFrom' = head
    BY <2>1 DEF OpenFrom, Running
  <2>3. head - Retention \in Int /\ head - Retention <= head
    BY <1>1
  <2>4. \A s \in Symbols : Ordered(Prune(log[s], head - Retention)) /\ Paired(Prune(log[s], head - Retention), head)
    BY <1>1, <2>2, <2>3, PruneOrdered DEF LogOrder
  <2> QED BY <2>1, <2>2, <2>4 DEF LogOrder
<1>4. CASE ~FlushRecorder /\ ~PruneLog
  <2>1. log' = log
    BY <1>4 DEF Next, Step, Edit, Commit, BeginRefresh, BeginFull, Detect, ReadTouched,
      DeleteFile, Upsert, ClearResolved, Resolve, MarkDirty, SaveMeta, Crash, Drain
  <2>2. OpenFrom' >= OpenFrom /\ OpenFrom \in Nat /\ OpenFrom' \in Nat
    <3>1. CASE Commit
      BY <1>1, <3>1 DEF Commit, OpenFrom, Running
    <3>2. CASE BeginRefresh \/ BeginFull
      BY <1>1, <3>2 DEF BeginRefresh, BeginFull, Detect, Idle, OpenFrom, Running
    <3>3. CASE SaveMeta \/ Crash
      BY <1>1, <3>3 DEF SaveMeta, Crash, CommitOrder, OpenFrom, Running, Idle
    <3>4. CASE ~(Commit \/ BeginRefresh \/ BeginFull \/ SaveMeta \/ Crash)
      <4>1. UNCHANGED <<head, at>> /\ (Running' <=> Running)
        BY <1>4, <3>4 DEF Next, Step, Edit, ReadTouched, AfterUpserts, DeleteFile, Upsert, ClearResolved,
          Resolve, MarkDirty, Drain, Running
      <4> QED BY <1>1, <4>1 DEF OpenFrom
    <3> QED BY <3>1, <3>2, <3>3, <3>4
  <2>3. \A s \in Symbols : \A r \in log[s] : r.at \in Nat
    BY <1>1 DEF EventRow
  <2>4. \A s \in Symbols : Paired(log[s], OpenFrom')
    BY <2>2, <2>3 DEF LogOrder, Paired
  <2> QED BY <2>1, <2>4 DEF LogOrder
<1> QED BY <1>2, <1>3, <1>4

\* The past does not change: what alive_at answers for a commit before the last indexed one stays what
\* it was, except that pruning can revive a symbol whose end is past retention (temporal/store.py prune).
THEOREM PastStable == Spec => PastIsStable
<1> DEFINE Stable == \A s \in Symbols : \A c \in 1..(indexedAt - 1) :
       /\ AliveAt(log[s], c) => AliveAt(log'[s], c)
       /\ AliveAt(log'[s], c) =>
            AliveAt(log[s], c) \/ \E r \in log[s] : r.event = "closed" /\ r.at < head' - Retention
<1>1. Init => CommitOrder /\ LogOrder
  BY BoundsAssumption DEF Init, CommitOrder, LogOrder, Ordered, Paired, Running
<1>2. TypeOK /\ TypeOK' /\ CommitOrder /\ LogOrder /\ [Next]_vars => CommitOrder' /\ LogOrder'
  BY CommitOrderStep, LogOrderStep
<1>3. TypeOK /\ CommitOrder /\ LogOrder /\ [Next]_vars => [Stable]_vars
  <2> SUFFICES ASSUME TypeOK, CommitOrder, LogOrder, Next, NEW s \in Symbols, NEW c \in 1..(indexedAt - 1)
               PROVE  /\ AliveAt(log[s], c) => AliveAt(log'[s], c)
                      /\ AliveAt(log'[s], c) =>
                           AliveAt(log[s], c) \/ \E r \in log[s] : r.event = "closed" /\ r.at < head' - Retention
    OBVIOUS
  <2>1. c \in Nat /\ log[s] \in SUBSET EventRow /\ head \in Nat /\ Retention \in Nat
    BY BoundsAssumption DEF TypeOK
  <2>2. CASE FlushRecorder
    <3>1. c < at
      BY <2>2 DEF FlushRecorder, CommitOrder, Running, TypeOK
    <3>2. \A rows : /\ UpTo(Record(rows, "opened", at), c) = UpTo(rows, c)
                    /\ UpTo(Record(rows, "closed", at), c) = UpTo(rows, c)
      BY <3>1 DEF UpTo, Record, TypeOK
    <3>3. log'[s] \in {log[s], Record(log[s], "opened", at), Record(log[s], "closed", at)}
      BY <2>2 DEF FlushRecorder
    <3>4. UpTo(log'[s], c) = UpTo(log[s], c)
      BY <3>2, <3>3
    <3> QED BY <3>4, AliveAtUpTo
  <2>3. CASE PruneLog
    <3>1. head' = head /\ log'[s] \in {log[s], Prune(log[s], head - Retention)}
      BY <2>3 DEF PruneLog, environment
    <3>2. AliveAt(log[s], c) => AliveAt(Prune(log[s], head - Retention), c)
      <4>1. head - Retention \in Int
        BY <2>1
      <4> QED BY <2>1, <4>1, PruneAlive DEF LogOrder
    <3>3. ~(\E r \in log[s] : r.event = "closed" /\ r.at < head - Retention)
            => Prune(log[s], head - Retention) = log[s]
      BY DEF Prune
    <3> QED BY <3>1, <3>2, <3>3
  <2>4. CASE ~FlushRecorder /\ ~PruneLog
    <3>1. log' = log
      BY <2>4 DEF Next, Step, Edit, Commit, BeginRefresh, BeginFull, Detect, ReadTouched,
        DeleteFile, Upsert, ClearResolved, Resolve, MarkDirty, SaveMeta, Crash, Drain
    <3> QED BY <3>1
  <2> QED BY <2>2, <2>3, <2>4
<1> QED BY <1>1, <1>2, <1>3, Typing, PTL DEF Spec, PastIsStable

(***************************************************************************)
(* The log agrees with the graph, if runs are started at new commits and   *)
(* come to their end: a commit then has one run, and a symbol no more than *)
(* one row of it.                                                          *)
(***************************************************************************)
Working == pc \in {"delete", "read", "upsert", "clear", "resolve", "dirty", "record"}

\* The symbols the log has told of: those of the graph the run began with, until it records.
Known ==
  IF ~Working THEN SymbolsIn(content, Files)
  ELSE IF mode = "full" THEN {} ELSE before \union SymbolsIn(content, Files \ Changed)

\* The last row, which is alone at its commit.
IsLast(r, rows) == \A q \in rows : q.at <= r.at /\ (q.at = r.at => q = r)
Living(rows) == \E r \in rows : r.event = "opened" /\ IsLast(r, rows)
Dead(rows) == rows = {} \/ \E r \in rows : r.event = "closed" /\ IsLast(r, rows)

\* A run is of a later commit than the last one.
RunsInOrder == indexedAt <= head /\ (Running => indexedAt < at /\ at <= head)

RowsInOrder ==
  \A s \in Symbols : \A r \in log[s] : ~r.second /\ r.at <= IF pc = "save" THEN at ELSE indexedAt

\* A refresh works on the files of its change set, and what it closes is theirs.
WorksOnChanged ==
  /\ pc \in {"idle", "prune"} /\ indexedAt = 0 => content = Nothing
  /\ pc = "delete" => todo \subseteq Removed /\ mode = "incremental"
  /\ mode = "incremental" => /\ pc = "upsert" => todo \subseteq Touched
                             /\ Working => /\ before \subseteq {Symbol(f, n) : f \in Changed, n \in Names}
                                           /\ \A f \in Removed : content[f] = NoFile \/ (pc = "delete" /\ f \in todo)

LogInv ==
  /\ RunsInOrder /\ RowsInOrder /\ WorksOnChanged
  /\ \A s \in Symbols : /\ s \in Known => Living(log[s])
                        /\ s \notin Known => Dead(log[s]) \/ Forgotten(log[s])

LEMMA AliveIfLast ==
  ASSUME NEW rows, NEW c \in Nat, \A r \in rows : r.at \in Nat /\ r.at <= c /\ ~r.second
  PROVE  /\ Living(rows) => AliveAt(rows, c)
         /\ Dead(rows) => ~AliveAt(rows, c)
<1>1. UpTo(rows, c) = rows
  BY DEF UpTo
<1>2. ASSUME NEW r \in rows, IsLast(r, rows) PROVE LastRow(rows) = r
  <2>1. \A q \in rows : q.at < r.at \/ (q.at = r.at /\ (q.second => r.second))
    BY <1>2 DEF IsLast
  <2>2. LastRow(rows) \in rows
        /\ \A q \in rows : q.at < LastRow(rows).at \/ (q.at = LastRow(rows).at /\ (q.second => LastRow(rows).second))
    BY <2>1, Zenon DEF LastRow
  <2>3. r.at <= LastRow(rows).at /\ LastRow(rows).at <= r.at
    BY <1>2, <2>2 DEF IsLast
  <2> QED BY <1>2, <2>2, <2>3 DEF IsLast
<1>3. Living(rows) => AliveAt(rows, c)
  BY <1>1, <1>2 DEF Living, AliveAt
<1>4. Dead(rows) => ~AliveAt(rows, c)
  BY <1>1, <1>2 DEF Dead, AliveAt
<1> QED BY <1>3, <1>4

\* A row that is recorded at a later commit than all there are is the last one.
LEMMA RecordLast ==
  ASSUME NEW rows, NEW c \in Nat, \A r \in rows : r.at \in Nat /\ r.at < c
  PROVE  /\ Living(Record(rows, "opened", c))
         /\ Dead(Record(rows, "closed", c))
         /\ \A event : \A r \in Record(rows, event, c) : r \in rows \/ (r.at = c /\ ~r.second)
<1>1. \A event : Record(rows, event, c) = rows \union {[event |-> event, at |-> c, second |-> FALSE]}
  <2>1. (\E r \in rows : r.at = c) = FALSE
    OBVIOUS
  <2> QED BY <2>1 DEF Record
<1>2. ASSUME NEW event
      PROVE  \E r \in Record(rows, event, c) : r.event = event /\ IsLast(r, Record(rows, event, c))
  <2>1. PICK r : r = [event |-> event, at |-> c, second |-> FALSE]
    OBVIOUS
  <2>2. r \in Record(rows, event, c) /\ r.event = event /\ r.at = c
    BY <1>1, <2>1
  <2>3. \A q \in Record(rows, event, c) : q = r \/ (q \in rows /\ q.at \in Nat /\ q.at < c)
    BY <1>1, <2>1
  <2>4. IsLast(r, Record(rows, event, c))
    BY <2>2, <2>3 DEF IsLast
  <2> QED BY <2>2, <2>4
<1> QED BY <1>1, <1>2 DEF Living, Dead

\* Retention drops closed rows only.
LEMMA PruneLives ==
  ASSUME NEW rows, NEW horizon, Living(rows)
  PROVE  Living(Prune(rows, horizon))
BY DEF Living, IsLast, Prune

\* A symbol that is not alive stays so, or all that is left of it is older than retention.
LEMMA PruneDead ==
  ASSUME NEW rows, NEW horizon \in Int, \A r \in rows : r.at \in Nat,
         Dead(rows) \/ \A r \in rows : r.at < horizon
  PROVE  Dead(Prune(rows, horizon)) \/ \A r \in Prune(rows, horizon) : r.at < horizon
<1>1. Prune(rows, horizon) \subseteq rows
  BY DEF Prune
<1>2. ASSUME NEW r \in rows, r.event = "closed", IsLast(r, rows), ~(r.at < horizon)
      PROVE  Dead(Prune(rows, horizon))
  <2>1. r \in Prune(rows, horizon) /\ IsLast(r, Prune(rows, horizon))
    BY <1>1, <1>2 DEF Prune, IsLast
  <2> QED BY <1>2, <2>1 DEF Dead
<1>3. ASSUME NEW r \in rows, IsLast(r, rows), r.at < horizon
      PROVE  \A q \in rows : q.at < horizon
  BY <1>3 DEF IsLast
<1> QED BY <1>1, <1>2, <1>3 DEF Dead

LEMMA LogInit == Init => LogInv
<1> SUFFICES ASSUME Init PROVE LogInv
  OBVIOUS
<1>1. SymbolsIn(content, Files) = {}
  BY DEF Init, Nothing, SymbolsIn, SymbolsOf
<1>2. Known = {}
  BY <1>1 DEF Known, Working, Init
<1> QED BY <1>2 DEF Init, LogInv, RunsInOrder, RowsInOrder, WorksOnChanged, Running, Working, Dead

\* Steps that neither begin a run nor write the log.
LEMMA LogKept ==
  ASSUME LogInv, UNCHANGED log, head' \in Nat, head \in Nat, \A s \in Symbols : \A r \in log[s] : r.at \in Nat,
         RunsInOrder', WorksOnChanged',
         \A s \in Symbols : s \in Known' <=> s \in Known,
         head' >= head,
         (IF pc' = "save" THEN at' ELSE indexedAt') = (IF pc = "save" THEN at ELSE indexedAt)
  PROVE  LogInv'
<1>1. RowsInOrder'
  BY DEF LogInv, RowsInOrder
<1>2. \A s \in Symbols : Forgotten(log[s]) => Forgotten(log[s])'
  BY BoundsAssumption DEF Forgotten, RowsInOrder
<1> QED BY <1>1, <1>2 DEF LogInv

\* The symbols of some files, and of the others.
LEMMA SymbolsSplit ==
  ASSUME NEW fs \in SUBSET Files
  PROVE  SymbolsIn(content, Files) = SymbolsIn(content, fs) \union SymbolsIn(content, Files \ fs)
BY DEF SymbolsIn

LEMMA SymbolsHave ==
  ASSUME NEW g \in Snapshot, NEW fs \in SUBSET Files
  PROVE  SymbolsIn(g, fs) \subseteq {Symbol(f, n) : f \in fs, n \in Names}
BY ContentsAssumption DEF SymbolsIn, SymbolsOf, Snapshot

LEMMA LogStep ==
  ASSUME Temporal, OnCommit, ~ForceFull, MaxCrashes = 0, TypeOK, TypeOK', LogInv, [Next]_vars
  PROVE  LogInv'
<1> USE DEF LogInv
<1>0. /\ head \in Nat /\ head' \in Nat /\ at \in Nat /\ indexedAt \in Nat /\ Retention \in Nat
      /\ content \in Snapshot /\ manifest \in Snapshot /\ hashes \in Snapshot
      /\ mode \in {"incremental", "full"} /\ todo \subseteq Files
      /\ \A s \in Symbols : \A r \in log[s] : r.at \in Nat
  BY BoundsAssumption DEF TypeOK, EventRow
\* A step that is not the index's.
<1>kept. ASSUME UNCHANGED <<head, manifest, indexedAt, content, log, run>> PROVE LogInv'
  <2>1. UNCHANGED <<pc, mode, hashes, todo, before, at>>
    BY <1>kept DEF run
  <2>2. RunsInOrder'
    BY <1>kept, <2>1 DEF RunsInOrder, Running
  <2>3. Removed' = Removed /\ Touched' = Touched /\ Changed' = Changed
    BY <1>kept, <2>1 DEF Removed, Touched, Changed
  <2>4. WorksOnChanged'
    BY <1>kept, <2>1, <2>3 DEF WorksOnChanged, Working
  <2>5. Known' = Known
    BY <1>kept, <2>1, <2>3 DEF Known, Working, SymbolsIn, SymbolsOf
  <2>6. head' >= head
    BY <1>0, <1>kept
  <2> QED BY <1>0, <1>kept, <2>1, <2>2, <2>4, <2>5, <2>6, LogKept
<1>1. ASSUME NEW f \in Files, Edit(f) PROVE LogInv'
  <2>1. UNCHANGED <<head, manifest, indexedAt, content, log, run>>
    BY <1>1 DEF Edit, disk
  <2> QED BY <1>kept, <2>1
<1>2. CASE Commit
  <2>1. head' = head + 1 /\ UNCHANGED <<disk, run>>
    BY <1>2 DEF Commit
  <2>2. RunsInOrder'
    BY <1>0, <2>1 DEF RunsInOrder, Running, disk, run
  <2>3. WorksOnChanged' /\ \A s \in Symbols : s \in Known' <=> s \in Known
    BY <2>1 DEF WorksOnChanged, Known, Working, Changed, Removed, Touched, disk, run
  <2> QED BY <1>0, <2>1, <2>2, <2>3, LogKept DEF disk, run
<1>3. CASE Crash
  BY <1>3 DEF Crash, TypeOK
<1>4. CASE Drain \/ UNCHANGED vars
  <2>1. UNCHANGED <<head, manifest, indexedAt, content, log, run>>
    BY <1>4 DEF Drain, vars, environment, disk
  <2> QED BY <1>kept, <2>1
<1>5. ASSUME BeginRefresh \/ BeginFull PROVE RunsInOrder'
  <2>1. head # indexedAt /\ at' = head /\ UNCHANGED <<head, indexedAt>>
    BY <1>5 DEF BeginRefresh, BeginFull, Detect, environment, disk
  <2> QED BY <1>0, <2>1 DEF RunsInOrder
<1>6. CASE BeginRefresh
  <2>1. /\ Idle /\ mode' = "incremental" /\ todo' = Removed' /\ before' = SymbolsIn(content, Changed')
        /\ pc' = IF Changed' = {} THEN "save" ELSE IF Removed' = {} THEN "read" ELSE "delete"
        /\ UNCHANGED <<environment, disk>>
    BY <1>6 DEF BeginRefresh, Detect
  <2>2. content' = content /\ manifest' = manifest /\ indexedAt' = indexedAt /\ log' = log /\ head' = head
    BY <2>1 DEF environment, disk
  <2>3. Changed' \subseteq Files /\ Removed' \subseteq Changed'
    BY DEF Changed, Removed, Touched
  <2>4. WorksOnChanged'
    <3>1. before' \subseteq {Symbol(f, n) : f \in Changed', n \in Names}
      BY <1>0, <2>1, <2>3, SymbolsHave
    <3>2. \A f \in Removed' : Working' => pc' = "delete" /\ f \in todo'
      BY <2>1, <2>3 DEF Working
    <3>3. pc' \notin {"idle", "prune", "upsert"}
      BY <2>1
    <3> QED BY <2>1, <2>2, <3>1, <3>2, <3>3 DEF WorksOnChanged
  <2>5. \A s \in Symbols : s \in Known' <=> s \in Known
    <3>1. Known = SymbolsIn(content, Files)
      BY <2>1 DEF Known, Working, Idle
    <3>2. SymbolsIn(content, Files)' = SymbolsIn(content, Files)
      BY <2>2 DEF SymbolsIn, SymbolsOf
    <3>3. CASE Changed' = {}
      BY <2>1, <3>1, <3>2, <3>3 DEF Known, Working
    <3>4. CASE Changed' # {}
      <4>1. Known' = before' \union SymbolsIn(content, Files \ Changed')
        BY <2>1, <2>2, <3>4 DEF Known, Working
      <4> QED BY <2>1, <2>3, <3>1, <4>1, SymbolsSplit
    <3> QED BY <3>3, <3>4
  <2>6. \A s \in Symbols : \A r \in log'[s] : ~r.second /\ r.at <= IF pc' = "save" THEN at' ELSE indexedAt'
    <3>1. pc # "save" /\ indexedAt <= at' /\ at' \in Nat
      BY <1>0, <1>5, <1>6, <2>1, <2>2 DEF Idle, RunsInOrder, Running, BeginRefresh, Detect
    <3>2. \A s \in Symbols : \A r \in log[s] : ~r.second /\ r.at <= indexedAt
      BY <3>1 DEF RowsInOrder
    <3> QED BY <1>0, <2>2, <3>1, <3>2
  <2>7. \A s \in Symbols : log'[s] = log[s] /\ (Forgotten(log[s])' <=> Forgotten(log[s]))
    BY <2>2 DEF Forgotten
  <2> QED BY <1>5, <1>6, <2>4, <2>5, <2>6, <2>7 DEF RowsInOrder
<1>7. CASE BeginFull
  <2>1. /\ Idle /\ indexedAt = 0 /\ mode' = "full" /\ pc' = "read"
        /\ UNCHANGED <<environment, disk>>
    BY <1>7 DEF BeginFull, Detect, Indexed
  <2>2. content' = content /\ indexedAt' = indexedAt /\ log' = log /\ head' = head
    BY <2>1 DEF environment, disk
  <2>3. content = Nothing
    BY <2>1 DEF WorksOnChanged, Idle
  <2>4. Known = {} /\ Known' = {}
    BY <2>1, <2>3 DEF Known, Working, Idle, Nothing, SymbolsIn, SymbolsOf
  <2>5. WorksOnChanged'
    BY <2>1 DEF WorksOnChanged
  <2> QED BY <1>0, <1>5, <1>7, <2>1, <2>2, <2>4, <2>5, LogKept DEF Idle
\* A step within a run, before it records.
<1>8. ASSUME pc # "record", UNCHANGED <<head, manifest, indexedAt, log, hashes, mode, before, at>>,
             Working, Working', WorksOnChanged',
             mode = "incremental" => \A f \in Files \ Changed : content'[f] = content[f]
      PROVE  LogInv'
  <2>1. RunsInOrder'
    BY <1>8 DEF RunsInOrder, Running, Working
  <2>2. Changed' = Changed
    BY <1>8 DEF Changed, Removed, Touched
  <2>3. mode = "incremental" => SymbolsIn(content, Files \ Changed)' = SymbolsIn(content, Files \ Changed)
    BY <1>8, <2>2 DEF SymbolsIn, SymbolsOf
  <2>4. Known' = Known
    BY <1>0, <1>8, <2>2, <2>3 DEF Known
  <2>5. pc # "save" /\ pc' # "save"
    BY <1>8 DEF Working
  <2> QED BY <1>0, <1>8, <2>1, <2>4, <2>5, LogKept
<1>9. ASSUME NEW f \in Files, DeleteFile(f) PROVE LogInv'
  <2>1. /\ pc = "delete" /\ f \in todo /\ content' = [content EXCEPT ![f] = NoFile] /\ todo' = todo \ {f}
        /\ pc' = IF todo = {f} THEN "read" ELSE "delete"
        /\ UNCHANGED <<environment, manifest, indexedAt, log, hashes, mode, before, at>>
    BY <1>9 DEF DeleteFile
  <2>2. todo \subseteq Removed /\ mode = "incremental" /\ f \in Changed
    BY <2>1 DEF WorksOnChanged, Changed
  <2>3. Removed' = Removed /\ Touched' = Touched /\ Changed' = Changed
    BY <2>1 DEF Removed, Touched, Changed
  <2>4. WorksOnChanged'
    <3>1. \A g \in Removed : content'[g] = NoFile \/ (pc' = "delete" /\ g \in todo')
      <4> TAKE g \in Removed
      <4>1. g \in Files
        BY DEF Removed
      <4>2. content[g] = NoFile \/ g \in todo
        BY <2>1, <2>2 DEF WorksOnChanged, Working
      <4> QED BY <1>0, <2>1, <4>1, <4>2 DEF Snapshot
    <3>2. before \subseteq {Symbol(g, n) : g \in Changed, n \in Names}
      BY <2>1, <2>2 DEF WorksOnChanged, Working
    <3> QED BY <2>1, <2>2, <2>3, <3>1, <3>2 DEF WorksOnChanged
  <2>5. \A g \in Files \ Changed : content'[g] = content[g]
    BY <1>0, <2>1, <2>2 DEF Snapshot
  <2> QED BY <1>8, <2>1, <2>2, <2>4, <2>5 DEF environment, Working
<1>10. CASE ReadTouched
  <2>1. /\ pc = "read" /\ todo' = FilesIn(got') /\ pc' \in {"resolve", "clear", "upsert"}
        /\ got' = [f \in Files |-> IF f \in (IF mode = "full" THEN Files ELSE Touched) THEN tree[f] ELSE NoFile]
        /\ UNCHANGED <<environment, disk, mode, hashes, before, at>>
    BY <1>10 DEF ReadTouched, AfterUpserts
  <2>2. Removed' = Removed /\ Touched' = Touched /\ Changed' = Changed /\ content' = content
    BY <2>1 DEF Removed, Touched, Changed, disk
  <2>3. mode = "incremental" => todo' \subseteq Touched
    BY <2>1 DEF FilesIn
  <2>4. WorksOnChanged'
    BY <2>1, <2>2, <2>3 DEF WorksOnChanged, Working
  <2> QED BY <1>8, <2>1, <2>2, <2>4 DEF environment, disk, Working
<1>11. ASSUME NEW f \in Files, Upsert(f) PROVE LogInv'
  <2>1. /\ pc = "upsert" /\ f \in todo /\ content' = [content EXCEPT ![f] = got[f]] /\ todo' = todo \ {f}
        /\ pc' \in {"resolve", "clear", "upsert"}
        /\ UNCHANGED <<environment, manifest, indexedAt, log, hashes, mode, before, at>>
    BY <1>11 DEF Upsert, AfterUpserts
  <2>2. Removed' = Removed /\ Touched' = Touched /\ Changed' = Changed
    BY <2>1 DEF Removed, Touched, Changed
  <2>3. mode = "incremental" => f \in Touched /\ f \in Changed /\ f \notin Removed
    BY <2>1 DEF WorksOnChanged, Changed, Touched, Removed
  <2>4. \A g \in Files : g # f => content'[g] = content[g]
    BY <1>0, <2>1 DEF Snapshot
  <2>5. WorksOnChanged'
    <3>1. mode = "incremental" => \A g \in Removed : content'[g] = NoFile
      <4> SUFFICES ASSUME mode = "incremental", NEW g \in Removed PROVE content'[g] = NoFile
        OBVIOUS
      <4>1. g \in Files /\ content[g] = NoFile
        BY <2>1 DEF WorksOnChanged, Working, Removed
      <4> QED BY <2>3, <2>4, <4>1
    <3> QED BY <2>1, <2>2, <3>1 DEF WorksOnChanged, Working
  <2> QED BY <1>8, <2>1, <2>3, <2>4, <2>5 DEF environment, Working
<1>12. CASE ClearResolved \/ Resolve \/ MarkDirty
  <2>1. /\ pc \in {"clear", "resolve", "dirty"} /\ pc' \in {"resolve", "record", "dirty"}
        /\ UNCHANGED <<environment, manifest, indexedAt, content, log, hashes, mode, before, at, todo>>
    BY <1>12 DEF ClearResolved, Resolve, MarkDirty
  <2>2. Removed' = Removed /\ Touched' = Touched /\ Changed' = Changed
    BY <2>1 DEF Removed, Touched, Changed
  <2>3. WorksOnChanged'
    BY <2>1, <2>2 DEF WorksOnChanged, Working
  <2> QED BY <1>8, <2>1, <2>3 DEF environment, Working
<1>13. CASE FlushRecorder
  <2>1. /\ pc = "record" /\ pc' = "save"
        /\ log' = [s \in Symbols |-> IF s \in Opened THEN Record(log[s], "opened", at)
                                     ELSE IF s \in Closed THEN Record(log[s], "closed", at) ELSE log[s]]
        /\ UNCHANGED <<environment, manifest, indexedAt, content, mode, hashes, before, at>>
    BY <1>13 DEF FlushRecorder
  <2>2. indexedAt < at /\ RunsInOrder'
    BY <2>1 DEF RunsInOrder, Running, environment
  <2>3. \A s \in Symbols : \A r \in log[s] : r.at \in Nat /\ r.at < at /\ ~r.second
    BY <1>0, <2>1, <2>2 DEF RowsInOrder
  <2>4. RowsInOrder'
    <3> SUFFICES ASSUME NEW s \in Symbols, NEW r \in log'[s] PROVE ~r.second /\ r.at <= at
      BY <2>1 DEF RowsInOrder
    <3>1. r \in log[s] \/ (r.at = at /\ ~r.second)
      BY <1>0, <2>1, <2>3, RecordLast
    <3> QED BY <1>0, <2>3, <3>1
  <2>5. WorksOnChanged'
    BY <2>1 DEF WorksOnChanged, Working
  <2>6. Known' = SymbolsIn(content, Files)
    BY <2>1 DEF Known, Working, SymbolsIn, SymbolsOf
  <2>7. \A s \in Symbols : /\ s \in Opened => Living(log'[s])
                           /\ s \notin Opened /\ s \in Closed => Dead(log'[s])
                           /\ s \notin Opened /\ s \notin Closed => log'[s] = log[s]
    BY <1>0, <2>1, <2>3, RecordLast
  <2>8. ASSUME NEW s \in Symbols
        PROVE  /\ s \in Opened => s \in Known'
               /\ s \notin Opened /\ s \in Closed => s \notin Known'
               /\ s \notin Opened /\ s \notin Closed => (s \in Known' <=> s \in Known)
    <3>1. CASE mode = "full"
      BY <2>1, <2>6, <3>1 DEF Opened, Closed, Known, Working
    <3>2. CASE mode = "incremental"
      <4>1. Opened = After \ before /\ Closed = before \ After
        BY <3>2 DEF Opened, Closed
      <4>2. Known = before \union SymbolsIn(content, Files \ Changed)
        BY <2>1, <3>2 DEF Known, Working
      <4>3. SymbolsIn(content, Removed) = {}
        BY <2>1, <3>2 DEF WorksOnChanged, Working, SymbolsIn, SymbolsOf
      <4>4. Known' = After \union SymbolsIn(content, Files \ Changed)
        <5>1. SymbolsIn(content, Changed) = SymbolsIn(content, Removed) \union After
          BY DEF After, Changed, SymbolsIn
        <5>2. Changed \subseteq Files
          BY DEF Changed, Removed, Touched
        <5> QED BY <2>6, <4>3, <5>1, <5>2, SymbolsSplit
      <4>5. s \in before => s \notin SymbolsIn(content, Files \ Changed)
        <5>1. SymbolsIn(content, Files \ Changed) \subseteq {Symbol(f, n) : f \in Files \ Changed, n \in Names}
          BY <1>0, SymbolsHave
        <5>2. before \subseteq {Symbol(f, n) : f \in Changed, n \in Names}
          BY <2>1, <3>2 DEF WorksOnChanged, Working
        <5>3. \A f, g, n, m : Symbol(f, n) = Symbol(g, m) => f = g
          BY DEF Symbol
        <5>4. ASSUME s \in before, s \in SymbolsIn(content, Files \ Changed) PROVE FALSE
          <6>1. PICK f \in Changed, n \in Names : s = Symbol(f, n)
            BY <5>2, <5>4
          <6>2. PICK g \in Files \ Changed, m \in Names : s = Symbol(g, m)
            BY <5>1, <5>4
          <6> QED BY <5>3, <6>1, <6>2
        <5> QED BY <5>4
      <4> QED BY <4>1, <4>2, <4>4, <4>5
    <3> QED BY <1>0, <3>1, <3>2
  <2>9. \A s \in Symbols : log'[s] = log[s] => (Forgotten(log[s])' <=> Forgotten(log[s]))
    BY <2>1 DEF Forgotten, environment
  <2> QED BY <2>2, <2>4, <2>5, <2>7, <2>8, <2>9
<1>14. CASE SaveMeta
  <2>1. /\ pc = "save" /\ pc' = "prune" /\ indexedAt' = at /\ at' = 0 /\ mode' = "incremental"
        /\ UNCHANGED <<environment, content, log>>
    BY <1>14 DEF SaveMeta, Rest
  <2>2. indexedAt < at /\ at <= head /\ RunsInOrder'
    BY <2>1 DEF RunsInOrder, Running, environment
  <2>3. Known' = Known
    BY <2>1 DEF Known, Working, SymbolsIn, SymbolsOf
  <2>4. WorksOnChanged'
    BY <1>0, <2>1, <2>2 DEF WorksOnChanged, Working
  <2> QED BY <1>0, <2>1, <2>2, <2>3, <2>4, LogKept DEF environment
<1>15. CASE PruneLog
  <2>1. /\ pc = "prune" /\ pc' = "idle"
        /\ log' = IF head > Retention THEN [s \in Symbols |-> Prune(log[s], head - Retention)] ELSE log
        /\ UNCHANGED <<environment, manifest, indexedAt, content, mode, hashes, before, at>>
    BY <1>15 DEF PruneLog
  <2>2. RunsInOrder' /\ WorksOnChanged' /\ Known' = Known
    BY <2>1 DEF RunsInOrder, WorksOnChanged, Known, Running, Working, SymbolsIn, SymbolsOf, environment
  <2>3. RowsInOrder'
    BY <2>1 DEF RowsInOrder, Prune
  <2>4. \A s \in Symbols : Living(log[s]) => Living(log'[s])
    BY <2>1, PruneLives
  <2>5. head' = head /\ head - Retention \in Int
    BY <1>0, <2>1 DEF environment
  <2>6. \A s \in Symbols : Dead(log[s]) \/ Forgotten(log[s]) => Dead(log'[s]) \/ Forgotten(log[s])'
    <3> SUFFICES ASSUME NEW s \in Symbols, Dead(log[s]) \/ Forgotten(log[s])
                 PROVE  Dead(log'[s]) \/ Forgotten(log[s])'
      OBVIOUS
    <3>1. log'[s] = log[s] \/ log'[s] = Prune(log[s], head - Retention)
      BY <2>1
    <3>2. Dead(Prune(log[s], head - Retention)) \/ \A r \in Prune(log[s], head - Retention) : r.at < head - Retention
      BY <1>0, <2>5, PruneDead DEF Forgotten
    <3>3. CASE log'[s] = log[s]
      BY <2>5, <3>3 DEF Forgotten
    <3>4. CASE log'[s] = Prune(log[s], head - Retention)
      BY <2>5, <3>2, <3>4 DEF Forgotten, Dead
    <3> QED BY <3>1, <3>3, <3>4
  <2> QED BY <2>2, <2>3, <2>4, <2>6
<1> QED BY <1>1, <1>2, <1>3, <1>4, <1>6, <1>7, <1>9, <1>10, <1>11, <1>12, <1>13, <1>14, <1>15
    DEF Next, Step

\* Between two runs the log is as the graph is.
LEMMA LogIs ==
  ASSUME LogInv, TypeOK, Idle
  PROVE  \A s \in Symbols : /\ s \in SymbolsIn(content, Files) => AliveAt(log[s], head)
                            /\ s \notin SymbolsIn(content, Files) => Forgotten(log[s]) \/ ~AliveAt(log[s], head)
<1>1. Known = SymbolsIn(content, Files)
  BY DEF Known, Working, Idle
<1>2. \A s \in Symbols : \A r \in log[s] : r.at \in Nat /\ r.at <= head /\ ~r.second
  <2>1. indexedAt \in Nat /\ head \in Nat /\ indexedAt <= head
    BY DEF LogInv, RunsInOrder, TypeOK
  <2>2. \A s \in Symbols : \A r \in log[s] : r.at \in Nat /\ r.at <= indexedAt /\ ~r.second
    BY DEF LogInv, RowsInOrder, TypeOK, EventRow, Idle
  <2> QED BY <2>1, <2>2
<1> QED BY <1>1, <1>2, AliveIfLast DEF LogInv, TypeOK

\* As of HEAD exactly the symbols of an up to date graph are alive (recorder.py, temporal/store.py):
\* if runs are started at new commits, come to their end, and an index is built in full once.
THEOREM LogIsTheGraph ==
  ASSUME OnCommit, ~ForceFull, MaxCrashes = 0
  PROVE  Spec => []LogAgrees
<1>1. CASE Temporal
  <2>1. TypeOK /\ TypeOK' /\ LogInv /\ [Next]_vars => LogInv'
    BY <1>1, LogStep
  <2>2. TypeOK /\ LogInv => LogAgrees
    BY LogIs DEF LogAgrees, Synced
  <2> QED BY <2>1, <2>2, LogInit, Typing, PTL DEF Spec
<1>2. CASE ~Temporal
  <2>1. LogAgrees
    BY <1>2 DEF LogAgrees
  <2> QED BY <2>1, PTL
<1> QED BY <1>1, <1>2

\* Retention keeps the living (temporal/store.py prune): under the same conditions, the symbols of an
\* up to date graph are alive as of HEAD, however much of the log has been pruned.
THEOREM LivingAreKept ==
  ASSUME OnCommit, ~ForceFull, MaxCrashes = 0
  PROVE  Spec => []LivingSurvivePruning
<1>1. CASE Temporal
  <2>1. TypeOK /\ TypeOK' /\ LogInv /\ [Next]_vars => LogInv'
    BY <1>1, LogStep
  <2>2. TypeOK /\ LogInv => LivingSurvivePruning
    <3> SUFFICES ASSUME TypeOK, LogInv, Synced, NEW s \in SymbolsIn(content, Files)
                 PROVE  AliveAt(log[s], head)
      BY DEF LivingSurvivePruning
    <3>1. s \in Symbols
      BY SymbolsInType DEF TypeOK
    <3> QED BY <3>1, LogIs DEF Synced
  <2> QED BY <2>1, <2>2, LogInit, Typing, PTL DEF Spec
<1>2. CASE ~Temporal
  <2>1. LivingSurvivePruning
    BY <1>2 DEF LivingSurvivePruning
  <2> QED BY <2>1, PTL
<1> QED BY <1>1, <1>2

(***************************************************************************)
(* Induction and recursion over the naturals, said of sets and functions.  *)
(***************************************************************************)
\* A set that has zero and all successors has every natural number.
LEMMA AllNaturals ==
  ASSUME NEW A, 0 \in A, \A n \in Nat : n \in A => n + 1 \in A
  PROVE  Nat \subseteq A
<1> DEFINE Left == Nat \ A
           R == OpToRel(<, Nat)
<1>1. SUFFICES ASSUME Left # {} PROVE FALSE
  OBVIOUS
<1>2. PICK n \in Left : \A m \in Left : <<m, n>> \notin R
  <2>1. Left \subseteq Nat
    OBVIOUS
  <2> HIDE DEF Left, R
  <2>2. IsWellFoundedOn(R, Nat)
    BY NatLessThanWellFounded DEF R
  <2> QED BY <1>1, <2>1, <2>2, WFMin, Zenon
<1>3. n \in Nat /\ n # 0 /\ n - 1 \in Nat /\ (n - 1) + 1 = n
  OBVIOUS
<1>4. n - 1 \in Left
  BY <1>2, <1>3
<1>5. <<n - 1, n>> \in {p \in Nat \X Nat : p[1] < p[2]}
  BY <1>3
<1>6. <<n - 1, n>> \in R
  BY <1>5 DEF OpToRel
<1> QED BY <1>2, <1>4, <1>6

\* The iteration of a function on a set is a function.
LEMMA Iteration ==
  ASSUME NEW S, NEW z \in S, NEW step \in [S -> S]
  PROVE  \E h \in [Nat -> S] : h = [k \in Nat |-> IF k = 0 THEN z ELSE step[h[k - 1]]]
<1> DEFINE Upto(n) == {h \in [Nat -> S] : h[0] = z /\ \A k \in 1..n : h[k] = step[h[k - 1]]}
           Done == {n \in Nat : Upto(n) # {}}
           Agreeing == {n \in Nat : \A m \in Nat : n <= m => \A h \in Upto(n), i \in Upto(m) : h[n] = i[n]}
<1>1. 0 \in Done
  <2>1. [k \in Nat |-> z] \in Upto(0)
    OBVIOUS
  <2> QED BY <2>1
<1>2. ASSUME NEW n \in Nat, n \in Done PROVE n + 1 \in Done
  <2>1. PICK h \in Upto(n) : TRUE
    BY <1>2
  <2> DEFINE i == [h EXCEPT ![n + 1] = step[h[n]]]
  <2>2. i \in [Nat -> S] /\ i[0] = z
    BY <2>1
  <2>3. ASSUME NEW k \in 1..(n + 1) PROVE i[k] = step[i[k - 1]]
    <3>1. CASE k = n + 1
      BY <2>1, <3>1
    <3>2. CASE k \in 1..n
      BY <2>1, <3>2
    <3> QED BY <3>1, <3>2
  <2>4. i \in Upto(n + 1)
    <3> HIDE DEF i
    <3>1. \A k \in 1..(n + 1) : i[k] = step[i[k - 1]]
      BY <2>3
    <3> QED BY <2>2, <3>1
  <2> HIDE DEF i, Upto
  <2> QED BY <2>4
<1>3. Nat \subseteq Done
  <2> HIDE DEF Done
  <2> QED BY <1>1, <1>2, AllNaturals
<1>4. 0 \in Agreeing
  OBVIOUS
<1>5. ASSUME NEW n \in Nat, n \in Agreeing PROVE n + 1 \in Agreeing
  <2> SUFFICES ASSUME NEW m \in Nat, n + 1 <= m, NEW h \in Upto(n + 1), NEW i \in Upto(m)
               PROVE  h[n + 1] = i[n + 1]
    <3> HIDE DEF Upto
    <3> QED OBVIOUS
  <2>1. h \in Upto(n) /\ n <= m
    OBVIOUS
  <2>2. h[n] = i[n]
    BY <1>5, <2>1
  <2>3. h[n + 1] = step[h[(n + 1) - 1]] /\ i[n + 1] = step[i[(n + 1) - 1]] /\ (n + 1) - 1 = n
    OBVIOUS
  <2> QED BY <2>2, <2>3
<1>6. Nat \subseteq Agreeing
  <2> HIDE DEF Agreeing
  <2> QED BY <1>4, <1>5, AllNaturals
<1> DEFINE At(n) == CHOOSE h : h \in Upto(n)
           g == [k \in Nat |-> At(k)[k]]
<1>7. \A n \in Nat : At(n) \in Upto(n)
  <2> HIDE DEF Upto
  <2> QED BY <1>3
<1>8. g \in [Nat -> S] /\ \A k \in Nat : g[k] = At(k)[k]
  <2> HIDE DEF At
  <2>1. \A k \in Nat : At(k)[k] \in S
    BY <1>7
  <2> QED BY <2>1
<1>9. ASSUME NEW k \in Nat PROVE g[k] = IF k = 0 THEN z ELSE step[g[k - 1]]
  <2>0. g[k] = At(k)[k] /\ At(k) \in Upto(k)
    BY <1>7, <1>8
  <2>1. CASE k = 0
    <3> HIDE DEF At, g
    <3> QED BY <2>0, <2>1
  <2>2. CASE k # 0
    <3>1. k - 1 \in Nat /\ k - 1 <= k /\ k \in 1..k
      BY <2>2
    <3>2. g[k - 1] = At(k - 1)[k - 1] /\ At(k - 1) \in Upto(k - 1) /\ k - 1 \in Agreeing
      BY <1>6, <1>7, <1>8, <3>1
    <3> HIDE DEF At, g
    <3>3. At(k)[k] = step[At(k)[k - 1]]
      BY <2>0, <3>1
    <3>4. At(k - 1)[k - 1] = At(k)[k - 1]
      BY <2>0, <3>1, <3>2
    <3> QED BY <2>0, <2>2, <3>2, <3>3, <3>4
  <2> QED BY <2>1, <2>2
<1> HIDE DEF g
<1> QED BY <1>8, <1>9

\* A sequence of subsets of a finite set that gets smaller until it is empty is so
\* by the time it has had a step for each element.
LEMMA DescendsToEmpty ==
  ASSUME NEW S, IsFiniteSet(S), NEW U, \A k \in Nat : U[k] \subseteq S /\ U[k + 1] \subseteq U[k],
         \A k \in Nat : U[k] # {} => U[k + 1] # U[k]
  PROVE  \A k \in Nat : k >= Cardinality(S) => U[k] = {}
<1> DEFINE A == {k \in Nat : U[k] = {} \/ Cardinality(U[k]) + k <= Cardinality(S)}
<1>0. \A k \in Nat : IsFiniteSet(U[k]) /\ Cardinality(U[k]) \in Nat
  BY FS_Subset, FS_CardinalityType
<1>1. 0 \in A
  <2>1. Cardinality(U[0]) <= Cardinality(S)
    BY FS_Subset
  <2> QED BY <1>0, <2>1, FS_CardinalityType
<1>2. ASSUME NEW k \in Nat, k \in A PROVE k + 1 \in A
  <2>1. CASE U[k] = {}
    BY <2>1
  <2>2. CASE U[k] # {}
    <3>1. Cardinality(U[k + 1]) <= Cardinality(U[k]) /\ Cardinality(U[k + 1]) # Cardinality(U[k])
      BY <1>0, <2>2, FS_Subset
    <3>2. Cardinality(U[k + 1]) \in Nat /\ Cardinality(U[k]) \in Nat /\ Cardinality(S) \in Nat
      BY <1>0, FS_CardinalityType
    <3> QED BY <1>2, <2>2, <3>1, <3>2
  <2> QED BY <2>1, <2>2
<1>3. Nat \subseteq A
  <2> HIDE DEF A
  <2> QED BY <1>1, <1>2, AllNaturals
<1>4. ASSUME NEW k \in Nat, k >= Cardinality(S), U[k] # {} PROVE FALSE
  <2>1. Cardinality(U[k]) + k <= Cardinality(S) /\ Cardinality(U[k]) \in Nat /\ Cardinality(S) \in Nat
    BY <1>0, <1>3, <1>4, FS_CardinalityType
  <2>2. Cardinality(U[k]) # 0
    BY <1>0, <1>4, FS_EmptySet
  <2> QED BY <1>4, <2>1, <2>2
<1> QED BY <1>4

(***************************************************************************)
(* The scope of a refresh is closed under importers, a hop at a time.      *)
(***************************************************************************)
KeysOf(fs) == {ModulePath(h) : h \in fs}
ImportersOf(g, fs) == {f \in FilesIn(g) : ImportKeys(g, f) \intersect KeysOf(fs) # {}}

\* The scope of one more hop is the scope and its importers, of however many hops before.
LEMMA ScopeIs ==
  ASSUME NEW g, NEW changed \in SUBSET Files
  PROVE  /\ ResolveScope(g, changed, 0) = changed
         /\ \A k \in Nat : ResolveScope(g, changed, k) \subseteq Files
         /\ \A k \in Nat : ResolveScope(g, changed, k + 1)
               = ResolveScope(g, changed, k) \union ImportersOf(g, ResolveScope(g, changed, k))
<1> DEFINE S == [scope : SUBSET Files, frontier : SUBSET ModuleKeys]
           z == [scope |-> changed, frontier |-> {ModulePath(f) : f \in changed}]
           step == [last \in S |-> Widen(g, last)]
           Reaches(h) == h = [k \in Nat |-> IF k = 0 THEN z ELSE Widen(g, h[k - 1])]
<1>1. z \in S /\ step \in [S -> S]
  <2>1. z \in S
    BY DEF ModuleKeys
  <2>2. ASSUME NEW last \in S PROVE Widen(g, last) \in S
    BY DEF Widen, ModuleKeys, FilesIn
  <2> QED BY <2>1, <2>2
<1>2. PICK h \in [Nat -> S] : h = [k \in Nat |-> IF k = 0 THEN z ELSE step[h[k - 1]]]
  <2> HIDE DEF S, z, step
  <2> QED BY <1>1, Iteration
<1>3. Reaches(h)
  <2>1. \A k \in Nat : k # 0 => h[k - 1] \in S
    <3> HIDE DEF S
    <3> QED BY <1>2
  <2>2. \A k \in Nat : k # 0 => step[h[k - 1]] = Widen(g, h[k - 1])
    <3> HIDE DEF S, z
    <3> QED BY <2>1
  <2> HIDE DEF S, z, step
  <2> QED BY <1>2, <2>2
<1> DEFINE r == CHOOSE i : Reaches(i)
<1>4. Reaches(r)
  <2> HIDE DEF Reaches
  <2> QED BY <1>3, Zenon
<1>5. \A k \in Nat : ResolveScope(g, changed, k) = r[k].scope
  BY Zenon DEF ResolveScope
<1> HIDE DEF r
<1>6. r[0] = z /\ \A k \in Nat : r[k + 1] = Widen(g, r[k])
  <2>1. \A k \in Nat : r[k] = IF k = 0 THEN z ELSE Widen(g, r[k - 1])
    <3> HIDE DEF z
    <3> QED BY <1>4
  <2> HIDE DEF z
  <2>2. \A k \in Nat : k + 1 \in Nat /\ k + 1 # 0 /\ (k + 1) - 1 = k
    OBVIOUS
  <2> QED BY <2>1, <2>2
<1> DEFINE A == {k \in Nat : r[k] \in S /\ ImportersOf(g, r[k].scope) \subseteq r[k + 1].scope}
<1>7. 0 \in A
  <2>1. r[0] = z /\ r[0 + 1] = Widen(g, z) /\ z \in S
    BY <1>1, <1>6
  <2>2. ImportersOf(g, z.scope) \subseteq Widen(g, z).scope
    BY DEF ImportersOf, KeysOf, Widen
  <2> HIDE DEF S, z
  <2> QED BY <2>1, <2>2
<1>8. ASSUME NEW k \in Nat, k \in A PROVE k + 1 \in A
  <2> DEFINE next == {f \in FilesIn(g) \ r[k].scope : ImportKeys(g, f) \intersect r[k].frontier # {}}
  <2>1. r[k + 1] = [scope |-> r[k].scope \union next, frontier |-> KeysOf(next)]
    BY <1>6 DEF Widen, KeysOf
  <2>2. r[k + 1] \in S
    BY <1>8, <2>1 DEF FilesIn, ModuleKeys, KeysOf
  <2>3. r[(k + 1) + 1].scope = r[k + 1].scope
          \union {f \in FilesIn(g) \ r[k + 1].scope : ImportKeys(g, f) \intersect KeysOf(next) # {}}
    <3>1. r[(k + 1) + 1] = Widen(g, r[k + 1])
      BY <1>6
    <3>2. r[k + 1].frontier = KeysOf(next)
      BY <2>1
    <3> HIDE DEF next
    <3> QED BY <3>1, <3>2 DEF Widen
  <2>4. ASSUME NEW f \in ImportersOf(g, r[k + 1].scope) PROVE f \in r[(k + 1) + 1].scope
    <3>1. PICK h1 \in r[k].scope \union next : f \in FilesIn(g) /\ ModulePath(h1) \in ImportKeys(g, f)
      BY <2>1, <2>4 DEF ImportersOf, KeysOf
    <3>2. CASE h1 \in r[k].scope
      BY <1>8, <2>3, <3>1, <3>2 DEF ImportersOf, KeysOf
    <3>3. CASE h1 \in next
      <4>1. ImportKeys(g, f) \intersect KeysOf(next) # {}
        BY <3>1, <3>3 DEF KeysOf
      <4> HIDE DEF next
      <4> QED BY <2>3, <3>1, <4>1
    <3> QED BY <3>1, <3>2, <3>3
  <2> QED BY <2>2, <2>4
<1>9. Nat \subseteq A
  <2> HIDE DEF A
  <2> QED BY <1>7, <1>8, AllNaturals
<1>10. ASSUME NEW k \in Nat PROVE r[k + 1].scope = r[k].scope \union ImportersOf(g, r[k].scope)
  <2>1. \A i \in Nat : r[i].frontier \subseteq KeysOf(r[i].scope)
    <3> SUFFICES ASSUME NEW i \in Nat PROVE r[i].frontier \subseteq KeysOf(r[i].scope)
      OBVIOUS
    <3>1. CASE i = 0
      BY <1>6, <3>1 DEF KeysOf
    <3>2. CASE i # 0
      <4>1. r[i] = Widen(g, r[i - 1])
        BY <1>6, <3>2
      <4> QED BY <4>1 DEF Widen, KeysOf
    <3> QED BY <3>1, <3>2
  <2>2. r[k + 1].scope \subseteq r[k].scope \union ImportersOf(g, r[k].scope) /\ r[k].scope \subseteq r[k + 1].scope
    <3>1. r[k + 1] = Widen(g, r[k]) /\ r[k].frontier \subseteq KeysOf(r[k].scope)
      BY <1>6, <2>1
    <3>2. {f \in FilesIn(g) \ r[k].scope : ImportKeys(g, f) \intersect r[k].frontier # {}}
            \subseteq ImportersOf(g, r[k].scope)
      BY <3>1 DEF ImportersOf
    <3> QED BY <3>1, <3>2 DEF Widen
  <2> QED BY <1>9, <2>2
<1> QED BY <1>5, <1>6, <1>9, <1>10

\* A larger change set has a larger scope, whatever the changed files hold.
LEMMA ScopeGrows ==
  ASSUME NEW g, NEW h, NEW few \in SUBSET Files, NEW many \in SUBSET Files, few \subseteq many,
         \A f \in Files \ many : g[f] = h[f]
  PROVE  \A k \in Nat : ResolveScope(g, few, k) \subseteq ResolveScope(h, many, k)
<1> DEFINE F(k) == ResolveScope(g, few, k)
           M(k) == ResolveScope(h, many, k)
           A == {k \in Nat : F(k) \subseteq M(k) /\ many \subseteq M(k)}
<1>1. /\ F(0) = few /\ \A k \in Nat : F(k + 1) = F(k) \union ImportersOf(g, F(k))
      /\ M(0) = many /\ \A k \in Nat : M(k + 1) = M(k) \union ImportersOf(h, M(k))
  <2>1. F(0) = few /\ \A k \in Nat : F(k + 1) = F(k) \union ImportersOf(g, F(k))
    BY ScopeIs, Zenon
  <2>2. M(0) = many /\ \A k \in Nat : M(k + 1) = M(k) \union ImportersOf(h, M(k))
    BY ScopeIs, Zenon
  <2> QED BY <2>1, <2>2
<1> HIDE DEF F, M
<1>2. 0 \in A
  BY <1>1
<1>3. ASSUME NEW k \in Nat, k \in A PROVE k + 1 \in A
  <2>1. ASSUME NEW f \in ImportersOf(g, F(k)) PROVE f \in M(k + 1)
    <3>1. CASE f \in many
      BY <1>1, <1>3, <3>1
    <3>2. CASE f \notin many
      <4>1. g[f] = h[f]
        BY <2>1, <3>2 DEF ImportersOf, FilesIn
      <4>2. f \in ImportersOf(h, M(k))
        BY <1>3, <2>1, <4>1 DEF ImportersOf, FilesIn, ImportKeys, KeysOf
      <4> QED BY <1>1, <4>2
    <3> QED BY <3>1, <3>2
  <2> QED BY <1>1, <1>3, <2>1
<1>4. Nat \subseteq A
  <2> HIDE DEF A
  <2> QED BY <1>2, <1>3, AllNaturals
<1> QED BY <1>4 DEF F, M

\* Where nothing has changed, nothing is in scope.
LEMMA ScopeOfNothing ==
  ASSUME NEW g
  PROVE  \A k \in Nat : ResolveScope(g, {}, k) = {}
<1> DEFINE A == {k \in Nat : ResolveScope(g, {}, k) = {}}
<1>1. 0 \in A /\ \A k \in Nat : k \in A => k + 1 \in A
  BY ScopeIs DEF ImportersOf, KeysOf
<1>2. Nat \subseteq A
  <2> HIDE DEF A
  <2> QED BY <1>1, AllNaturals
<1> QED BY <1>2

(***************************************************************************)
(* Re-exports: the rounds come to a fixpoint.                              *)
(***************************************************************************)
\* The image of a finite set is finite.
LEMMA FiniteImage ==
  ASSUME NEW S, IsFiniteSet(S), NEW f, DOMAIN f = S, f = [x \in S |-> f[x]]
  PROVE  IsFiniteSet({f[x] : x \in S})
<1> DEFINE T == {f[x] : x \in S}
<1>1. f \in Surjection(S, T)
  BY DEF Surjection
<1> QED BY <1>1, FS_Surjection

\* There are finitely many imports in the __init__ files.
LEMMA FiniteLinks ==
  ASSUME NEW g \in Snapshot
  PROVE  IsFiniteSet(InitImports(g))
<1> DEFINE inits == {f \in FilesIn(g) : IsInit(f)}
           Link(f, imp) == [key |-> ModuleOf(g, f), names |-> imp.names,
                            from |-> ResolveImport(f, imp, ModuleOf(g, f))]
           w == [f \in inits |-> {Link(f, imp) : imp \in g[f].imports}]
<1>1. InitImports(g) = UNION {w[f] : f \in inits}
  <2>1. InitImports(g) = UNION {{Link(f, imp) : imp \in g[f].imports} : f \in inits}
    BY Zenon DEF InitImports
  <2>2. \A f \in inits : w[f] = {Link(f, imp) : imp \in g[f].imports}
    OBVIOUS
  <2> HIDE DEF w
  <2> QED BY <2>1, <2>2
<1>2. IsFiniteSet(inits)
  BY FilesAssumption, FS_Subset DEF FilesIn
<1>3. IsFiniteSet({w[f] : f \in inits})
  <2>1. DOMAIN w = inits /\ w = [f \in inits |-> w[f]]
    OBVIOUS
  <2> HIDE DEF w, inits
  <2> QED BY <1>2, <2>1, FiniteImage
<1>4. ASSUME NEW f \in inits PROVE IsFiniteSet(w[f])
  <2> DEFINE v == [imp \in g[f].imports |-> Link(f, imp)]
  <2>1. IsFiniteSet(g[f].imports)
    BY ContentsAssumption DEF FilesIn, Snapshot
  <2>2. DOMAIN v = g[f].imports /\ v = [imp \in g[f].imports |-> v[imp]]
    OBVIOUS
  <2>3. IsFiniteSet({v[imp] : imp \in g[f].imports})
    <3> HIDE DEF v
    <3> QED BY <2>1, <2>2, FiniteImage
  <2>4. {v[imp] : imp \in g[f].imports} = w[f]
    <3> HIDE DEF Link
    <3> QED OBVIOUS
  <2> QED BY <2>3, <2>4
<1>5. \A s \in {w[f] : f \in inits} : IsFiniteSet(s)
  <2> HIDE DEF w, inits
  <2> QED BY <1>4
<1> HIDE DEF w, inits
<1> QED BY <1>1, <1>3, <1>5, FS_UNION

\* A re-export maps a key and a name to symbols of the files.
Reexport(g) == [key : {l.key : l \in InitImports(g)}, name : UNION {l.names : l \in InitImports(g)},
                target : SymbolsIn(g, Files)]

LEMMA FoundType ==
  ASSUME NEW g, NEW R \in SUBSET Reexport(g)
  PROVE  /\ \A key, n : Target(g, R, key, n) \subseteq SymbolsIn(g, Files)
         /\ Found(g, InitImports(g), R) \subseteq Reexport(g)
<1>1. \A key, n : Exported(g, key, n) \subseteq SymbolsIn(g, Files)
  BY DEF Exported, FilesOf, FilesIn, SymbolsIn, SymbolsOf
<1>2. \A key, n : Target(g, R, key, n) \subseteq SymbolsIn(g, Files)
  BY <1>1 DEF Target, Reexport
<1>3. ASSUME NEW r \in Found(g, InitImports(g), R) PROVE r \in Reexport(g)
  <2>1. PICK l \in InitImports(g) : \E n \in l.names : \E t \in Target(g, R, l.from, n) :
          r = [key |-> l.key, name |-> n, target |-> t]
    BY <1>3 DEF Found
  <2>2. PICK n \in l.names : \E t \in Target(g, R, l.from, n) : r = [key |-> l.key, name |-> n, target |-> t]
    BY <2>1
  <2>3. PICK t \in Target(g, R, l.from, n) : r = [key |-> l.key, name |-> n, target |-> t]
    BY <2>2
  <2>4. t \in SymbolsIn(g, Files)
    BY <1>2, <2>3
  <2> QED BY <2>2, <2>3, <2>4 DEF Reexport
<1> QED BY <1>2, <1>3

\* The re-exports are what the last round has found.
LEMMA RoundsAre ==
  ASSUME NEW g \in Snapshot
  PROVE  \E r : /\ r[0] = {} /\ \A k \in Nat : r[k] \subseteq Reexport(g)
                /\ \A k \in Nat : r[k + 1] = r[k] \union Found(g, InitImports(g), r[k])
                /\ Reexports(g) = r[Cardinality(InitImports(g)) + 1]
<1> DEFINE S == SUBSET Reexport(g)
           step == [R \in S |-> R \union Found(g, InitImports(g), R)]
           Reaches(h) == h = [k \in Nat |-> IF k = 0 THEN {} ELSE h[k - 1] \union Found(g, InitImports(g), h[k - 1])]
<1>1. {} \in S /\ step \in [S -> S]
  <2>1. \A R \in S : R \union Found(g, InitImports(g), R) \in S
    BY FoundType
  <2> HIDE DEF S
  <2>2. step \in [S -> S]
    BY <2>1
  <2> QED BY <2>2 DEF S
<1>2. PICK h \in [Nat -> S] : h = [k \in Nat |-> IF k = 0 THEN {} ELSE step[h[k - 1]]]
  <2> HIDE DEF S, step
  <2> QED BY <1>1, Iteration
<1>3. Reaches(h)
  <2>1. \A k \in Nat : k # 0 => h[k - 1] \in S
    <3> HIDE DEF S, step
    <3>1. h \in [Nat -> S] /\ \A k \in Nat : k # 0 => k - 1 \in Nat
      BY <1>2
    <3> QED BY <3>1
  <2>2. \A k \in Nat : k # 0 => step[h[k - 1]] = h[k - 1] \union Found(g, InitImports(g), h[k - 1])
    <3> HIDE DEF S
    <3> QED BY <2>1
  <2> HIDE DEF S, step
  <2> QED BY <1>2, <2>2
<1> DEFINE r == CHOOSE i : Reaches(i)
<1>4. Reaches(r)
  <2> HIDE DEF Reaches
  <2> QED BY <1>3, Zenon
<1>5. Reexports(g) = r[Cardinality(InitImports(g)) + 1]
  BY Zenon DEF Reexports
<1> HIDE DEF r
<1>6. r[0] = {} /\ \A k \in Nat : r[k + 1] = r[k] \union Found(g, InitImports(g), r[k])
  <2>1. \A k \in Nat : r[k] = IF k = 0 THEN {} ELSE r[k - 1] \union Found(g, InitImports(g), r[k - 1])
    BY <1>4
  <2>2. \A k \in Nat : k + 1 \in Nat /\ k + 1 # 0 /\ (k + 1) - 1 = k
    OBVIOUS
  <2> QED BY <2>1, <2>2
<1> DEFINE A == {k \in Nat : r[k] \subseteq Reexport(g)}
<1>7. 0 \in A /\ \A k \in Nat : k \in A => k + 1 \in A
  <2>1. ASSUME NEW k \in Nat, r[k] \subseteq Reexport(g) PROVE r[k + 1] \subseteq Reexport(g)
    BY <1>6, <2>1, FoundType
  <2> QED BY <1>6, <2>1
<1>8. Nat \subseteq A
  <2> HIDE DEF A
  <2> QED BY <1>7, AllNaturals
<1>9. \A k \in Nat : r[k] \subseteq Reexport(g)
  BY <1>8
<1> QED BY <1>5, <1>6, <1>9

\* An importer gets symbols that are there.
LEMMA ProvidedType ==
  ASSUME NEW g \in Snapshot, NEW key, NEW n
  PROVE  Provided(g, key, n) \subseteq SymbolsIn(g, Files)
<1>1. Reexports(g) \subseteq Reexport(g)
  <2>1. Cardinality(InitImports(g)) + 1 \in Nat
    BY FiniteLinks, FS_CardinalityType
  <2> QED BY <2>1, RoundsAre
<1> QED BY <1>1, FoundType DEF Provided

\* The levels of ReexportsWithinHops.
Nested(level) ==
  /\ level \in [ModuleKeys -> 0..(Hops - 1)]
  /\ \A f \in {h \in Files : IsInit(h)} : \A c \in Versions[f] : \A imp \in {i \in c.imports : i.names # {}} :
       WrittenKey(f, imp) \in ModuleKeys => level[WrittenKey(f, imp)] < level[ModulePath(f)]

\* An import of an __init__ file is of a lower level.
LEMMA LinkIs ==
  ASSUME KeysAgree, NEW level, Nested(level), NEW g \in Trees, NEW l \in InitImports(g)
  PROVE  /\ l.key \in ModuleKeys
         /\ \E f \in FilesIn(g) : \E imp \in g[f].imports :
              IsInit(f) /\ l = [key |-> ModulePath(f), names |-> imp.names, from |-> WrittenKey(f, imp)]
         /\ l.names # {} /\ l.from \in ModuleKeys => level[l.from] < level[l.key]
<1>1. PICK f \in FilesIn(g) : IsInit(f) /\ \E imp \in g[f].imports :
        l = [key |-> ModuleOf(g, f), names |-> imp.names, from |-> KeyOf(g, f, imp)]
  BY DEF InitImports, KeyOf
<1>2. PICK imp \in g[f].imports : l = [key |-> ModuleOf(g, f), names |-> imp.names, from |-> KeyOf(g, f, imp)]
  BY <1>1
<1>3. ModuleOf(g, f) = ModulePath(f) /\ KeyOf(g, f, imp) = WrittenKey(f, imp)
  BY <1>2 DEF KeysAgree
<1>4. f \in Files /\ g[f] \in Versions[f]
  BY DEF FilesIn, Trees
<1> QED BY <1>1, <1>2, <1>3, <1>4 DEF Nested, ModuleKeys

\* What a round finds.
LEMMA FoundIs ==
  ASSUME NEW g, NEW links, NEW R, NEW r
  PROVE  r \in Found(g, links, R) <=>
           \E l \in links : \E n \in l.names : \E t \in Target(g, R, l.from, n) :
             r = [key |-> l.key, name |-> n, target |-> t]
BY DEF Found

\* Importing a name from a package is importing it from where its __init__ has it from.
LEMMA ProvidedIs ==
  ASSUME KeysAgree, NEW level, Nested(level), NEW g \in Trees, NEW key, NEW n
  PROVE  Provided(g, key, n) =
           IF Exported(g, key, n) # {} THEN Exported(g, key, n)
           ELSE UNION {Provided(g, l.from, n) : l \in {m \in InitImports(g) : m.key = key /\ n \in m.names}}
<1> DEFINE links == InitImports(g)
           C == Cardinality(links) + 1
<1>0. g \in Snapshot
  BY DEF Trees
<1>1. PICK r : /\ r[0] = {} /\ \A k \in Nat : r[k] \subseteq Reexport(g)
               /\ \A k \in Nat : r[k + 1] = r[k] \union Found(g, links, r[k])
               /\ Reexports(g) = r[C]
  BY <1>0, RoundsAre
<1>2. IsFiniteSet(links) /\ C \in Nat /\ C >= Cardinality(links)
  BY <1>0, FiniteLinks, FS_CardinalityType
<1> HIDE DEF C
<1>3. \A l \in links : l.key \in ModuleKeys /\ level[l.key] \in Nat
  BY LinkIs, BoundsAssumption DEF Nested
<1> DEFINE At(k, K) == {e \in r[k] : e.key = K}
           U == [k \in Nat |-> {l \in links : \E j \in Nat : j >= k /\ At(j + 1, l.key) # At(j, l.key)}]
<1>4. ASSUME NEW k \in Nat PROVE U[k] \subseteq links /\ U[k + 1] \subseteq U[k]
  OBVIOUS
\* A link whose key changes in round j has a key of a lower level that changes before.
<1>5. ASSUME NEW j \in Nat, NEW l \in links, At((j + 1) + 1, l.key) # At(j + 1, l.key)
      PROVE  \E m \in links : level[m.key] < level[l.key] /\ At(j + 1, m.key) # At(j, m.key)
  <2>1. r[(j + 1) + 1] = r[j + 1] \union Found(g, links, r[j + 1]) /\ r[j + 1] = r[j] \union Found(g, links, r[j])
    BY <1>1
  <2>2. PICK e \in Found(g, links, r[j + 1]) : e.key = l.key /\ e \notin r[j + 1]
    BY <1>5, <2>1
  <2>3. PICK m \in links : \E x \in m.names : \E t \in Target(g, r[j + 1], m.from, x) :
          e = [key |-> m.key, name |-> x, target |-> t]
    BY FoundIs
  <2>4. PICK x \in m.names : \E t \in Target(g, r[j + 1], m.from, x) : e = [key |-> m.key, name |-> x, target |-> t]
    BY <2>3
  <2>5. PICK t \in Target(g, r[j + 1], m.from, x) : e = [key |-> m.key, name |-> x, target |-> t]
    BY <2>4
  <2>6. t \notin Target(g, r[j], m.from, x)
    BY <2>1, <2>2, <2>5, FoundIs
  <2>7. PICK s \in r[j + 1] : s.key = m.from /\ s \notin r[j]
    BY <2>5, <2>6 DEF Target
  <2>8. s.key \in {i.key : i \in links}
    BY <1>1, <2>7 DEF Reexport
  <2>9. PICK i \in links : i.key = m.from
    BY <2>7, <2>8
  <2>10. level[m.from] < level[m.key] /\ m.key = l.key
    BY <1>3, <2>2, <2>5, <2>9, LinkIs
  <2> QED BY <2>7, <2>9, <2>10
<1>6. ASSUME NEW k \in Nat, U[k] # {} PROVE U[k + 1] # U[k]
  <2> DEFINE L == {level[l.key] : l \in U[k]}
  <2>1. L \subseteq Nat /\ L # {}
    BY <1>3, <1>4, <1>6
  <2>2. PICK low \in L : \A x \in L : low <= x
    <3> HIDE DEF L
    <3> QED BY <2>1, LeastNat
  <2>3. PICK l \in U[k] : low = level[l.key]
    OBVIOUS
  <2>4. ASSUME l \in U[k + 1] PROVE FALSE
    <3>1. PICK j \in Nat : j >= k + 1 /\ At(j + 1, l.key) # At(j, l.key)
      BY <2>4
    <3>2. j - 1 \in Nat /\ (j - 1) + 1 = j /\ j - 1 >= k
      BY <3>1
    <3>3. PICK m \in links : level[m.key] < level[l.key] /\ At(j, m.key) # At(j - 1, m.key)
      <4> HIDE DEF At, links
      <4>1. At(((j - 1) + 1) + 1, l.key) # At((j - 1) + 1, l.key)
        BY <3>1, <3>2
      <4>2. l \in links
        BY <1>4
      <4> QED BY <1>5, <3>2, <4>1, <4>2
    <3>4. m \in U[k]
      <4> HIDE DEF At, links
      <4>1. At((j - 1) + 1, m.key) # At(j - 1, m.key)
        BY <3>2, <3>3
      <4> QED BY <3>2, <4>1
    <3>5. level[m.key] \in L
      BY <3>4
    <3> QED BY <1>3, <1>4, <2>2, <2>3, <3>3, <3>5
  <2> QED BY <2>3, <2>4
<1>7. U[C] = {}
  <2> HIDE DEF U, links
  <2> QED BY <1>2, <1>4, <1>6, DescendsToEmpty
<1>8. Found(g, links, r[C]) \subseteq r[C]
  <2> SUFFICES ASSUME NEW e \in Found(g, links, r[C]) PROVE e \in r[C]
    OBVIOUS
  <2>1. PICK m \in links : e.key = m.key
    BY FoundIs
  <2>2. At(C + 1, m.key) = At(C, m.key)
    <3> SUFFICES ASSUME At(C + 1, m.key) # At(C, m.key) PROVE FALSE
      OBVIOUS
    <3>1. \E j \in Nat : j >= C /\ At(j + 1, m.key) # At(j, m.key)
      <4> HIDE DEF At, links
      <4>1. C >= C
        BY <1>2
      <4> QED BY <1>2, <4>1
    <3>2. m \in U[C]
      <4> HIDE DEF At, links
      <4> QED BY <1>2, <3>1
    <3> QED BY <1>7, <3>2
  <2>3. e \in r[C + 1]
    BY <1>1, <1>2
  <2> QED BY <2>1, <2>2, <2>3
<1> HIDE DEF U, At
<1> DEFINE A == {k \in Nat : r[k] \subseteq Found(g, links, r[k])}
<1>9. ASSUME NEW k \in Nat, k \in A PROVE k + 1 \in A
  <2>1. r[k + 1] = r[k] \union Found(g, links, r[k])
    BY <1>1
  <2>2. \A K, x : Target(g, r[k], K, x) \subseteq Target(g, r[k + 1], K, x)
    BY <2>1 DEF Target
  <2>3. Found(g, links, r[k]) \subseteq Found(g, links, r[k + 1])
    <3> HIDE DEF links
    <3> SUFFICES ASSUME NEW e \in Found(g, links, r[k]) PROVE e \in Found(g, links, r[k + 1])
      OBVIOUS
    <3>1. PICK l \in links : \E x \in l.names : \E t \in Target(g, r[k], l.from, x) :
            e = [key |-> l.key, name |-> x, target |-> t]
      BY FoundIs
    <3>2. PICK x \in l.names : \E t \in Target(g, r[k], l.from, x) : e = [key |-> l.key, name |-> x, target |-> t]
      BY <3>1
    <3>3. PICK t \in Target(g, r[k], l.from, x) : e = [key |-> l.key, name |-> x, target |-> t]
      BY <3>2
    <3>4. t \in Target(g, r[k + 1], l.from, x)
      BY <2>2
    <3> QED BY <3>3, <3>4 DEF Found
  <2>4. r[k + 1] \subseteq Found(g, links, r[k + 1])
    <3>1. r[k] \subseteq Found(g, links, r[k])
      BY <1>9
    <3> HIDE DEF links
    <3> QED BY <2>1, <2>3, <3>1
  <2> QED BY <2>4
<1>10. Nat \subseteq A
  <2>1. 0 \in A
    BY <1>1
  <2> HIDE DEF A
  <2> QED BY <1>9, <2>1, AllNaturals
<1>11. r[C] = Found(g, links, r[C])
  BY <1>2, <1>8, <1>10
<1> HIDE DEF A, links
<1>12. {e.target : e \in {s \in r[C] : s.key = key /\ s.name = n}}
         = UNION {Target(g, r[C], l.from, n) : l \in {m \in links : m.key = key /\ n \in m.names}}
  <2>1. ASSUME NEW e \in r[C], e.key = key, e.name = n
        PROVE  \E l \in links : l.key = key /\ n \in l.names /\ e.target \in Target(g, r[C], l.from, n)
    <3>1. PICK l \in links : \E x \in l.names : \E t \in Target(g, r[C], l.from, x) :
            e = [key |-> l.key, name |-> x, target |-> t]
      BY <1>11, FoundIs
    <3> QED BY <2>1, <3>1
  <2>2. ASSUME NEW l \in links, l.key = key, n \in l.names, NEW t \in Target(g, r[C], l.from, n)
        PROVE  \E e \in r[C] : e.key = key /\ e.name = n /\ e.target = t
    <3>1. [key |-> l.key, name |-> n, target |-> t] \in r[C]
      BY <1>11, <2>2, FoundIs
    <3> QED BY <2>2, <3>1
  <2> QED BY <2>1, <2>2
<1>13. \A K, x : Provided(g, K, x) = Target(g, r[C], K, x)
  BY <1>1 DEF Provided
<1> QED BY <1>12, <1>13 DEF Target, links

\* The changed files are in the scope.
LEMMA ScopeHas ==
  ASSUME NEW g, NEW changed \in SUBSET Files
  PROVE  \A k \in Nat : changed \subseteq ResolveScope(g, changed, k)
<1> DEFINE A == {k \in Nat : changed \subseteq ResolveScope(g, changed, k)}
<1>1. /\ ResolveScope(g, changed, 0) = changed
      /\ \A k \in Nat : ResolveScope(g, changed, k) \subseteq ResolveScope(g, changed, k + 1)
  BY ScopeIs
<1>2. Nat \subseteq A
  <2>1. 0 \in A /\ \A k \in Nat : k \in A => k + 1 \in A
    BY <1>1
  <2> HIDE DEF A
  <2> QED BY <2>1, AllNaturals
<1> QED BY <1>2

\* The files imported as a key no changed file has are the same ones.
LEMMA FilesOfLocal ==
  ASSUME KeysAgree, NEW g \in Trees, NEW h \in Trees, NEW changed \in SUBSET Files,
         \A f \in Files \ changed : g[f] = h[f], NEW K, K \notin KeysOf(changed)
  PROVE  /\ FilesOf(g, K) = FilesOf(h, K)
         /\ \A n : Exported(g, K, n) = Exported(h, K, n)
<1>1. \A f \in Files : ModulePath(f) = K => g[f] = h[f]
  BY DEF KeysOf
<1>2. /\ FilesOf(g, K) = {f \in FilesIn(g) : ModulePath(f) = K}
      /\ FilesOf(h, K) = {f \in FilesIn(h) : ModulePath(f) = K}
  BY DEF FilesOf, KeysAgree
<1>3. FilesOf(g, K) = FilesOf(h, K)
  BY <1>1, <1>2 DEF FilesIn
<1>4. \A f \in FilesOf(g, K) : g[f] = h[f]
  BY <1>1, <1>2 DEF FilesIn
<1>5. ASSUME NEW n PROVE Exported(g, K, n) = Exported(h, K, n)
  <2>1. {f \in FilesOf(g, K) : n \in g[f].defs} = {f \in FilesOf(h, K) : n \in h[f].defs}
    BY <1>3, <1>4
  <2> QED BY <2>1 DEF Exported
<1> QED BY <1>3, <1>5

\* A key that is of no file provides nothing.
LEMMA NoKeyProvides ==
  ASSUME KeysAgree, NEW level, Nested(level), NEW g \in Trees, NEW K, K \notin ModuleKeys
  PROVE  /\ FilesOf(g, K) = {}
         /\ \A n : Provided(g, K, n) = {}
<1>1. FilesOf(g, K) = {}
  BY DEF FilesOf, KeysAgree, FilesIn, ModuleKeys
<1>2. \A n : Exported(g, K, n) = {}
  BY <1>1 DEF Exported
<1>3. \A n : {m \in InitImports(g) : m.key = K /\ n \in m.names} = {}
  BY LinkIs
<1>4. ASSUME NEW n PROVE Provided(g, K, n) = {}
  <2>1. Provided(g, K, n) = UNION {Provided(g, l.from, n) : l \in {m \in InitImports(g) : m.key = K /\ n \in m.names}}
    BY <1>2, ProvidedIs
  <2> QED BY <1>3, <2>1
<1> QED BY <1>1, <1>4

\* The re-exports of a package no changed file belongs to.
LEMMA LinksLocal ==
  ASSUME KeysAgree, NEW level, Nested(level), NEW g \in Trees, NEW h \in Trees, NEW changed \in SUBSET Files,
         \A f \in Files \ changed : g[f] = h[f], NEW K, K \notin KeysOf(changed),
         NEW l \in InitImports(g), l.key = K
  PROVE  /\ l \in InitImports(h)
         /\ \E f \in FilesIn(g) : ModulePath(f) = K /\ l.from \in ImportKeys(g, f)
<1>1. PICK f \in FilesIn(g) : IsInit(f) /\ \E imp \in g[f].imports :
        l = [key |-> ModuleOf(g, f), names |-> imp.names, from |-> KeyOf(g, f, imp)]
  BY DEF InitImports, KeyOf
<1>2. PICK imp \in g[f].imports : l = [key |-> ModuleOf(g, f), names |-> imp.names, from |-> KeyOf(g, f, imp)]
  BY <1>1
<1>3. ModuleOf(g, f) = ModulePath(f) /\ KeyOf(g, f, imp) = WrittenKey(f, imp)
  BY <1>2 DEF KeysAgree
<1>4. ModulePath(f) = K /\ f \in Files
  BY <1>2, <1>3 DEF FilesIn
<1>5. g[f] = h[f] /\ f \in FilesIn(h)
  BY <1>4 DEF KeysOf, FilesIn
<1>6. ModuleOf(h, f) = ModulePath(f) /\ KeyOf(h, f, imp) = WrittenKey(f, imp)
  BY <1>2, <1>5 DEF KeysAgree
<1>7. l \in {[key |-> ModuleOf(h, f), names |-> i.names, from |-> KeyOf(h, f, i)] : i \in h[f].imports}
  BY <1>2, <1>3, <1>5, <1>6
<1>8. l \in InitImports(h)
  BY <1>1, <1>5, <1>7 DEF InitImports, KeyOf
<1>9. l.from \in ImportKeys(g, f)
  BY <1>2, <1>3 DEF ImportKeys, WrittenKey
<1> QED BY <1>1, <1>4, <1>8, <1>9

\* What a key provides depends on the files of the scope only, if it is as far from them as its
\* level of re-exports.
LEMMA ProvidedLocal ==
  ASSUME KeysAgree, NEW level, Nested(level), NEW g \in Trees, NEW h \in Trees, NEW changed \in SUBSET Files,
         \A f \in Files \ changed : g[f] = h[f]
  PROVE  \A j \in Nat : \A K : K \notin KeysOf(ResolveScope(g, changed, j)) /\ (K \in ModuleKeys => level[K] <= j)
           => \A n : Provided(g, K, n) = Provided(h, K, n)
<1> DEFINE Far(K, j) == K \notin KeysOf(ResolveScope(g, changed, j)) /\ (K \in ModuleKeys => level[K] <= j)
           Same(K) == \A n : Provided(g, K, n) = Provided(h, K, n)
           A == {j \in Nat : \A K : Far(K, j) => Same(K)}
<1>0. \A f \in Files \ changed : h[f] = g[f]
  OBVIOUS
<1>1. ASSUME NEW j \in Nat, j = 0 \/ j - 1 \in A PROVE j \in A
  <2> SUFFICES ASSUME NEW K, Far(K, j) PROVE Same(K)
    OBVIOUS
  <2> SUFFICES ASSUME NEW n PROVE Provided(g, K, n) = Provided(h, K, n)
    OBVIOUS
  <2>1. K \notin KeysOf(changed)
    BY ScopeHas DEF KeysOf
  <2>2. Exported(g, K, n) = Exported(h, K, n)
    BY <2>1, FilesOfLocal
  <2> DEFINE Links(t) == {m \in InitImports(t) : m.key = K /\ n \in m.names}
  <2>3. Links(g) = Links(h)
    <3>1. \A l \in InitImports(g) : l.key = K => l \in InitImports(h)
      BY <2>1, LinksLocal
    <3>2. \A l \in InitImports(h) : l.key = K => l \in InitImports(g)
      BY <1>0, <2>1, LinksLocal
    <3> QED BY <3>1, <3>2
  <2>4. ASSUME NEW l \in Links(g) PROVE Provided(g, l.from, n) = Provided(h, l.from, n)
    <3>1. CASE l.from \notin ModuleKeys
      BY <3>1, NoKeyProvides
    <3>2. CASE l.from \in ModuleKeys
      <4>1. K \in ModuleKeys /\ level[l.from] < level[K] /\ level[K] <= j
        BY <3>2, LinkIs
      <4>2. level[l.from] \in Nat /\ level[K] \in Nat
        BY <3>2, <4>1, BoundsAssumption DEF Nested
      <4>3. j - 1 \in Nat /\ level[l.from] <= j - 1 /\ j - 1 \in A /\ (j - 1) + 1 = j
        <5> HIDE DEF A
        <5> QED BY <1>1, <4>1, <4>2
      <4>4. PICK f \in FilesIn(g) : ModulePath(f) = K /\ l.from \in ImportKeys(g, f)
        BY <2>1, LinksLocal
      <4>5. l.from \notin KeysOf(ResolveScope(g, changed, j - 1))
        <5> SUFFICES ASSUME l.from \in KeysOf(ResolveScope(g, changed, j - 1)) PROVE FALSE
          OBVIOUS
        <5>1. f \in ImportersOf(g, ResolveScope(g, changed, j - 1))
          BY <4>4 DEF ImportersOf
        <5>2. f \in ResolveScope(g, changed, j)
          <6>0. \A k \in Nat : ResolveScope(g, changed, k + 1)
                  = ResolveScope(g, changed, k) \union ImportersOf(g, ResolveScope(g, changed, k))
            BY ScopeIs
          <6>1. ResolveScope(g, changed, (j - 1) + 1) = ResolveScope(g, changed, j - 1)
                  \union ImportersOf(g, ResolveScope(g, changed, j - 1))
            BY <4>3, <6>0
          <6>2. ResolveScope(g, changed, (j - 1) + 1) = ResolveScope(g, changed, j)
            BY <4>3
          <6> QED BY <5>1, <6>1, <6>2
        <5>3. K \in KeysOf(ResolveScope(g, changed, j))
          BY <4>4, <5>2 DEF KeysOf
        <5> QED BY <5>3
      <4>6. Far(l.from, j - 1)
        BY <4>3, <4>5
      <4>7. Same(l.from)
        <5> HIDE DEF Far, Same
        <5> QED BY <4>3, <4>6
      <4> QED BY <4>7
    <3> QED BY <3>1, <3>2
  <2>5. {Provided(g, l.from, n) : l \in Links(g)} = {Provided(h, l.from, n) : l \in Links(h)}
    <3> HIDE DEF Links
    <3> QED BY <2>3, <2>4
  <2> DEFINE U(t) == UNION {Provided(t, l.from, n) : l \in Links(t)}
  <2>6. /\ Provided(g, K, n) = IF Exported(g, K, n) # {} THEN Exported(g, K, n)
                               ELSE U(g)
        /\ Provided(h, K, n) = IF Exported(h, K, n) # {} THEN Exported(h, K, n)
                               ELSE U(h)
    BY ProvidedIs
  <2>7. U(g) = U(h)
    BY <2>5
  <2> HIDE DEF U
  <2> QED BY <2>2, <2>6, <2>7
<1>2. Nat \subseteq A
  <2>1. 0 \in A /\ \A j \in Nat : j \in A => j + 1 \in A
    <3> HIDE DEF A
    <3>1. \A j \in Nat : j + 1 \in Nat /\ (j + 1) - 1 = j
      OBVIOUS
    <3> QED BY <1>1, <3>1
  <2> HIDE DEF A
  <2> QED BY <2>1, AllNaturals
<1> QED BY <1>2

\* The edges a full index gives a file.
Fresh(g, f) == ResolvedEdges(g, {f})

\* A file that is there has the edges of its imports and of its calls.
LEMMA FreshIs ==
  ASSUME NEW g, NEW f \in Files
  PROVE  Fresh(g, f) = IF g[f] = NoFile THEN {} ELSE ImportEdges(g, f) \union CallEdges(g, f)
BY DEF Fresh, ResolvedEdges, FilesIn

\* The files an importer outside the scope imports from, and what they provide, are what they were.
LEMMA ImportsLocal ==
  ASSUME KeysAgree, SubmodulesNamed, NEW level, Nested(level), NEW g \in Trees, NEW h \in Trees,
         NEW changed \in SUBSET Files, \A f \in Files \ changed : g[f] = h[f],
         NEW f \in Files \ ResolveScope(g, changed, Hops), g[f] # NoFile, NEW imp \in g[f].imports
  PROVE  /\ KeyOf(g, f, imp) = KeyOf(h, f, imp)
         /\ InRepo(g, f, imp) <=> InRepo(h, f, imp)
         /\ \A n : Provided(g, KeyOf(g, f, imp), n) = Provided(h, KeyOf(h, f, imp), n)
         /\ ImportTargets(g, f, imp) = ImportTargets(h, f, imp)
<1> DEFINE K == WrittenKey(f, imp)
           near == ResolveScope(g, changed, Hops - 1)
<1>1. Hops - 1 \in Nat /\ (Hops - 1) + 1 = Hops
  <2>1. ModulePath(f) \in ModuleKeys
    BY DEF ModuleKeys
  <2>2. level[ModulePath(f)] \in 0..(Hops - 1)
    BY <2>1 DEF Nested
  <2> QED BY <2>2, BoundsAssumption
<1>2. f \notin changed
  BY ScopeHas, BoundsAssumption
<1>3. g[f] = h[f] /\ f \in FilesIn(g) /\ f \in FilesIn(h) /\ g[f] \in Versions[f]
  BY <1>2 DEF FilesIn, Trees
<1>4. KeyOf(g, f, imp) = K /\ KeyOf(h, f, imp) = K
  BY <1>3 DEF KeysAgree
<1>5. ImportKeys(g, f) \intersect KeysOf(near) = {}
  <2>0. \A k \in Nat : ResolveScope(g, changed, k + 1)
          = ResolveScope(g, changed, k) \union ImportersOf(g, ResolveScope(g, changed, k))
    BY ScopeIs
  <2>1. ResolveScope(g, changed, (Hops - 1) + 1) = near \union ImportersOf(g, near)
    BY <1>1, <2>0
  <2>2. ResolveScope(g, changed, (Hops - 1) + 1) = ResolveScope(g, changed, Hops)
    BY <1>1
  <2> QED BY <1>3, <2>1, <2>2 DEF ImportersOf
<1>6. \A i \in g[f].imports : WrittenKey(f, i) \notin KeysOf(near)
  BY <1>5 DEF ImportKeys, WrittenKey
<1>7. changed \subseteq near
  BY <1>1, ScopeHas
<1>8. \A i \in g[f].imports : WrittenKey(f, i) \notin KeysOf(changed)
  BY <1>6, <1>7 DEF KeysOf
<1>9. FilesOf(g, K) = FilesOf(h, K)
  BY <1>8, FilesOfLocal
<1>10. ASSUME NEW n PROVE Provided(g, K, n) = Provided(h, K, n)
  <2>1. K \in ModuleKeys => level[K] <= Hops - 1
    BY BoundsAssumption DEF Nested
  <2> QED BY <1>1, <1>6, <2>1, ProvidedLocal
<1>11. ASSUME NEW n \in imp.names PROVE FilesOf(g, Append(K, n)) = FilesOf(h, Append(K, n))
  <2>1. CASE Append(K, n) \in ModuleKeys
    <3>1. PICK i \in g[f].imports : WrittenKey(f, i) = Append(K, n)
      BY <1>3, <2>1 DEF SubmodulesNamed
    <3>2. Append(K, n) \notin KeysOf(changed)
      BY <1>8, <3>1
    <3> QED BY <3>2, FilesOfLocal
  <2>2. CASE Append(K, n) \notin ModuleKeys
    BY <2>2, NoKeyProvides
  <2> QED BY <2>1, <2>2
<1>12. InRepo(g, f, imp) <=> InRepo(h, f, imp)
  BY <1>4, <1>9 DEF InRepo
<1> DEFINE Subs(t) == {n \in imp.names : Provided(t, K, n) = {}}
<1>13. Subs(g) = Subs(h)
  BY <1>10
<1>14. {FilesOf(g, Append(K, n)) : n \in Subs(g)} = {FilesOf(h, Append(K, n)) : n \in Subs(h)}
  BY <1>11, <1>13
<1>15. ImportTargets(g, f, imp) = ImportTargets(h, f, imp)
  <2> DEFINE T(t) == {FileNode(x) : x \in FilesOf(t, K) \union UNION {FilesOf(t, Append(K, n)) : n \in Subs(t)}}
  <2>1. /\ ImportTargets(g, f, imp) = IF ~InRepo(g, f, imp) THEN {Package(imp)} ELSE T(g)
        /\ ImportTargets(h, f, imp) = IF ~InRepo(h, f, imp) THEN {Package(imp)} ELSE T(h)
    BY <1>4 DEF ImportTargets
  <2>2. T(g) = T(h)
    <3> HIDE DEF Subs
    <3> QED BY <1>9, <1>14
  <2> HIDE DEF T
  <2> QED BY <1>12, <2>1, <2>2
<1> QED BY <1>4, <1>10, <1>12, <1>15

\* A file outside the scope of what has changed has the edges it had.
LEMMA FreshLocal ==
  ASSUME ScopeSuffices, NEW g \in Trees, NEW h \in Trees,
         NEW changed \in SUBSET Files, \A f \in Files \ changed : g[f] = h[f],
         NEW f \in Files \ ResolveScope(g, changed, Hops)
  PROVE  Fresh(g, f) = Fresh(h, f)
<1>1. g[f] = h[f]
  BY ScopeHas, BoundsAssumption
<1>2. CASE g[f] = NoFile
  BY <1>1, <1>2, FreshIs
<1>3. CASE g[f] # NoFile
  <2>1. PICK level : Nested(level)
    BY DEF ScopeSuffices, ReexportsWithinHops, Nested
  <2> USE DEF ScopeSuffices
  <2>2. \A imp \in g[f].imports : ImportTargets(g, f, imp) = ImportTargets(h, f, imp)
    BY <1>3, <2>1, ImportsLocal
  <2>3. \A imp \in g[f].imports : InRepo(g, f, imp) <=> InRepo(h, f, imp)
    BY <1>3, <2>1, ImportsLocal
  <2>4. \A imp \in g[f].imports : \A n : Provided(g, KeyOf(g, f, imp), n) = Provided(h, KeyOf(h, f, imp), n)
    BY <1>3, <2>1, ImportsLocal
  <2>5. ImportEdges(g, f) = ImportEdges(h, f)
    BY <1>1, <2>2 DEF ImportEdges
  <2>6. ASSUME NEW n PROVE CallTargets(g, f, n) = CallTargets(h, f, n)
    <3> DEFINE I(t) == {i \in t[f].imports : n \in i.names /\ InRepo(t, f, i)}
    <3>1. I(g) = I(h)
      BY <1>1, <2>3
    <3>2. {Provided(g, KeyOf(g, f, imp), n) : imp \in I(g)} = {Provided(h, KeyOf(h, f, imp), n) : imp \in I(h)}
      BY <2>4, <3>1
    <3>3. UNION {Provided(g, KeyOf(g, f, imp), n) : imp \in I(g)}
            = UNION {Provided(h, KeyOf(h, f, imp), n) : imp \in I(h)}
      BY <3>2
    <3> QED BY <1>1, <3>3 DEF CallTargets
  <2>7. CallEdges(g, f) = CallEdges(h, f)
    <3> DEFINE Of(t, call) == {Edge(f, Symbol(f, call[1]), "CALLS", d) : d \in CallTargets(t, f, call[2])}
    <3>1. \A call : Of(g, call) = Of(h, call)
      BY <2>6
    <3>2. /\ CallEdges(g, f) = UNION {Of(g, call) : call \in g[f].calls}
          /\ CallEdges(h, f) = UNION {Of(h, call) : call \in h[f].calls}
      BY Zenon DEF CallEdges
    <3> HIDE DEF Of
    <3> QED BY <1>1, <3>1, <3>2
  <2> QED BY <1>1, <1>3, <2>5, <2>7, FreshIs
<1> QED BY <1>2, <1>3

\* Where resolved edges lead.
Ends(g) == {FileNode(f) : f \in FilesIn(g)} \union SymbolsIn(g, Files) \union Externals(g)

\* A resolved edge is its file's and leads to a file, a symbol or a stub that is there.
LEMMA EdgeEnds ==
  ASSUME NEW g \in Trees, NEW f \in Files, NEW e \in Fresh(g, f)
  PROVE  e.origin = f /\ g[f] # NoFile /\ {e.src, e.dst} \subseteq Ends(g)
<1>0. g \in Snapshot
  BY DEF Trees
<1>1. g[f] # NoFile /\ f \in FilesIn(g) /\ e \in ImportEdges(g, f) \union CallEdges(g, f)
  BY FreshIs DEF FilesIn
<1>2. CASE e \in ImportEdges(g, f)
  <2>1. PICK imp \in g[f].imports : e \in {Edge(f, FileNode(f), "IMPORTS", t) : t \in ImportTargets(g, f, imp)}
    BY <1>2 DEF ImportEdges
  <2>2. PICK t \in ImportTargets(g, f, imp) : e = Edge(f, FileNode(f), "IMPORTS", t)
    BY <2>1
  <2>3. t \in Ends(g)
    <3>1. CASE ~InRepo(g, f, imp)
      <4>1. t = Package(imp)
        BY <2>2, <3>1 DEF ImportTargets
      <4>2. t \in {Package(i) : i \in {j \in g[f].imports : ~InRepo(g, f, j)}}
        BY <3>1, <4>1
      <4>3. t \in Externals(g)
        BY <1>1, <4>2 DEF Externals
      <4> QED BY <4>3 DEF Ends
    <3>2. CASE InRepo(g, f, imp)
      <4>1. \E x : t = FileNode(x) /\ x \in FilesIn(g)
        BY <2>2, <3>2 DEF ImportTargets, FilesOf
      <4> QED BY <4>1 DEF Ends
    <3> QED BY <3>1, <3>2
  <2> QED BY <1>1, <2>2, <2>3 DEF Edge, Ends
<1>3. CASE e \in CallEdges(g, f)
  <2>1. PICK call \in g[f].calls : e \in {Edge(f, Symbol(f, call[1]), "CALLS", t) : t \in CallTargets(g, f, call[2])}
    BY <1>3 DEF CallEdges
  <2>2. PICK t \in CallTargets(g, f, call[2]) : e = Edge(f, Symbol(f, call[1]), "CALLS", t)
    BY <2>1
  <2>3. \A n \in g[f].defs : Symbol(f, n) \in SymbolsIn(g, Files)
    BY <1>1 DEF SymbolsIn, SymbolsOf
  <2>4. call[1] \in g[f].defs
    BY <1>0, <1>1, ContentsAssumption DEF Snapshot
  <2>5. t \in SymbolsIn(g, Files)
    <3>1. CASE call[2] \in g[f].defs
      BY <2>2, <2>3, <3>1 DEF CallTargets
    <3>2. CASE call[2] \notin g[f].defs
      <4>1. \E imp : t \in Provided(g, KeyOf(g, f, imp), call[2])
        BY <2>2, <3>2 DEF CallTargets
      <4> QED BY <1>0, <4>1, ProvidedType
    <3> QED BY <3>1, <3>2
  <2> QED BY <1>1, <2>2, <2>3, <2>4, <2>5 DEF Edge, Ends
<1> QED BY <1>1, <1>2, <1>3

\* No edge of a file outside the scope of what changes leads to what changes.
LEMMA EdgesAvoidChanges ==
  ASSUME ScopeSuffices, NEW g \in Trees, NEW changed \in SUBSET Files,
         NEW f \in Files \ ResolveScope(g, changed, Hops), NEW e \in Fresh(g, f),
         NEW x \in changed
  PROVE  /\ FileNode(x) \notin {e.src, e.dst}
         /\ \A n : Symbol(x, n) \notin {e.src, e.dst}
<1> DEFINE h == [y \in Files |-> IF y \in changed THEN NoFile ELSE g[y]]
<1>1. h \in Trees
  <2>1. \A y \in Files : g[y] \in Contents \union {NoFile} /\ g[y] \in Versions[y] \union {NoFile}
    BY DEF Trees, Snapshot
  <2> QED BY <2>1 DEF Trees, Snapshot
<1>2. \A y \in Files \ changed : g[y] = h[y]
  OBVIOUS
<1>3. h[x] = NoFile
  OBVIOUS
<1> HIDE DEF h
<1>4. e \in Fresh(h, f)
  BY <1>1, <1>2, FreshLocal
<1>5. {e.src, e.dst} \subseteq Ends(h)
  BY <1>1, <1>4, EdgeEnds
<1>6. ASSUME NEW z \in Ends(h)
      PROVE  (z[1] = "file" /\ z[2] \in FilesIn(h)) \/ (z[1] = "symbol" /\ z[2] \in FilesIn(h)) \/ z[1] = "package"
  <2>1. CASE z \in {FileNode(y) : y \in FilesIn(h)}
    BY <2>1 DEF FileNode
  <2>2. CASE z \in SymbolsIn(h, Files)
    <3>1. PICK y \in Files : z \in SymbolsOf(y, h[y])
      BY <2>2 DEF SymbolsIn
    <3> QED BY <3>1 DEF SymbolsOf, Symbol, FilesIn
  <2>3. CASE z \in Externals(h)
    BY <2>3 DEF Externals, Package
  <2> QED BY <2>1, <2>2, <2>3 DEF Ends
<1>7. x \notin FilesIn(h)
  BY <1>3 DEF FilesIn
<1>8. /\ FileNode(x)[1] = "file" /\ FileNode(x)[2] = x
      /\ \A n : Symbol(x, n)[1] = "symbol" /\ Symbol(x, n)[2] = x
  BY DEF FileNode, Symbol
<1>9. FileNode(x) \notin Ends(h) /\ \A n : Symbol(x, n) \notin Ends(h)
  BY <1>6, <1>7, <1>8
<1> QED BY <1>5, <1>9

(***************************************************************************)
(* The edges of the graph are those of a full index, or their file is yet  *)
(* to be re-resolved.                                                      *)
(***************************************************************************)
Owned(f) == {e \in edges : e.origin = f}

\* What a refresh that starts now would find changed.
Outdated == {f \in Files : tree[f] # manifest[f]}

\* The steps of a run that change the graph.
Mutating == pc \in {"delete", "read", "upsert", "clear", "resolve"}

InTrees == {tree, manifest, content, hashes, got} \subseteq Trees

\* A refresh leaves what it takes for unchanged as it is recorded.
ChangesOnly ==
  /\ Running /\ mode = "incremental" => \A f \in Files : content[f] # manifest[f] => f \in Changed
  /\ pc = "upsert" /\ mode = "incremental" => todo \subseteq Touched
  /\ pc \in {"delete", "clear", "dirty"} => mode = "incremental"

\* Between two runs, and in a refresh until it has resolved.
FreshBetween ==
  ~Running => \A f \in Files \ ResolveScope(manifest, Outdated, Hops) : Owned(f) = Fresh(manifest, f)
FreshMeanwhile ==
  Mutating /\ mode = "incremental" =>
    \A f \in Files \ ResolveScope(manifest, Changed, Hops) : Owned(f) = Fresh(manifest, f)

\* What is to be resolved has no edges when it is.
Cleared ==
  /\ pc = "resolve" /\ mode = "incremental" => \A f \in ResolveScope(manifest, Changed, Hops) : Owned(f) = {}
  /\ pc = "upsert" /\ mode = "full" => \A e \in edges : e.origin \in todo
  /\ pc = "resolve" /\ mode = "full" => edges = {}

FreshAfter == pc \in {"dirty", "record", "save"} => \A f \in Files : Owned(f) = Fresh(content, f)

FreshInv == InTrees /\ ChangesOnly /\ FreshBetween /\ FreshMeanwhile /\ Cleared /\ FreshAfter

\* The resolved edges of a scope are those of its files.
LEMMA ResolvedIs ==
  ASSUME NEW g \in Trees, NEW scope \in SUBSET Files, NEW e
  PROVE  e \in ResolvedEdges(g, scope) <=> e.origin \in scope /\ e \in Fresh(g, e.origin)
<1>1. e \in ResolvedEdges(g, scope) <=> \E f \in scope : e \in Fresh(g, f)
  BY DEF ResolvedEdges, Fresh
<1> QED BY <1>1, EdgeEnds

\* Removed or touched is hashed otherwise than recorded.
LEMMA ChangedIs ==
  /\ Changed = {f \in Files : hashes[f] # manifest[f]}
  /\ Changed' = {f \in Files : hashes'[f] # manifest'[f]}
BY DEF Changed, Removed, Touched

\* Edges start in files that are there.
LEMMA OwnersAreThere ==
  ASSUME TypeOK, NoDangling, NEW e \in edges
  PROVE  e.origin \in Files /\ content[e.origin] # NoFile
<1>1. /\ e.origin \in Files /\ e.src \in NodesNow
      /\ e.src \in {FileNode(e.origin)} \union SymbolsOf(e.origin, content[e.origin])
  BY DEF NoDangling, TypeOK
<1>2. CASE e.src = FileNode(e.origin)
  <2>1. e.src[1] = "file" /\ e.src[2] = e.origin
    BY <1>2 DEF FileNode
  <2>2. e.src \notin packages
    BY <2>1 DEF TypeOK
  <2>3. e.src \notin SymbolsIn(content, Files)
    BY <2>1 DEF SymbolsIn, SymbolsOf, Symbol
  <2>4. PICK f \in FilesIn(content) : e.src = FileNode(f)
    BY <1>1, <2>2, <2>3 DEF NodesNow, ExtractedNodes
  <2> QED BY <1>1, <2>1, <2>4 DEF FileNode, FilesIn
<1>3. CASE e.src \in SymbolsOf(e.origin, content[e.origin])
  BY <1>1, <1>3 DEF SymbolsOf
<1> QED BY <1>1, <1>2, <1>3

\* An empty index has no edges to be wrong.
LEMMA FreshInit == Init => FreshInv
<1> SUFFICES ASSUME Init PROVE FreshInv
  OBVIOUS
<1>1. tree \in Trees /\ Nothing \in Trees /\ manifest = Nothing /\ edges = {} /\ pc = "idle" /\ mode = "incremental"
  BY DEF Init, Trees, Snapshot, Nothing
<1>2. InTrees
  BY <1>1 DEF Init, InTrees
<1>3. \A f \in Files : Fresh(manifest, f) = {}
  BY <1>1, FreshIs DEF Nothing
<1> QED BY <1>1, <1>2, <1>3 DEF FreshInv, ChangesOnly, FreshBetween, FreshMeanwhile, Cleared, FreshAfter, Owned,
          Running, Mutating

\* The graph, the manifest and the run only ever hold what a file may contain.
LEMMA TreesStep ==
  ASSUME TypeOK, TypeOK', InTrees, DetectorInv, [Next]_vars
  PROVE  InTrees'
<1>0. /\ \A f \in Files : {tree[f], manifest[f], content[f], hashes[f], got[f]} \subseteq Versions[f] \union {NoFile}
      /\ {tree, manifest, content, hashes, got} \subseteq Snapshot
      /\ {tree', manifest', content', hashes', got'} \subseteq Snapshot
  BY DEF InTrees, Trees, TypeOK
<1> SUFFICES ASSUME NEW f \in Files
             PROVE  {tree'[f], manifest'[f], content'[f], hashes'[f], got'[f]} \subseteq Versions[f] \union {NoFile}
  BY <1>0 DEF InTrees, Trees
<1>1. ASSUME NEW g \in Files, Edit(g)
      PROVE  tree'[f] \in Versions[f] \union {NoFile} /\ UNCHANGED <<manifest, content, hashes, got>>
  BY <1>0, <1>1 DEF Edit, Snapshot
<1>2. CASE BeginRefresh \/ BeginFull
  BY <1>0, <1>2 DEF BeginRefresh, BeginFull, Detect
<1>3. ASSUME NEW g \in Files, DeleteFile(g)
      PROVE  content'[f] \in Versions[f] \union {NoFile} /\ UNCHANGED <<tree, manifest, hashes, got>>
  BY <1>0, <1>3 DEF DeleteFile, Snapshot
<1>4. ASSUME NEW g \in Files, Upsert(g)
      PROVE  content'[f] \in Versions[f] \union {NoFile} /\ UNCHANGED <<tree, manifest, hashes, got>>
  BY <1>0, <1>4 DEF Upsert, Snapshot
<1>5. CASE ReadTouched
  <2>1. got'[f] \in {tree[f], NoFile} /\ UNCHANGED <<tree, manifest, content, hashes>>
    BY <1>5 DEF ReadTouched
  <2> QED BY <1>0, <2>1
<1>6. CASE SaveMeta \/ Crash
  BY <1>0, <1>6 DEF SaveMeta, Crash, Rest, Nothing
<1>7. CASE UNCHANGED <<tree, manifest, content, hashes, got>>
  BY <1>0, <1>7
<1>8. CASE ClearResolved \/ Resolve \/ MarkDirty \/ FlushRecorder \/ PruneLog \/ Commit \/ Drain \/ UNCHANGED vars
  BY <1>7, <1>8 DEF ClearResolved, Resolve, MarkDirty, FlushRecorder, PruneLog, Commit, Drain
<1> QED BY <1>0, <1>1, <1>2, <1>3, <1>4, <1>5, <1>6, <1>8 DEF Next, Step

\* The scope of a refresh is the same in two graphs that differ in what has changed.
LEMMA ScopeSame ==
  ASSUME NEW g, NEW h, NEW changed \in SUBSET Files, \A f \in Files \ changed : g[f] = h[f], NEW k \in Nat
  PROVE  ResolveScope(g, changed, k) = ResolveScope(h, changed, k)
<1>1. ResolveScope(g, changed, k) \subseteq ResolveScope(h, changed, k)
  BY ScopeGrows
<1>2. \A f \in Files \ changed : h[f] = g[f]
  OBVIOUS
<1>3. ResolveScope(h, changed, k) \subseteq ResolveScope(g, changed, k)
  BY <1>2, ScopeGrows
<1> QED BY <1>1, <1>3

\* What re-extracting or deleting a changed file takes with it is none of what is to stay.
LEMMA OwnedStays ==
  ASSUME ScopeSuffices, InTrees, TypeOK, NEW x \in Changed, NEW gone,
         gone \subseteq {FileNode(x)} \union {Symbol(x, n) : n \in Names},
         edges' = {e \in edges : e.origin # x /\ ~Touches(e, gone)},
         NEW f \in Files \ ResolveScope(manifest, Changed, Hops), Owned(f) = Fresh(manifest, f)
  PROVE  Owned(f)' = Fresh(manifest, f)
<1>1. Changed \subseteq Files /\ f # x
  BY ScopeHas, BoundsAssumption, ChangedIs
<1>2. manifest \in Trees
  BY DEF InTrees
<1>3. ASSUME NEW e \in Owned(f) PROVE e \in edges'
  <2>1. FileNode(x) \notin {e.src, e.dst} /\ \A n : Symbol(x, n) \notin {e.src, e.dst}
    BY <1>1, <1>2, EdgesAvoidChanges
  <2>2. ~Touches(e, gone)
    BY <2>1 DEF Touches
  <2> QED BY <1>1, <2>2 DEF Owned
<1>4. Owned(f)' = Owned(f)
  BY <1>3 DEF Owned
<1> QED BY <1>4

\* Steps that leave the graph and what is recorded alone, and the run where it is.
LEMMA FreshKept ==
  ASSUME FreshInv, InTrees', UNCHANGED <<tree, manifest, content, edges, hashes, mode>>,
         Mutating' => Mutating /\ pc' = pc /\ todo' = todo,
         Running <=> Running', pc' \in {"dirty", "record", "save"} => pc \in {"dirty", "record", "save"},
         ~ (pc' = "dirty" /\ pc # "dirty")
  PROVE  FreshInv'
<1>1. Changed' = Changed /\ Touched' = Touched /\ Outdated' = Outdated /\ \A f : Owned(f)' = Owned(f)
  BY DEF Changed, Removed, Touched, Outdated, Owned
<1>2. ChangesOnly'
  BY <1>1 DEF FreshInv, ChangesOnly, Mutating
<1>3. FreshBetween'
  BY <1>1 DEF FreshInv, FreshBetween
<1>4. FreshMeanwhile'
  BY <1>1 DEF FreshInv, FreshMeanwhile
<1>5. Cleared'
  BY <1>1 DEF FreshInv, Cleared, Mutating
<1>6. FreshAfter'
  BY <1>1 DEF FreshInv, FreshAfter
<1> QED BY <1>2, <1>3, <1>4, <1>5, <1>6 DEF FreshInv

\* An edit only adds to what is to be re-resolved.
LEMMA FreshEdit ==
  ASSUME ~Reverts, TypeOK, FreshInv, InTrees', NEW x \in Files, Edit(x)
  PROVE  FreshInv'
<1>1. PICK c : tree' = [tree EXCEPT ![x] = c] /\ c # manifest[x]
  BY DEF Edit
<1>2. UNCHANGED <<manifest, content, edges, hashes, got, mode, pc, todo>>
  BY DEF Edit
<1>3. Changed' = Changed /\ Touched' = Touched /\ \A f : Owned(f)' = Owned(f)
  BY <1>2 DEF Changed, Removed, Touched, Owned
<1>4. Outdated \subseteq Outdated' /\ Outdated' \subseteq Files
  BY <1>1, <1>2 DEF Outdated, TypeOK, Snapshot
<1>5. ResolveScope(manifest, Outdated, Hops) \subseteq ResolveScope(manifest, Outdated', Hops)
  BY <1>4, ScopeGrows, BoundsAssumption
<1>6. FreshBetween'
  BY <1>2, <1>3, <1>5 DEF FreshInv, FreshBetween, Running
<1>7. ChangesOnly' /\ FreshMeanwhile' /\ Cleared' /\ FreshAfter'
  BY <1>2, <1>3 DEF FreshInv, ChangesOnly, FreshMeanwhile, Cleared, FreshAfter, Running, Mutating
<1> QED BY <1>6, <1>7 DEF FreshInv

\* What a run finds changed is all that has changed since the last one.
LEMMA FreshBegin ==
  ASSUME TypeOK, TypeOK', DetectorInv, FreshInv, InTrees', BeginRefresh \/ BeginFull
  PROVE  FreshInv'
<1>1. /\ Idle /\ ~Running /\ Running' /\ hashes' = tree
      /\ UNCHANGED <<tree, manifest, content, edges, got>>
      /\ pc' \in {"save", "read", "delete"}
  BY DEF BeginRefresh, BeginFull, Detect, Idle, Running
<1>2. Changed' = Outdated /\ \A f : Owned(f)' = Owned(f)
  BY <1>1, ChangedIs DEF Outdated, Owned
<1>3. ~FreshBetween' => FALSE
  BY <1>1 DEF FreshBetween
<1>4. CASE BeginFull
  <2>1. mode' = "full" /\ pc' = "read"
    BY <1>4 DEF BeginFull, Detect
  <2> QED BY <1>3, <2>1 DEF FreshInv, ChangesOnly, FreshMeanwhile, Cleared, FreshAfter
<1>5. CASE BeginRefresh
  <2>1. mode' = "incremental" /\ (pc' = "save" <=> Changed' = {})
    BY <1>5 DEF BeginRefresh, Detect
  <2>2. \A f \in Files : content[f] # manifest[f] => f \in Changed'
    BY <1>2 DEF DetectorInv, SkippedIsStored, Outdated
  <2>3. ChangesOnly'
    BY <1>1, <2>1, <2>2 DEF ChangesOnly
  <2>4. FreshMeanwhile'
    BY <1>1, <1>2 DEF FreshInv, FreshBetween, FreshMeanwhile
  <2>5. FreshAfter'
    <3> SUFFICES ASSUME pc' = "save", NEW f \in Files PROVE Owned(f)' = Fresh(content, f)'
      BY <1>1 DEF FreshAfter
    <3>1. Outdated = {}
      BY <1>2, <2>1
    <3>2. ResolveScope(manifest, Outdated, Hops) = {}
      BY <3>1, ScopeOfNothing, BoundsAssumption
    <3>3. Owned(f) = Fresh(manifest, f)
      BY <1>1, <3>2 DEF FreshInv, FreshBetween
    <3>4. content = manifest
      BY <1>2, <2>2, <3>1 DEF TypeOK, Snapshot
    <3> QED BY <1>1, <1>2, <3>3, <3>4
  <2>6. Cleared'
    BY <1>1 DEF Cleared
  <2> QED BY <1>3, <2>3, <2>4, <2>5, <2>6 DEF FreshInv
<1> QED BY <1>4, <1>5

\* Deleting a removed file.
LEMMA FreshDelete ==
  ASSUME ScopeSuffices, TypeOK, TypeOK', DetectorInv, FreshInv, InTrees', NEW x \in Files, DeleteFile(x)
  PROVE  FreshInv'
<1> DEFINE gone == {FileNode(x)} \union SymbolsOf(x, content[x])
<1>1. /\ pc = "delete" /\ x \in todo /\ content' = [content EXCEPT ![x] = NoFile]
      /\ edges' = {e \in edges : e.origin # x /\ ~Touches(e, gone)}
      /\ UNCHANGED <<tree, manifest, hashes, got, mode>> /\ pc' \in {"read", "delete"}
  BY DEF DeleteFile
<1>2. mode = "incremental" /\ Running /\ Running' /\ Mutating
  BY <1>1 DEF FreshInv, ChangesOnly, Running, Mutating
<1>3. Changed' = Changed /\ x \in Changed
  BY <1>1, ChangedIs DEF DetectorInv, TodoIsChanged, Changed
<1>4. gone \subseteq {FileNode(x)} \union {Symbol(x, n) : n \in Names}
  BY ContentsAssumption DEF SymbolsOf, TypeOK, Snapshot
<1>5. \A f \in Files \ ResolveScope(manifest, Changed, Hops) : Owned(f)' = Fresh(manifest, f)
  <2> SUFFICES ASSUME NEW f \in Files \ ResolveScope(manifest, Changed, Hops)
               PROVE  Owned(f)' = Fresh(manifest, f)
    OBVIOUS
  <2>1. Owned(f) = Fresh(manifest, f)
    BY <1>2 DEF FreshInv, FreshMeanwhile
  <2> HIDE DEF gone
  <2> QED BY <1>1, <1>3, <1>4, <2>1, OwnedStays DEF FreshInv
<1>6. FreshMeanwhile'
  BY <1>1, <1>3, <1>5 DEF FreshMeanwhile
<1>7. ChangesOnly'
  <2>1. \A f \in Files : content'[f] # manifest[f] => f \in Changed
    BY <1>1, <1>2, <1>3 DEF FreshInv, ChangesOnly, TypeOK, Snapshot
  <2> QED BY <1>1, <1>2, <1>3, <2>1 DEF ChangesOnly
<1> QED BY <1>1, <1>2, <1>6, <1>7 DEF FreshInv, FreshBetween, Cleared, FreshAfter

\* Upserting a file that was read.
LEMMA FreshUpsert ==
  ASSUME ScopeSuffices, TypeOK, TypeOK', DetectorInv, FreshInv, InTrees', NEW x \in Files, Upsert(x)
  PROVE  FreshInv'
<1> DEFINE gone == SymbolsOf(x, content[x]) \ SymbolsOf(x, got[x])
<1>1. /\ pc = "upsert" /\ x \in todo /\ content' = [content EXCEPT ![x] = got[x]]
      /\ edges' = {e \in edges : e.origin # x /\ ~Touches(e, gone)}
      /\ todo' = todo \ {x} /\ pc' = (IF todo = {x} THEN AfterUpserts ELSE "upsert")
      /\ UNCHANGED <<tree, manifest, hashes, got, mode>>
  BY DEF Upsert
<1>2. /\ \/ pc' = "upsert"
         \/ todo' = {} /\ (mode = "incremental" => pc' = "clear") /\ (mode = "full" => pc' = "resolve")
      /\ pc' \in {"upsert", "clear", "resolve"} /\ (pc' = "clear" => mode = "incremental")
  BY <1>1 DEF AfterUpserts, TypeOK
<1>3. Running /\ Running' /\ Mutating
  BY <1>1, <1>2 DEF Running, Mutating
<1>4. Changed' = Changed /\ Touched' = Touched
  BY <1>1, ChangedIs DEF Touched
<1>5. CASE mode = "full"
  <2>1. \A e \in edges' : e.origin \in todo'
    BY <1>1, <1>5 DEF FreshInv, Cleared
  <2>2. Cleared'
    BY <1>1, <1>2, <1>5, <2>1 DEF Cleared
  <2> QED BY <1>1, <1>2, <1>3, <1>5, <2>2 DEF FreshInv, FreshBetween, FreshMeanwhile, FreshAfter, ChangesOnly
<1>6. CASE mode = "incremental"
  <2>1. x \in Changed
    BY <1>1, <1>6 DEF FreshInv, ChangesOnly, Changed
  <2>2. gone \subseteq {FileNode(x)} \union {Symbol(x, n) : n \in Names}
    BY ContentsAssumption DEF SymbolsOf, TypeOK, Snapshot
  <2>3. \A f \in Files \ ResolveScope(manifest, Changed, Hops) : Owned(f)' = Fresh(manifest, f)
    <3> SUFFICES ASSUME NEW f \in Files \ ResolveScope(manifest, Changed, Hops)
                 PROVE  Owned(f)' = Fresh(manifest, f)
      OBVIOUS
    <3>1. Owned(f) = Fresh(manifest, f)
      BY <1>3, <1>6 DEF FreshInv, FreshMeanwhile
    <3> HIDE DEF gone
    <3> QED BY <1>1, <2>1, <2>2, <3>1, OwnedStays DEF FreshInv
  <2>4. FreshMeanwhile'
    BY <1>1, <1>4, <2>3 DEF FreshMeanwhile
  <2>5. ChangesOnly'
    <3>1. \A f \in Files : content'[f] # manifest[f] => f \in Changed
      BY <1>1, <1>3, <1>6, <2>1 DEF FreshInv, ChangesOnly, TypeOK, Snapshot
    <3>2. todo' \subseteq Touched
      BY <1>1, <1>6 DEF FreshInv, ChangesOnly
    <3> QED BY <1>1, <1>2, <1>4, <1>6, <3>1, <3>2 DEF ChangesOnly
  <2> QED BY <1>1, <1>2, <1>3, <1>6, <2>4, <2>5 DEF FreshInv, FreshBetween, Cleared, FreshAfter
<1> QED BY <1>5, <1>6 DEF TypeOK

\* A full run reads every file that owns an edge.
LEMMA FreshRead ==
  ASSUME TypeOK, TypeOK', NoDangling, DetectorInv, FreshInv, InTrees', ReadTouched
  PROVE  FreshInv'
<1>1. /\ pc = "read" /\ todo' = FilesIn(got') /\ pc' = (IF todo' = {} THEN AfterUpserts ELSE "upsert")
      /\ UNCHANGED <<tree, manifest, content, edges, hashes, mode>>
      /\ got' = [f \in Files |-> IF f \in (IF mode = "full" THEN Files ELSE Touched) THEN tree[f] ELSE NoFile]
  BY DEF ReadTouched
<1>2. /\ \/ pc' = "upsert"
         \/ todo' = {} /\ (mode = "incremental" => pc' = "clear") /\ (mode = "full" => pc' = "resolve")
      /\ pc' \in {"upsert", "clear", "resolve"} /\ (pc' = "clear" => mode = "incremental")
  BY <1>1 DEF AfterUpserts, TypeOK
<1>3. Running /\ Running' /\ Mutating
  BY <1>1, <1>2 DEF Running, Mutating
<1>4. Changed' = Changed /\ Touched' = Touched /\ \A f : Owned(f)' = Owned(f)
  BY <1>1, ChangedIs DEF Touched, Owned
<1>5. CASE mode = "full"
  <2>1. ASSUME NEW e \in edges PROVE e.origin \in todo'
    <3>1. e.origin \in Files /\ content[e.origin] # NoFile
      BY OwnersAreThere
    <3>2. manifest[e.origin] = NoFile
      BY <1>3, <1>5, <3>1 DEF DetectorInv, FullIsFirst, Nothing
    <3>3. tree[e.origin] # NoFile
      BY <3>1, <3>2 DEF DetectorInv, SkippedIsStored
    <3> QED BY <1>1, <1>5, <3>1, <3>3 DEF FilesIn
  <2>2. Cleared'
    BY <1>1, <1>2, <1>5, <2>1 DEF Cleared
  <2> QED BY <1>1, <1>2, <1>3, <1>5, <2>2 DEF FreshInv, FreshBetween, FreshMeanwhile, FreshAfter, ChangesOnly
<1>6. CASE mode = "incremental"
  <2>1. todo' \subseteq Touched
    BY <1>1, <1>6 DEF FilesIn
  <2>2. ChangesOnly'
    BY <1>1, <1>2, <1>3, <1>4, <1>6, <2>1 DEF FreshInv, ChangesOnly
  <2>3. FreshMeanwhile'
    BY <1>1, <1>3, <1>4, <1>6 DEF FreshInv, FreshMeanwhile
  <2> QED BY <1>1, <1>2, <1>3, <1>6, <2>2, <2>3 DEF FreshInv, FreshBetween, Cleared, FreshAfter
<1> QED BY <1>5, <1>6 DEF TypeOK

\* Clearing takes the edges of the scope, no others.
LEMMA FreshClear ==
  ASSUME TypeOK, TypeOK', FreshInv, InTrees', ClearResolved
  PROVE  FreshInv'
<1>1. /\ pc = "clear" /\ pc' = "resolve"
      /\ edges' = {e \in edges : e.origin \notin ResolveScope(content, Changed, Hops)}
      /\ UNCHANGED <<tree, manifest, content, hashes, got, mode, todo>>
  BY DEF ClearResolved
<1>2. mode = "incremental" /\ Running /\ Running' /\ Mutating
  BY <1>1 DEF FreshInv, ChangesOnly, Running, Mutating
<1>3. Changed' = Changed /\ Changed \subseteq Files /\ Touched' = Touched
  BY <1>1, ChangedIs DEF Touched
<1>4. ResolveScope(content, Changed, Hops) = ResolveScope(manifest, Changed, Hops)
  <2>1. \A f \in Files \ Changed : content[f] = manifest[f]
    BY <1>2 DEF FreshInv, ChangesOnly
  <2> QED BY <1>3, <2>1, ScopeSame, BoundsAssumption
<1>5. \A f \in Files \ ResolveScope(manifest, Changed, Hops) : Owned(f)' = Owned(f)
  BY <1>1, <1>4 DEF Owned
<1>6. \A f \in ResolveScope(manifest, Changed, Hops) : Owned(f)' = {}
  BY <1>1, <1>4 DEF Owned
<1>7. FreshMeanwhile'
  BY <1>1, <1>2, <1>3, <1>5 DEF FreshInv, FreshMeanwhile
<1>8. Cleared'
  BY <1>1, <1>2, <1>3, <1>6 DEF Cleared
<1>9. ChangesOnly'
  BY <1>1, <1>2, <1>3 DEF FreshInv, ChangesOnly
<1> QED BY <1>1, <1>2, <1>7, <1>8, <1>9 DEF FreshInv, FreshBetween, FreshAfter

\* Every resolved edge has its ends in the graph once the stubs are.
LEMMA FreshResolve ==
  ASSUME ScopeSuffices, TypeOK, TypeOK', FreshInv, InTrees', Resolve
  PROVE  FreshInv'
<1> DEFINE scope == IF mode = "full" THEN Files ELSE ResolveScope(content, Changed, Hops)
           nodes == ExtractedNodes \union packages'
<1>1. /\ pc = "resolve" /\ pc' = (IF mode = "full" THEN "record" ELSE "dirty")
      /\ packages' = packages \union Externals(content)
      /\ edges' = edges \union {e \in ResolvedEdges(content, scope) : {e.src, e.dst} \subseteq nodes}
      /\ UNCHANGED <<tree, manifest, content, hashes, got, mode, todo>>
  BY DEF Resolve
<1>2. Running /\ Running' /\ Mutating /\ ~Mutating' /\ content \in Trees /\ manifest \in Trees
  BY <1>1 DEF Running, Mutating, FreshInv, InTrees
<1>3. Changed' = Changed /\ Changed \subseteq Files
  BY <1>1, ChangedIs
<1>4. scope \subseteq Files
  BY <1>3, ScopeIs, BoundsAssumption
<1>5. Ends(content) \subseteq nodes
  BY <1>1 DEF Ends, ExtractedNodes
<1>6. ASSUME NEW e PROVE e \in edges' <=> e \in edges \/ (e.origin \in scope /\ e \in Fresh(content, e.origin))
  <2>1. e \in ResolvedEdges(content, scope) <=> e.origin \in scope /\ e \in Fresh(content, e.origin)
    BY <1>2, <1>4, ResolvedIs
  <2>2. e \in ResolvedEdges(content, scope) => {e.src, e.dst} \subseteq nodes
    BY <1>2, <1>4, <1>5, <2>1, EdgeEnds
  <2> HIDE DEF scope, nodes
  <2> QED BY <1>1, <2>1, <2>2
<1>7. ASSUME NEW f \in Files PROVE Owned(f)' = Fresh(content, f)
  <2>1. \A e \in Fresh(content, f) : e.origin = f
    BY <1>2, EdgeEnds
  <2>2. CASE f \in scope
    <3>1. Owned(f) = {}
      <4>1. CASE mode = "full"
        BY <1>1, <4>1 DEF FreshInv, Cleared, Owned
      <4>2. CASE mode = "incremental"
        <5>1. \A y \in Files \ Changed : content[y] = manifest[y]
          BY <1>2, <4>2 DEF FreshInv, ChangesOnly
        <5>2. f \in ResolveScope(manifest, Changed, Hops)
          BY <1>3, <2>2, <4>2, <5>1, ScopeSame, BoundsAssumption
        <5> QED BY <1>1, <4>2, <5>2 DEF FreshInv, Cleared
      <4> QED BY <4>1, <4>2 DEF TypeOK
    <3> HIDE DEF scope
    <3> QED BY <1>6, <2>1, <2>2, <3>1 DEF Owned
  <2>3. CASE f \notin scope
    <3>1. mode = "incremental"
      BY <2>3 DEF TypeOK
    <3>2. \A y \in Files \ Changed : content[y] = manifest[y]
      BY <1>2, <3>1 DEF FreshInv, ChangesOnly
    <3>3. f \in Files \ ResolveScope(manifest, Changed, Hops)
      BY <1>3, <2>3, <3>1, <3>2, ScopeSame, BoundsAssumption
    <3>4. Owned(f) = Fresh(manifest, f)
      BY <1>2, <3>1, <3>3 DEF FreshInv, FreshMeanwhile
    <3>5. \A y \in Files \ Changed : manifest[y] = content[y]
      BY <3>2
    <3>6. Fresh(manifest, f) = Fresh(content, f)
      BY <1>2, <1>3, <3>3, <3>5, FreshLocal
    <3> HIDE DEF scope
    <3> QED BY <1>6, <2>1, <2>3, <3>4, <3>6 DEF Owned
  <2> QED BY <2>2, <2>3
<1>8. FreshAfter'
  BY <1>1, <1>7 DEF FreshAfter
<1>9. ChangesOnly'
  BY <1>1, <1>2, <1>3 DEF FreshInv, ChangesOnly, TypeOK
<1> QED BY <1>1, <1>2, <1>8, <1>9 DEF FreshInv, FreshBetween, FreshMeanwhile, Cleared

\* Saving: what was edited meanwhile is what the next refresh finds changed.
LEMMA FreshSave ==
  ASSUME ScopeSuffices, TypeOK, TypeOK', DetectorInv', FreshInv, InTrees', SaveMeta
  PROVE  FreshInv'
<1>1. /\ pc = "save" /\ pc' = "prune" /\ manifest' = hashes /\ UNCHANGED <<tree, content, edges>>
  BY DEF SaveMeta
<1>2. content \in Trees /\ manifest' \in Trees
  BY DEF FreshInv, InTrees
<1>3. ASSUME NEW f \in Files \ ResolveScope(manifest', Outdated', Hops) PROVE Owned(f)' = Fresh(manifest', f)
  <2>1. Owned(f)' = Fresh(content, f)
    BY <1>1 DEF FreshInv, FreshAfter, Owned
  <2>2. \A y \in Files \ Outdated' : manifest'[y] = content[y]
    BY <1>1 DEF DetectorInv, SkippedIsStored, Outdated
  <2>3. Outdated' \in SUBSET Files
    BY DEF Outdated
  <2>4. Fresh(manifest', f) = Fresh(content, f)
    BY <1>2, <2>2, <2>3, FreshLocal
  <2> QED BY <2>1, <2>4
<1>4. FreshBetween'
  BY <1>3 DEF FreshBetween
<1> QED BY <1>1, <1>4 DEF FreshInv, ChangesOnly, FreshMeanwhile, Cleared, FreshAfter, Running, Mutating

\* A kill: what the run had not come to is still found changed.
LEMMA FreshCrash ==
  ASSUME ScopeSuffices, TypeOK, TypeOK', NoDangling, DetectorInv, FreshInv, InTrees', Crash
  PROVE  FreshInv'
<1>1. pc' = "idle" /\ mode' = "incremental" /\ UNCHANGED <<tree, manifest, content, edges>>
  BY DEF Crash, Rest
<1>2. content \in Trees /\ manifest \in Trees /\ Outdated \in SUBSET Files
  BY DEF FreshInv, InTrees, Outdated
<1>3. \A y \in Files \ Outdated : manifest[y] = content[y]
  BY DEF DetectorInv, SkippedIsStored, Outdated
<1>4. ASSUME NEW f \in Files \ ResolveScope(manifest, Outdated, Hops) PROVE Owned(f) = Fresh(manifest, f)
  <2>1. CASE ~Running
    BY <2>1 DEF FreshInv, FreshBetween
  <2>2. CASE pc \in {"dirty", "record", "save"}
    <3>1. Owned(f) = Fresh(content, f)
      BY <2>2 DEF FreshInv, FreshAfter
    <3>2. Fresh(manifest, f) = Fresh(content, f)
      BY <1>2, <1>3, FreshLocal
    <3> QED BY <3>1, <3>2
  <2>3. CASE Mutating /\ mode = "incremental"
    <3>1. Changed \subseteq Outdated
      BY <2>3, ChangedIs DEF DetectorInv, ChangedStaysChanged, Outdated, Mutating, Running
    <3>2. ResolveScope(manifest, Changed, Hops) \subseteq ResolveScope(manifest, Outdated, Hops)
      BY <1>2, <3>1, ScopeGrows, BoundsAssumption
    <3> QED BY <2>3, <3>2 DEF FreshInv, FreshMeanwhile
  <2>4. CASE Mutating /\ mode = "full"
    <3>1. manifest = Nothing
      BY <2>4 DEF DetectorInv, FullIsFirst, Mutating, Running
    <3>2. f \notin Outdated
      BY <1>2, ScopeHas, BoundsAssumption
    <3>3. content[f] = NoFile /\ manifest[f] = NoFile
      BY <1>3, <3>1, <3>2 DEF Nothing
    <3>4. Owned(f) = {}
      BY <3>3, OwnersAreThere DEF Owned
    <3>5. Fresh(manifest, f) = {}
      BY <3>3, FreshIs
    <3> QED BY <3>4, <3>5
  <2> QED BY <2>1, <2>2, <2>3, <2>4 DEF Running, Mutating, TypeOK
<1>5. FreshBetween'
  <2>1. Outdated' = Outdated /\ \A f : Owned(f)' = Owned(f)
    BY <1>1 DEF Outdated, Owned
  <2> QED BY <1>1, <1>4, <2>1 DEF FreshBetween
<1> QED BY <1>1, <1>5 DEF FreshInv, ChangesOnly, FreshMeanwhile, Cleared, FreshAfter, Running, Mutating

\* Every step keeps the edges fresh, or their files to be re-resolved.
LEMMA FreshStep ==
  ASSUME ~Reverts, ~ForceFull, ScopeSuffices, TypeOK, TypeOK', NoDangling, DetectorInv, DetectorInv', FreshInv,
         [Next]_vars
  PROVE  FreshInv'
<1>1. InTrees'
  BY TreesStep DEF FreshInv
<1>2. CASE Commit \/ Drain \/ UNCHANGED vars
  <2>1. UNCHANGED <<tree, manifest, content, edges, hashes, mode, pc, todo>>
    BY <1>2 DEF Commit, Drain
  <2> QED BY <1>1, <2>1, FreshKept DEF Mutating, Running
<1>3. CASE MarkDirty \/ FlushRecorder \/ PruneLog
  <2>1. /\ UNCHANGED <<tree, manifest, content, edges, hashes, mode>>
        /\ <<pc, pc'>> \in {<<"dirty", "record">>, <<"record", "save">>, <<"prune", "idle">>}
    BY <1>3 DEF MarkDirty, FlushRecorder, PruneLog
  <2> QED BY <1>1, <2>1, FreshKept DEF Mutating, Running
<1> QED BY <1>1, <1>2, <1>3, FreshEdit, FreshBegin, FreshDelete, FreshUpsert, FreshRead, FreshClear, FreshResolve,
        FreshSave, FreshCrash DEF Next, Step

\* refresh(diff) == full_reindex (ingest/incremental/indexer.py, CodeGraph.refresh): once the manifest matches
\* the tree, the graph is the one a full index of the tree builds, whatever crashed before and whatever was
\* edited while a run was in progress; if no file returns to a recorded content, an index is built in full
\* once, and the repository's imports are ones the scope of a refresh follows.
THEOREM IndexIsFresh ==
  ASSUME ~Reverts, ~ForceFull, ScopeSuffices
  PROVE  Spec => []GraphEqualsFull
<1>1. Init => DetectorInv /\ FreshInv
  BY DetectorInit, FreshInit
<1>2. TypeOK /\ TypeOK' /\ NoDangling /\ DetectorInv /\ FreshInv /\ [Next]_vars => DetectorInv' /\ FreshInv'
  BY DetectorStep, FreshStep
<1>3. TypeOK /\ DetectorInv /\ FreshInv => GraphEqualsFull
  <2> SUFFICES ASSUME TypeOK, DetectorInv, FreshInv, Synced
               PROVE  content = tree /\ edges = ResolvedEdges(tree, Files)
    BY DEF GraphEqualsFull
  <2>1. ~Running /\ tree = manifest /\ tree \in Trees
    BY DEF Synced, Idle, Running, FreshInv, InTrees
  <2>2. content = tree
    BY <2>1 DEF DetectorInv, SkippedIsStored, TypeOK, Snapshot
  <2>3. Outdated = {}
    BY <2>1 DEF Outdated
  <2>4. ResolveScope(manifest, Outdated, Hops) = {}
    BY <2>3, ScopeOfNothing, BoundsAssumption
  <2>5. \A f \in Files : Owned(f) = Fresh(tree, f)
    BY <2>1, <2>4 DEF FreshInv, FreshBetween
  <2>6. \A e \in edges : e.origin \in Files
    BY DEF TypeOK
  <2>7. ASSUME NEW e PROVE e \in edges <=> e \in ResolvedEdges(tree, Files)
    <3>1. e \in ResolvedEdges(tree, Files) <=> e.origin \in Files /\ e \in Fresh(tree, e.origin)
      BY <2>1, ResolvedIs
    <3> QED BY <2>5, <2>6, <3>1 DEF Owned
  <2> QED BY <2>2, <2>7
<1> QED BY <1>1, <1>2, <1>3, Typing, EdgesAnchored, PTL DEF Spec

(***************************************************************************)
(* The external packages.                                                  *)
(***************************************************************************)
\* Between two runs, and from resolving on, the packages are those the graph's files import; before,
\* no other is left when those that have lost their importers are collected.
PackagesAre ==
  /\ pc \in {"idle", "prune", "dirty", "record", "save"} => packages = Externals(content)
  /\ pc = "resolve" => packages \subseteq Externals(content)

\* A full index finds none, and every index records its commit.
FirstIndex ==
  /\ Idle /\ indexedAt = 0 => packages = {}
  /\ pc \in {"read", "upsert"} /\ mode = "full" => packages = {}
  /\ head # 0 /\ (Running => at # 0) /\ (pc = "prune" => indexedAt # 0)

PackagesInv == PackagesAre /\ FirstIndex

\* An empty index has no packages.
LEMMA PackagesInit == Init => PackagesInv
<1> SUFFICES ASSUME Init PROVE PackagesInv
  OBVIOUS
<1>1. Externals(content) = {}
  BY DEF Init, Nothing, Externals, FilesIn
<1> QED BY <1>1 DEF Init, PackagesInv, PackagesAre, FirstIndex, Idle, Running

\* Clearing collects the packages only files of the scope imported.
LEMMA ClearCollects ==
  ASSUME ScopeSuffices, TypeOK, FreshInv, FreshInv', ClearResolved
  PROVE  packages' \subseteq Externals(content)
<1>1. /\ pc = "clear" /\ pc' = "resolve" /\ UNCHANGED <<manifest, content, hashes, mode>>
      /\ edges' \subseteq edges /\ packages' = Reached(edges')
  BY DEF ClearResolved
<1>2. mode = "incremental" /\ content \in Trees /\ manifest \in Trees /\ Changed' = Changed /\ Changed \subseteq Files
  BY <1>1, ChangedIs DEF FreshInv, ChangesOnly, InTrees
<1> SUFFICES ASSUME NEW e \in edges', e.dst \in packages PROVE e.dst \in Externals(content)
  BY <1>1 DEF Reached
<1> DEFINE f == e.origin
<1>3. f \in Files /\ e \in Owned(f)'
  BY <1>1 DEF TypeOK, Owned
<1>4. f \notin ResolveScope(manifest, Changed, Hops)
  BY <1>1, <1>2, <1>3 DEF FreshInv, Cleared
<1>5. e \in Fresh(manifest, f)
  BY <1>1, <1>2, <1>3, <1>4 DEF FreshInv, FreshMeanwhile, Mutating
<1>6. \A y \in Files \ Changed : manifest[y] = content[y]
  BY <1>1, <1>2 DEF FreshInv, ChangesOnly, Running
<1>7. Fresh(manifest, f) = Fresh(content, f)
  BY <1>2, <1>3, <1>4, <1>6, FreshLocal
<1>8. e.dst \in Ends(content)
  BY <1>2, <1>3, <1>5, <1>7, EdgeEnds
<1>9. e.dst[1] = "package"
  BY DEF TypeOK
<1> QED BY <1>8, <1>9 DEF Ends, FileNode, SymbolsIn, SymbolsOf, Symbol

\* Every step keeps the packages those that are imported.
LEMMA PackagesStep ==
  ASSUME ~ForceFull, ScopeSuffices, MaxCrashes = 0, TypeOK, FreshInv, FreshInv', PackagesInv, [Next]_vars
  PROVE  PackagesInv'
<1> USE DEF PackagesInv
<1>1. ASSUME NEW f \in Files, Edit(f) PROVE PackagesInv'
  BY <1>1 DEF Edit, PackagesAre, FirstIndex, Idle, Running
<1>2. CASE Commit
  BY <1>2 DEF Commit, PackagesAre, FirstIndex, Idle, Running, TypeOK
<1>3. CASE Drain \/ MarkDirty \/ FlushRecorder \/ PruneLog \/ UNCHANGED vars
  BY <1>3 DEF Drain, MarkDirty, FlushRecorder, PruneLog, PackagesAre, FirstIndex, Idle, Running
<1>4. CASE BeginRefresh
  BY <1>4 DEF BeginRefresh, Detect, PackagesAre, FirstIndex, Idle, Running
<1>5. CASE BeginFull
  <2>1. indexedAt = 0
    BY <1>5 DEF BeginFull, Indexed
  <2> QED BY <1>5, <2>1 DEF BeginFull, Detect, PackagesAre, FirstIndex, Idle, Running
<1>6. ASSUME NEW f \in Files, DeleteFile(f) PROVE PackagesInv'
  <2>1. mode = "incremental"
    BY <1>6 DEF DeleteFile, FreshInv, ChangesOnly
  <2> QED BY <1>6, <2>1 DEF DeleteFile, PackagesAre, FirstIndex, Idle, Running
<1>7. CASE ReadTouched \/ \E f \in Files : Upsert(f)
  <2>1. /\ pc \in {"read", "upsert"} /\ pc' \in {AfterUpserts, "upsert"} /\ UNCHANGED <<packages, mode, head, at>>
    BY <1>7 DEF ReadTouched, Upsert
  <2>2. CASE mode = "full"
    <3>1. packages = {} /\ pc' \in {"resolve", "upsert"}
      BY <2>1, <2>2 DEF FirstIndex, AfterUpserts
    <3> QED BY <2>1, <3>1 DEF PackagesAre, FirstIndex, Idle, Running
  <2>3. CASE mode = "incremental"
    <3>1. pc' \in {"clear", "upsert"}
      BY <2>1, <2>3 DEF AfterUpserts
    <3> QED BY <2>1, <2>3, <3>1 DEF PackagesAre, FirstIndex, Idle, Running
  <2> QED BY <2>2, <2>3 DEF TypeOK
<1>8. CASE ClearResolved
  <2>1. packages' \subseteq Externals(content)
    BY <1>8, ClearCollects
  <2> QED BY <1>8, <2>1 DEF ClearResolved, PackagesAre, FirstIndex, Idle, Running
<1>9. CASE Resolve
  <2>1. packages' = Externals(content) /\ content' = content /\ pc' \in {"record", "dirty"} /\ pc = "resolve"
        /\ UNCHANGED <<head, at>>
    BY <1>9 DEF Resolve, PackagesAre
  <2> QED BY <2>1 DEF PackagesAre, FirstIndex, Idle, Running
<1>10. CASE SaveMeta
  <2>1. pc = "save" /\ pc' = "prune" /\ indexedAt' = at /\ UNCHANGED <<packages, content, head>>
    BY <1>10 DEF SaveMeta
  <2> QED BY <2>1 DEF PackagesAre, FirstIndex, Idle, Running
<1>11. CASE Crash
  BY <1>11 DEF Crash, TypeOK
<1> QED BY <1>1, <1>2, <1>3, <1>4, <1>5, <1>6, <1>7, <1>8, <1>9, <1>10, <1>11 DEF Next, Step

\* ... and its external Package nodes are the ones a full index mints: no stub is left without an importer
\* (store/kuzu_store.py clear_resolved), none is missing; under the same conditions, and if no run is killed:
\* a killed first index leaves stubs nothing collects.
THEOREM PackagesAreFresh ==
  ASSUME ~Reverts, ~ForceFull, ScopeSuffices, MaxCrashes = 0
  PROVE  Spec => []PackagesEqualFull
<1>1. Init => DetectorInv /\ FreshInv /\ PackagesInv
  BY DetectorInit, FreshInit, PackagesInit
<1>2. TypeOK /\ TypeOK' /\ NoDangling /\ DetectorInv /\ FreshInv /\ PackagesInv /\ [Next]_vars
        => DetectorInv' /\ FreshInv' /\ PackagesInv'
  BY DetectorStep, FreshStep, PackagesStep
<1>3. TypeOK /\ DetectorInv /\ PackagesInv => PackagesEqualFull
  <2> SUFFICES ASSUME TypeOK, DetectorInv, PackagesInv, Synced PROVE packages = Externals(tree)
    BY DEF PackagesEqualFull
  <2>1. content = tree
    BY DEF Synced, DetectorInv, SkippedIsStored, TypeOK, Snapshot
  <2> QED BY <2>1 DEF Synced, Idle, PackagesInv, PackagesAre
<1> QED BY <1>1, <1>2, <1>3, Typing, EdgesAnchored, PTL DEF Spec
=============================================================================
