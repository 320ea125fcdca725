--------------------------- MODULE MCStoreBackends ---------------------------
(***************************************************************************)
(* A module, a caller of one of its functions, an external package and a   *)
(* pattern for TLC.                                                        *)
(***************************************************************************)
EXTENDS StoreBackends, TLC

Link(src, dst, kind, origin, resolved) ==
  [src |-> src, dst |-> dst, kind |-> kind, origin |-> origin, resolved |-> resolved]

TwoPaths == {"m", "app"}
AllIds == {"m/", "m/area", "m/square", "app/", "app/main", "react", "Factory", "m/chunk", "app/chunk"}
Externals == {"react"}
Holds(p, i) == Link(p, i, "CONTAINS", IF p = "m/" THEN "m" ELSE "app", FALSE)
CallLinks == {Link("app/main", "m/square", "CALLS", "app", TRUE), Link("app/", "react", "IMPORTS", "app", TRUE)}
TagLinks == {Link("m/square", "Factory", "TAGGED", "shared", FALSE)}
ChunkLinks == {Link("m/chunk", i, "CHUNK_OF", "shared", FALSE) : i \in {"m/area", "m/square"}}
  \union {Link("app/chunk", "app/main", "CHUNK_OF", "shared", FALSE)}
AllLinks == CallLinks \union TagLinks \union ChunkLinks
  \union {Holds("m/", "m/area"), Holds("m/", "m/square"), Holds("app/", "app/main")}

Version(p, syms) == [ids |-> {p} \union syms, links |-> {Holds(p, i) : i \in syms}]
TwoVersions ==
  ("m" :> {Version("m/", {"m/area", "m/square"}), Version("m/", {"m/area"})}) @@
  ("app" :> {Version("app/", {"app/main"})})
PathOfChunk == "m/chunk" :> "m" @@ "app/chunk" :> "app"
KindOfChunk == [c \in {"m/chunk", "app/chunk"} |-> "Chunk"]
\* One search is nearer to the caller, the other to the module while it has an area.
Searches ==
  LET texts == {v.ids : v \in UNION {TwoVersions[p] : p \in TwoPaths}}
  IN {[t \in texts |-> IF "app/" \in t THEN 5 ELSE 1], [t \in texts |-> IF "m/square" \in t THEN 5 ELSE 1]}
Chunks == [p \in TwoPaths |-> IF p = "m" THEN "m/chunk" ELSE "app/chunk"]
=============================================================================
