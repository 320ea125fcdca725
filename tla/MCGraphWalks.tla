---------------------------- MODULE MCGraphWalks -----------------------------
(***************************************************************************)
(* Five nodes for TLC: a chunk of code and a section of prose that the     *)
(* search hits, two functions that call each other, and a decision; and    *)
(* four services that call each other in a ring, with routes declared      *)
(* twice, in two dialects, and ambiguous ones.                             *)
(***************************************************************************)
EXTENDS GraphWalks, TLC

CONSTANT NoUrl

Five == {"chunk", "prose", "f", "g", "adr"}
Provenance == [n \in Five |-> IF n = "prose" THEN "llm" ELSE IF n = "adr" THEN "manual" ELSE "parsed"]
Weights == [resolved |-> 10, manual |-> 8, parsed |-> 5, llm |-> 3]

E(s, d, k, b) == [src |-> s, dst |-> d, kind |-> k, by |-> b]
Links == {E("chunk", "f", "CHUNK_OF", "parsed"), E("adr", "prose", "CONTAINS", "parsed"),
          E("f", "g", "CALLS", "resolved"), E("g", "f", "CALLS", "parsed"),
          E("adr", "g", "GOVERNS", "llm"), E("f", "adr", "REFERENCES", "parsed")}
Subgraphs == {g \in SUBSET Links : Cardinality(g) >= 5}

Walked == {"CALLS", "GOVERNS", "CONTAINS", "REFERENCES"}
Search(h) == [tool |-> "retrieve", hits |-> h, symbol |-> {}, similar |-> FALSE, kinds |-> Walked,
              direction |-> "both", depth |-> 2, llm |-> TRUE, floor |-> 0, alive |-> {"f", "g"}]
Of(tool, s, dir, d) == [Search(<<>>) EXCEPT !.tool = tool, !.symbol = {s}, !.direction = dir, !.depth = d]
TwoHits == ("chunk" :> Unit) @@ ("prose" :> 700000)

Four == {"shop", "users", "mail", "audit"}
Get(path, handler) == [method |-> "GET", path |-> path, handler |-> handler]
Mount(prefix, r) == r @@ ("pattern" :> <<prefix>>)
\* users and mail are called by a client with a base URL and without, by an f-string, by a
\* URL that is computed, by a session that is no client, and by a client of another file.
Url(host, path) == [host |-> host, path |-> path, formatted |-> FALSE]
Send(object, url) == [file |-> "main", object |-> object, method |-> "GET", url |-> url]
Request(host, path) == Send("requests", Url(host, path))
Outbound ==
  [s \in Four |-> CASE s = "shop" -> {Send("api", [Url("", <<"{uid}'">>) EXCEPT !.formatted = TRUE]),
                                       Send("api", Url("http://mail", <<"mail">>)), Request("http://mail", <<"mail">>),
                                       Request("http://users", <<"users", "1">>), Send("local", Url("", <<"health">>)),
                                       [Send("api", Url("", <<"me">>)) EXCEPT !.file = "jobs"]}
                    [] s = "users" -> {Request("http://mail", <<"mail">>), Request("http://shop", <<"health">>)}
                    [] s = "mail" -> {Request("http://audit", <<"log", "1">>), Send("api", Url("", <<"me">>)),
                                      Send("requests", NoUrl)}
                    [] OTHER -> {Request("http://shop", <<"shop">>),
                                 Send("requests", [Url("http://audit", <<"log", "{id}'">>) EXCEPT !.formatted = TRUE])}]
Bound == [s \in Four |-> [f \in {"main", "jobs"} |->
            IF s \in {"shop", "mail"} /\ f = "main" THEN "api" :> Url("http://users", <<"users">>) ELSE <<>>]]
FrameworkRoutes ==
  [s \in Four |-> CASE s = "shop" -> {Get(<<"shop">>, "shop"), Get(<<"health">>, "up")}
                    [] s = "users" -> {Get(<<"users", "{id}">>, "user"), Get(<<"users", ":uid">>, "user2"),
                                       Get(<<"users", "me">>, "self")}
                    [] s = "mail" -> {Mount("mail", Get(<<"">>, "send"))}
                    [] OTHER -> {Get(<<"health">>, "up")}]
OpenApi ==
  [s \in Four |-> CASE s = "users" -> {Get(<<"users", ":uid">>, "getUser")}
                    [] s = "audit" -> {Get(<<"log", "{id}">>, "write"),
                                        [Get(<<"log", "{id}">>, "") EXCEPT !.method = "SUMMARY"]}
                    [] OTHER -> {}]
CallKinds == {e.kind : e \in ServiceEdges}
Trace(s, dir, d) == [Of("trace", s, dir, d) EXCEPT !.kinds = CallKinds]

Asked ==
  {Search(TwoHits), [Search(TwoHits) EXCEPT !.similar = TRUE], [Search(TwoHits) EXCEPT !.llm = FALSE],
   [Search("chunk" :> Unit) EXCEPT !.alive = {"f"}, !.symbol = {"adr"}],
   [Of("retrieve", "g", "in", 3) EXCEPT !.kinds = {"CALLS"}], [Of("retrieve", "f", "both", 1) EXCEPT !.floor = 1],
   Of("neighbors", "f", "both", 1), Of("neighbors", "prose", "both", 3),
   Trace("shop", "out", 3), Trace("users", "out", 3), Trace("shop", "in", 2), Trace("audit", "in", 3)}
=============================================================================
