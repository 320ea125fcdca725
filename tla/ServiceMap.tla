------------------------------ MODULE ServiceMap -----------------------------
(***************************************************************************)
(* The calls between the services of a workspace, as serve/federation.py   *)
(* finds them: each call of a member, which the HTTP client pack           *)
(* (frameworks/packs/httpclient) found in its sources, is matched with the *)
(* routes of the others, those its frameworks have and those its OpenAPI   *)
(* document declares.  A path is a sequence of segments.                   *)
(***************************************************************************)
EXTENDS Integers, Sequences, FiniteSets, Functions

CONSTANTS
  Services,
  Sent,         \* service -> requests in its sources, [file, object, method, url]
  Clients,      \* service -> file -> variable -> the base URL of the client it is bound to
  Libraries,    \* requests, httpx
  Computed,     \* a URL that is no string
  Routed,       \* service -> routes of its frameworks, [method, path, handler]; composed
                \* ones have a pattern, too
  Declared,     \* service -> entries of its OpenAPI document, [method, path, handler]
  Methods,      \* the entries that are operations: the HTTP methods
  Parameters    \* the segments that are parameters, in any dialect

\* A URL is [host, path, formatted]: a host of "" where it is relative, an f-string or not.
ASSUME SentAssumption ==
  \A s \in Services : \A r \in Sent[s] : r.url # Computed => r.url.formatted \in BOOLEAN
\* Routes are read from files.  A pair of braces is a parameter of no name.
ASSUME RoutesAssumption ==
  /\ "{}" \in Parameters
  /\ IsFiniteSet(Services) /\ \A s \in Services : IsFiniteSet(Routed[s]) /\ IsFiniteSet(Declared[s])

(***************************************************************************)
(* The caller's side.                                                      *)
(***************************************************************************)
\* A client is known in the file that binds it, not where it is imported.
Known(s, file) == Libraries \union DOMAIN Clients[s][file]
Recorded(s) == {r \in Sent[s] : r.object \in Known(s, r.file) /\ r.method \in Methods /\ r.url # Computed}

\* strip_quotes: an f-string keeps its quotes.  Its mark is taken for a segment of it where no
\* host stands before; the quote that closes it is in its last segment.
Written(url) == IF url.formatted /\ url.host = "" THEN [url EXCEPT !.path = <<"f">> \o @] ELSE url

\* A path is put after the base URL of its client; an absolute URL stands alone.
Composed(s, r) ==
  IF r.object \in Libraries \/ r.url.host # "" THEN Written(r.url)
  ELSE [Written(r.url) EXCEPT !.path = Clients[s][r.file][r.object].path \o @]

\* Of a URL the path is kept.
CallOf(s, r) == [method |-> r.method, path |-> Composed(s, r).path]
\* CodeGraph.service_calls: the caller's side of an edge.
Calls(s) == {CallOf(s, r) : r \in Recorded(s)}

(***************************************************************************)
(* The provider's side.                                                    *)
(***************************************************************************)
\* _normalize_template
Template(path) == [i \in DOMAIN path |-> IF path[i] \in Parameters THEN "{}" ELSE path[i]]
Shape(route) == <<route.method, Template(route.path)>>

\* CodeGraph.routes: where it is mounted, or else its own path.
Mounted(r) == IF "pattern" \in DOMAIN r THEN r.pattern ELSE r.path
RoutesOf(s) == {[method |-> r.method, path |-> Mounted(r), handler |-> r.handler] : r \in Routed[s]}
\* _openapi_routes
Operations(s) == {r \in Declared[s] : r.method \in Methods}

\* _member_routes: one route of each shape, a framework's before a declared one.
MemberRoutes(s) ==
  LET known == {Shape(r) : r \in RoutesOf(s)}
      all == RoutesOf(s) \union {r \in Operations(s) : Shape(r) \notin known}
  IN {CHOOSE r \in all : Shape(r) = shape : shape \in {Shape(r) : r \in all}}

\* _compile_route: a parameter stands for one segment.
Answers(route, call) ==
  /\ route.method = call.method
  /\ DOMAIN route.path = DOMAIN call.path
  /\ \A i \in DOMAIN route.path : route.path[i] \in Parameters \union {call.path[i]}

Matches(s, call) == UNION {{<<t, r>> : r \in {x \in MemberRoutes(t) : Answers(x, call)}} : t \in Services \ {s}}

\* service_map: a call that several routes answer is left alone.
CallEdge(s, call, t) == [src |-> s, dst |-> t, kind |-> <<call.method, call.path>>, by |-> "resolved"]
ServiceEdges ==
  UNION {UNION {{CallEdge(s, c, m[1]) : m \in Matches(s, c)}
                : c \in {x \in Calls(s) : Cardinality(Matches(s, x)) = 1}} : s \in Services}

(***************************************************************************)
(* What the map is to be: a call is an edge if one route of another        *)
(* service is meant, in however many places and dialects it is declared.   *)
(***************************************************************************)
Meant(s, call) ==
  UNION {{<<t, Shape(r)>> : r \in {x \in RoutesOf(t) \union Operations(t) : Answers(x, call)}} : t \in Services \ {s}}
CalledOnce ==
  {e \in {CallEdge(s, c, t) : s \in Services, t \in Services, c \in UNION {Calls(x) : x \in Services}} :
     \E c \in Calls(e.src) : \E shape \in {m[2] : m \in Meant(e.src, c)} :
       e = CallEdge(e.src, c, e.dst) /\ Meant(e.src, c) = {<<e.dst, shape>>}}

\* "a dynamic URL ... is counted as unresolved, never guessed": see README.md.
OfStrings == \A s \in Services : \A r \in Recorded(s) : ~r.url.formatted
=============================================================================
