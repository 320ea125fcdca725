--------------------------- MODULE MCDerivedPasses ---------------------------
(***************************************************************************)
(* A repository of two files for TLC: f, with a class the heuristics       *)
(* nominate and a helper they do not, and g, with one nominated function.  *)
(***************************************************************************)
EXTENDS DerivedPasses

TwoFiles == <<"f", "g">>
ThreeSymbols == <<"f.C", "f.h", "g.make">>
Homes == [s \in {"f.C", "f.h", "g.make"} |-> IF s = "g.make" THEN "g" ELSE "f"]
Nominated == {"f.C", "g.make"}

\* f is rewritten from one chunk to two; g has one version, and may be deleted and restored.
Rewrites == [f \in {"f", "g"} |-> IF f = "f" THEN {<<"a">>, <<"b", "c">>} ELSE {<<"d">>}]
AtFirst == {[f \in {"f", "g"} |-> IF f = "f" THEN <<"b", "c">> ELSE <<"d">>]}
Allowances == [c \in {"enrich", "summarize"} |-> IF c = "enrich" THEN {1} ELSE {1, 2}]
\* f loses its second chunk and may get it back.
Regrows == [f \in {"f", "g"} |-> IF f = "f" THEN {<<"a">>, <<"a", "b">>} ELSE {<<"d">>}]
Fixed == [f \in {"f", "g"} |-> IF f = "f" THEN {<<"a">>} ELSE {<<"d">>}]
=============================================================================
