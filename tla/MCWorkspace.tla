---------------------------- MODULE MCWorkspace -----------------------------
(***************************************************************************)
(* Three members for TLC: a clone pinned to a tag, under a central root, a *)
(* local repository with its index inside, and an index of the same        *)
(* repository built elsewhere, that is only consumed; two clients, alike.  *)
(***************************************************************************)
EXTENDS Workspace

M(a, l, s) == ("app" :> a) @@ ("lib" :> l) @@ ("shared" :> s)
Three == <<"lib", "app", "shared">>
Survey == {Three}
TheirCopies == M("app", "lib", "app")
Sources == ("app" :> None) @@ ("lib" :> "git")
Pins == {M(None, "tag", None), M(None, None, None)}
Names == ("app" :> "org-app") @@ ("lib" :> "org-lib")

Store(central, readOnly) == "store" :> [central |-> central, readOnly |-> readOnly]
NoLayer == <<>>
\* Each member has a file with its store block; the organisation's is another one.
OrgDefaults == Store(TRUE, FALSE)
Files == M(Store(FALSE, FALSE), Store(TRUE, FALSE), Store(TRUE, TRUE))
NoInline == M(<<>>, <<>>, <<>>)
NoFiles == M(<<>>, <<>>, <<>>)
Alike == Permutations(Clients)
=============================================================================
