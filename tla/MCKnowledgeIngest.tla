-------------------------- MODULE MCKnowledgeIngest --------------------------
(***************************************************************************)
(* Two decision records, the second replacing the first, and a guide that  *)
(* may become a decision record, over code in which a name is first one    *)
(* symbol's and then two symbols'.                                         *)
(***************************************************************************)
EXTENDS KnowledgeIngest

Files == <<"adr-1", "adr-2", "guide">>
Numbers == [d \in {"adr-1", "adr-2", "guide"} |->
              CASE d = "adr-1" -> 1 [] d = "adr-2" -> 2 [] d = "guide" -> None]
Says == [d \in {"adr-1", "adr-2", "guide"} |->
           CASE d = "adr-1" -> {Text({"nobody"}, None, 2)}
             [] d = "adr-2" -> {Text({"run", "main.py"}, 1, None), Text({"nobody"}, None, None)}
             [] d = "guide" -> {Text({"run"}, None, None)}]
Ids == {"main.py", "util.py", "main.run", "util.run"}
CalledBy == [i \in Ids |-> IF i \in {"main.run", "util.run"} THEN "run" ELSE i]
Codes == {{"main.py", "main.run"}, Ids}
\* The first commit touched a file that is not there at first.
Log == <<[files |-> {"util.py"}, qualifies |-> TRUE], [files |-> {"main.py"}, qualifies |-> TRUE],
         [files |-> {"main.py"}, qualifies |-> FALSE]>>
AtFirst == {[d \in {"adr-1", "adr-2", "guide"} |->
              CASE d = "adr-1" -> Text({"nobody"}, None, 2)
                [] d = "adr-2" -> Text({"run", "main.py"}, 1, None)
                [] d = "guide" -> None]}
Kinds == [d \in {"adr-1", "adr-2", "guide"} |-> IF d = "guide" THEN {"adr", "doc", "none"} ELSE {"adr"}]
=============================================================================
