--------------------------- MODULE MCSymbolHistory ---------------------------
(***************************************************************************)
(* Two symbols of one file for TLC.                                        *)
(***************************************************************************)
EXTENDS SymbolHistory, TLC

TwoSymbols == {"area", "square"}
OneFile == [s \in TwoSymbols |-> "m.py"]
\* square comes, goes, is changed and grows after an area of one line or two, or the file is
\* gone.
ShiftingTrees ==
  [area : {{1}}, square : {{}, {3}, {4}, {3, 5}}] \union [area : {{1, 2}}, square : {{4}}]
    \union {[s \in TwoSymbols |-> {}]}
=============================================================================
