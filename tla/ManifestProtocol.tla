-------------------------- MODULE ManifestProtocol --------------------------
(***************************************************************************)
(* What skipping unchanged files by content hash rests on, without any of  *)
(* the indexer's steps.  A file is in the tree, in the manifest (`known',  *)
(* what the last finished run recorded) and in the store (`stored', what   *)
(* was extracted from it).  A file whose recorded content is the tree's is *)
(* never worked on; the others may hold anything, until a run publishes a  *)
(* manifest that must be true of every file it lets the next run skip.     *)
(***************************************************************************)
CONSTANTS Files, Contents, NoFile

VARIABLES tree, known, stored

Snapshot == [Files -> Contents \union {NoFile}]
Skipped(f) == tree[f] = known[f]

Init == /\ tree \in Snapshot
        /\ known = [f \in Files |-> NoFile]
        /\ stored = [f \in Files |-> NoFile]

\* A file never comes back to the content that is recorded of it.
Edit(f) == \E c \in Contents \union {NoFile} :
  /\ c # known[f]
  /\ tree' = [tree EXCEPT ![f] = c]
  /\ UNCHANGED <<known, stored>>

Work(f) == \E c \in Contents \union {NoFile} :
  /\ ~Skipped(f)
  /\ stored' = [stored EXCEPT ![f] = c]
  /\ UNCHANGED <<tree, known>>

Publish ==
  /\ known' \in Snapshot
  /\ \A f \in Files : tree[f] = known'[f] => stored[f] = tree[f]
  /\ UNCHANGED <<tree, stored>>

Next == Publish \/ \E f \in Files : Edit(f) \/ Work(f)
Spec == Init /\ [][Next]_<<tree, known, stored>>

\* A skipped file is in the store as it is in the tree.
SkippingIsSound == \A f \in Files : Skipped(f) => stored[f] = tree[f]
=============================================================================
