----------------------------- MODULE MCWatchLoop -----------------------------
(***************************************************************************)
(* Every branch is included and the protected one excluded; HEAD may be    *)
(* detached.  Sources that are built are neither indexed nor watched, and  *)
(* vendored ones watched in vain.                                          *)
(***************************************************************************)
EXTENDS WatchLoop, TLC

AllTriggers == {"on-commit", "on-idle", "on-save", "interval", "manual"}
ThreeBranches == {"feature", "main", "detached"}
Named == {"feature", "main"}
Protected == {"main"}
AllPaths == {"code", "vendored", "built", "notes", "HEAD", "object"}
Git == {"HEAD", "object"}
Readable == {"code", "vendored", "built"}
NotIndexed == {"vendored", "built"}
NotWatched == {"built"}
Windows == [t \in Triggers |-> IF t \in {"on-idle", "interval"} THEN 2 ELSE 1]
=============================================================================
