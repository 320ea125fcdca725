SPECIFICATION Spec
CONSTANTS
  NoFile = NoFile
  Files <- Flat
  Versions <- FlatVersions
  Contents <- AllContents
  Names <- FlatNames
  Hops = 1
  Temporal = TRUE
  Retention = 1
  ForceFull = FALSE
  Reverts = FALSE
  Concurrent = TRUE
  OnCommit = TRUE
  MaxEdits = 3
  MaxCommits = 4
  MaxCrashes = 0
INVARIANTS PackagesEqualFull LogAgrees LivingSurvivePruning
PROPERTIES PastIsStable
CHECK_DEADLOCK FALSE
