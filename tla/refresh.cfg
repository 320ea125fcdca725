SPECIFICATION FairSpec
CONSTANTS
  NoFile = NoFile
  Files <- Reexporting
  Versions <- ReexportingVersions
  Contents <- AllContents
  Names <- FlatNames
  Hops = 2
  Temporal = FALSE
  Retention = 9
  ForceFull = FALSE
  Reverts = FALSE
  Concurrent = TRUE
  OnCommit = FALSE
  MaxEdits = 3
  MaxCommits = 1
  MaxCrashes = 1
INVARIANTS TypeOK NoDangling DetectorSound GraphEqualsFull
PROPERTIES ImplementsManifestProtocol Converges
