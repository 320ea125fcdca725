SPECIFICATION StoresSpec
CONSTANTS
  Ids <- AllIds
  Packages <- Externals
  Links <- AllLinks
  Paths <- TwoPaths
  Shared = "shared"
  Versions <- TwoVersions
  Calls <- CallLinks
  Tags <- TagLinks
  ChunkOf <- Chunks
  KindOf <- KindOfChunk
  PathOf <- PathOfChunk
  Queries <- Searches
  OpensEarly = FALSE
  MaxWrites = 7
INVARIANTS NoFactTwice BackendsHoldWhatWasGiven
PROPERTIES FactsOutliveUpserts
CHECK_DEADLOCK FALSE
