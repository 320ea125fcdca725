SPECIFICATION Spec
CONSTANTS
  Ids <- Five
  Made <- Provenance
  Symbols = {"f", "g"}
  Prose = {"prose"}
  Graphs <- Subgraphs
  Requests <- Asked
  Weight <- Weights
  Decay = 6
  Cap = 2
  MaxHops = 3
  MaxRemovals = 1
  Services <- Four
  Sent <- Outbound
  Clients <- Bound
  Libraries = {"requests", "httpx"}
  Computed = NoUrl
  NoUrl = NoUrl
  Routed <- FrameworkRoutes
  Declared <- OpenApi
  Methods = {"GET", "POST"}
  Parameters = {"{}", "{id}", ":uid"}
INVARIANTS WalkIsComplete FoundFromAbove
CHECK_DEADLOCK FALSE
