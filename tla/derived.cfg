SPECIFICATION FairSpec
CONSTANTS
  NoFile = NoFile
  FileOrder <- TwoFiles
  SymbolOrder <- ThreeSymbols
  PathOf <- Homes
  Candidates <- Nominated
  Versions <- Rewrites
  Initial <- AtFirst
  Docs = {0, 1}
  Budgets <- Allowances
  Concurrency = 1
  Overlap = FALSE
  ChunksReturn = FALSE
  DocsReturn = FALSE
  FailsEmbedding = FALSE
  Commands = {"refresh", "embed", "enrich", "summarize"}
  MaxRefreshes = 2
  MaxFailures = 1
INVARIANTS EmbedLeavesCurrent StaleIsDirty
PROPERTIES CleanMeansDone Drains
CHECK_DEADLOCK FALSE
