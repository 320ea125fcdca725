SPECIFICATION Spec
CONSTANTS
  Symbols <- TwoSymbols
  FileOf <- OneFile
  Trees <- ShiftingTrees
  Full = Full
  Aligned = TRUE
  Depths = {1, 2, Full}
  Window = 9
  MaxCommits = 4
  MaxBackfills = 2
  MaxFailures = 1
INVARIANTS AliveExact IntroducedExact ChangedSinceComplete
CHECK_DEADLOCK FALSE
