SPECIFICATION FairSpec
CONSTANTS
  Branches <- ThreeBranches
  Detached = "detached"
  Include <- Named
  Exclude <- Protected
  Paths <- AllPaths
  GitDir <- Git
  Refs = {"HEAD"}
  HeadFile = "HEAD"
  Sources <- Readable
  Excluded <- NotIndexed
  Ignored <- NotWatched
  Triggers <- AllTriggers
  Window <- Windows
  Horizon = 2
  MaxQueue = 3
  NoTimer = NoTimer
INVARIANTS NothingOwedWhenQuiet
PROPERTIES RefreshesApart CatchesUp IntervalKeepsUp
