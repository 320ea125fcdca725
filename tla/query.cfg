SPECIFICATION QuerySpec
CONSTANTS
  None = none
  Null = null
  Unbounded = unbounded
  Labels <- QueryLabels
  LinkKinds <- QueryKinds
  Capabilities <- CoreTier
  Queries <- AllQueries
  Stores <- SmallGraphs
  MaxExpansions = 3
  MaxRows = 2
INVARIANTS NothingLeftOutSilently PartialRowsAreRows WaysAgree
PROPERTIES EveryQueryEnds
CHECK_DEADLOCK FALSE
