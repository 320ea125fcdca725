SPECIFICATION Spec
CONSTANTS
  None = None
  DocOrder <- Files
  Number <- Numbers
  Versions <- Says
  Initial <- AtFirst
  Code <- Ids
  NameOf <- CalledBy
  Snapshots <- Codes
  History <- Log
  Limit = 2
  Globs <- Kinds
  HasDocGlobs = TRUE
  Emptied = FALSE
  Overlap = FALSE
  MaxEdits = 2
  MaxRuns = 3
  MaxCrashes = 1
INVARIANTS EqualsFresh CommitsRecorded
PROPERTIES InferredStay
CHECK_DEADLOCK FALSE
