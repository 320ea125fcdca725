SPECIFICATION Spec
CONSTANTS
  NoFile = NoFile
  Files <- F4
  Versions <- Contents
  Segments <- Names
  MaxEdits = 4
  MaxCrashes = 1
INVARIANTS LinksEqualFresh NeverGuessed
CHECK_DEADLOCK FALSE
