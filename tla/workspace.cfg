SPECIFICATION Spec
CONSTANTS
  None = None
  Order <- Three
  Copy <- TheirCopies
  Source <- Sources
  Refs <- Pins
  Key <- Names
  Sibling <- NoLayer
  Defaults <- OrgDefaults
  Inline <- NoInline
  File <- Files
  Discovered <- NoFiles
  Exclusive = TRUE
  Offline = FALSE
  Clients = {one, other}
  Asks <- Survey
  MaxBuilds = 2
  MaxTexts = 2
  MaxFailures = 1
INVARIANTS BuiltStays EnvelopeHonest BuiltIsServed
PROPERTIES AllReported ReadOnlyUntouched
SYMMETRY Alike
