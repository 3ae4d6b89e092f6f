SPECIFICATION FairSpec
CONSTANTS
  fx = fx
  opus = opus
  sonnet = sonnet
  later = later
  other = other
  NoPrice = NoPrice
  Edited = Edited
  NoApp = NoApp
  Settings = {fx}
  Models = {opus, sonnet, later, other}
  Seeded = {opus, sonnet}
  Kin <- MCKin
  Fallback = Fallback
  FirstFiles <- MCFirstFiles
  Uploads <- MCUploads
  HasPortal = TRUE
  MaxEdits = 5
  MaxTroubles = 4
INVARIANTS
  MigrationWhole
  OneDatabase
  EditsSurvive
PROPERTIES
  BootCompletes
CHECK_DEADLOCK FALSE
