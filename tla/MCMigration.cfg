CONSTANTS
  NumValidators = 4
  NumProxies = 1
  NumShards = 1
  Directories = {old, new}
  OldDirectory = old
  NewDirectory = new
  Processes = {p1, p2, p3, p4, p5, p6, p7, p8, p9}
  MaxFaults = 2
SPECIFICATION FairMigration
INVARIANTS NoPortConflict CommitteeServes StorageHandedOver
PROPERTIES PanicMeansUnseen NothingLeftBehind
CHECK_DEADLOCK FALSE
