CONSTANTS
  NumValidators = 2
  NumProxies = 1
  NumShards = 1
  Directories = {old}
  OldDirectory = old
  Processes = {p1, p2, p3, p4}
  MaxFaults = 1
SPECIFICATION Spec
INVARIANTS TypeOK HandlesTracked
CHECK_DEADLOCK FALSE
SYMMETRY ProcessSymmetry
