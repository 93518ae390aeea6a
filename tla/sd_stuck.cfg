SPECIFICATION Spec
CONSTANTS
  ClusterCount = 3
  BlocksPerCluster = 1
  FatCount = 2
  Slots = 2
  Names = {A, B}
  Modes <- MCModes
  MaxSize = 4
  Lengths = {1, 3}
  Positions = {0, 2}
  MaxCalls = 5
  MaxFaults = 0
  MaxAccess = 9
SYMMETRY Symmetry
INVARIANT SyncFailsOnlyOnError
CHECK_DEADLOCK FALSE
