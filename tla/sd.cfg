SPECIFICATION Spec
CONSTANTS
  ClusterCount = 3
  BlocksPerCluster = 2
  FatCount = 2
  Slots = 2
  Names = {A, B}
  Modes <- MoreModes
  MaxSize = 6
  Lengths = {3}
  Positions = {0, 1, 2}
  MaxCalls = 6
  MaxFaults = 1
  MaxAccess = 9
SYMMETRY Symmetry
INVARIANTS TypeOK SyncedOnCard ReadsTrue ClustersOwned MirrorAgrees
CHECK_DEADLOCK FALSE
