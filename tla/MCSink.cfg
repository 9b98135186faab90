SPECIFICATION SinkSpec
CONSTANTS
  Paths <- MCPaths
  Root = 1
  ParentPath <- MCParentPath
  NameOf <- MCNameOf
  Inodes <- MCInodes
  Stamps = {1, 2}
  Permissions = {1, 2}
  Trees <- MCTrees
  MaxCaptures = 3
INVARIANTS SinkTypeOK EntriesMatchClaim NoDanglingPaths ComputedDeltasAreSound
PROPERTY NavigationLossIsKnown
CHECK_DEADLOCK FALSE
