SPECIFICATION SinkSpec
CONSTANTS
  Paths <- MCPaths
  Root = 1
  ParentPath <- MCParentPath
  NameOf <- MCNameOf
  Inodes <- MCInodes
  Stamps = {1, 2}
  Permissions = {1, 2}
  Trees <- MCTrees
  MaxCaptures = 2
INVARIANT TreeIsNavigable
CHECK_DEADLOCK FALSE
