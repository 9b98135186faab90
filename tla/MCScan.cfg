SPECIFICATION ScannerSpec
CONSTANTS
  Paths <- MCPaths
  Root = 1
  ParentPath <- MCParentPath
  Inodes <- MCInodes
  Disks <- MCDisks
  ScanOptions <- MCScanOptions
  MaxChanges = 2
INVARIANTS ScanTypeOK CapturedTreesAreValid StableEntriesAreCaptured ExcludedSubtreesArePruned
CHECK_DEADLOCK FALSE
