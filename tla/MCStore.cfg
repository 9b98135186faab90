CONSTANTS
  Consumers = {c1, c2}
  Records <- MCRecords
  MaxBatch = 2
  MaxSequence = 3
  SnapshotIds <- MCSnapshotIds
  CreatedAt <- MCCreatedAt
  DeltaPairs <- MCDeltaPairs
  MaxKeep = 2
SYMMETRY MCConsumerSymmetry
SPECIFICATION StoreSpec
INVARIANTS
  RetentionKeepsNewest
  OutboxIsWindow
  BatchesAreConsecutive
PROPERTIES
  RemovalTakesItsDeltas
  OutboxImplemented
  UnreadRecordsAreKept
  SequencesAreNotReused
