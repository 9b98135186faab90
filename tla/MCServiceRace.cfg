CONSTANTS
  Watch = watch
  Workers = {w1}
  Consumers = {}
  Records <- MCRecords
  MaxBatch = 2
  MaxSequence = 4
  SnapshotIds <- MCSnapshotIds
  CreatedAt <- MCCreatedAt
  ContentOf <- MCContentOf
  DeltaPairs <- MCDeltaPairs
  Contents <- MCContents
  MaxKeep = 1
  KeepLatest = 1
  MaxTime = 1
  MaxCrashes = 0
  MaxFailures = 0
  MaxEvents = 1
SPECIFICATION ServiceSpec
INVARIANTS
  DeltaEndpointsStored
