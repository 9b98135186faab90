CONSTANTS
  Watch = watch
  Workers = {w1}
  Consumers = {}
  Records <- MCRecords
  MaxBatch = 2
  MaxSequence = 3
  SnapshotIds <- MCSnapshotIds
  CreatedAt <- MCCreatedAt
  ContentOf <- MCContentOf
  DeltaPairs <- MCDeltaPairs
  Contents <- MCContents
  MaxKeep = 1
  KeepLatest = 1
  MaxTime = 1
  MaxCrashes = 1
  MaxFailures = 1
  MaxEvents = 1
SPECIFICATION FairServiceSpec
INVARIANTS
  ServiceTypeOK
  DeltaRecordsFollowSnapshots
  StoredSnapshotsAreAnnounced
  RetentionBound
PROPERTIES
  WatchRecovers
