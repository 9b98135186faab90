CONSTANTS
  Hosts = {h1}
  Threads = {t1, t2}
  AckBatchSize = 2
  MaxSequence = 4
  MaxCrashes = 2
SPECIFICATION FairIngestSpec
INVARIANTS
  IngestTypeOK
  LogIsPrefix
  AcksAreDurable
  SinkLossBound
PROPERTIES
  CommitLogImplemented
  FirstDeliveriesInOrder
  EverythingIsAcked
