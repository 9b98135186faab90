CONSTANTS
  Consumers = {c1, c2}
  Records = {r}
  MaxBatch = 2
  MaxSequence = 3
  PullBatch = 2
  CommandBatches = {1}
  MaxConnections = 2
  MaxRestarts = 1
  MaxCommands = 1
  MaxFailures = 1
SPECIFICATION FairBridgeSpec
INVARIANTS
  BridgeTypeOK
  AckedWereHanded
  HandedIsPrefix
PROPERTIES
  EverythingIsDelivered
