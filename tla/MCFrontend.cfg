SPECIFICATION FairFrontendSpec
CONSTANTS
  Calls = {c1, c2, c3}
  WorkerThreads = 2
  MaxQueuePerWorker = 1
  IoThreads = 2
  Nobody = nobody
  Targets <- MCTargets
  DirOf <- MCDirOf
  OldFiles = {"a"}
  Requests <- MCRequests
  MaxFiles = 3
  MaxFileBytes = 2
  MaxTotalBytes = 3
  Uploaders = {u1, u2}
  Workloads <- MCWorkloads
INVARIANTS
  FrontendTypeOK
  AnswersAreKept
  UploadsAreAccounted
PROPERTY EveryRequestEnds
CHECK_DEADLOCK FALSE
