SPECIFICATION FairStreamSpec
CONSTANTS
  Sizes <- MCSizes
  WsMaxPendingMessages = 1
  WsMaxPendingBytes = 3
  Word = 16
  IoThreads = 2
  Policies <- AllPolicies
  MaxFrames = 3
INVARIANTS
  StreamTypeOK
  PendingBytesMatch
  FramesAreAccounted
PROPERTY StreamDrains
CHECK_DEADLOCK FALSE
