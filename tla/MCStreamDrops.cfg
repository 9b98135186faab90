SPECIFICATION StreamSpec
CONSTANTS
  Sizes = {1}
  WsMaxPendingMessages = 2
  WsMaxPendingBytes = 3
  Word = 16
  IoThreads = 1
  Policies <- DefaultPolicy
  MaxFrames = 4
INVARIANT DropsAreCounted
CHECK_DEADLOCK FALSE
