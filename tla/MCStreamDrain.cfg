SPECIFICATION Spec
CONSTANTS
  Events = 3
  MaxRead = 2
  CacheEnabled = TRUE
  KeepAlive = TRUE
  MaxBeats = 2
  KeepAliveFrame = KeepAliveFrame
  EndFrame = EndFrame
INVARIANTS ClientGetsTheAnswer ReaderGoneAtReturn OneTerminator CacheOnlyComplete
PROPERTIES DrainReturns
