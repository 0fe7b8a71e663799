SPECIFICATION FairSpec
CONSTANTS
  CwndInitial = 8
  SlowStartMin = 8
  MaxSendListSize = 100
  MaxFlightSize = 10000
  SendPool = 4
  MaxRecvSegments = 3
  RecvPool = 10
  StartSeq <- AllZero
  SegmentSizes = {1}
  ReplayChoices = {{"initiator", "responder"}}
  Deferred = {}
  Closers = {"initiator", "responder"}
  MaxWrites <- WriteOne
  MaxSegsPerWrite = 1
  MaxSegsPerPacket = 1
  MaxClock = 40
  MaxLoss = 2
  MaxDup = 0
  MaxReorder = 0
  MaxSpurious = 0
  MaxAvailable = 0
  MaxAborts = 0
  MaxDeaths = 0
INVARIANT NoFalseAbort
PROPERTY Delivered
PROPERTY Terminates
CHECK_DEADLOCK FALSE
