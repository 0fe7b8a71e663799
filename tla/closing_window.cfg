SPECIFICATION Spec
CONSTANTS
  CwndInitial = 8
  SlowStartMin = 8
  MaxSendListSize = 100
  MaxFlightSize = 10000
  SendPool = 4
  MaxRecvSegments = 2
  RecvPool = 1
  StartSeq <- AllZero
  SegmentSizes = {1}
  ReplayChoices = {{}}
  Deferred = {}
  Closers = {"initiator", "responder"}
  MaxWrites <- WriteOne
  MaxSegsPerWrite = 1
  MaxSegsPerPacket = 1
  MaxClock = 5
  MaxLoss = 0
  MaxDup = 2
  MaxReorder = 0
  MaxSpurious = 0
  MaxAvailable = 0
  MaxAborts = 0
  MaxDeaths = 0
INVARIANT AbortMeansUnacked
CHECK_DEADLOCK FALSE
