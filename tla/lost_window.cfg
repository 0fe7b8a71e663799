SPECIFICATION FairSpec
CONSTANTS
  CwndInitial = 8
  SlowStartMin = 8
  MaxSendListSize = 100
  MaxFlightSize = 10000
  SendPool = 4
  MaxRecvSegments = 3
  RecvPool = 1
  StartSeq <- AllZero
  SegmentSizes = {1}
  ReplayChoices = {{"initiator", "responder"}}
  Deferred = {}
  Closers = {}
  MaxWrites <- WriteTwo
  MaxSegsPerWrite = 1
  MaxSegsPerPacket = 1
  MaxClock = 40
  MaxLoss = 1
  MaxDup = 0
  MaxReorder = 0
  MaxSpurious = 0
  MaxAvailable = 0
  MaxAborts = 0
  MaxDeaths = 0
PROPERTY WindowReopens
CHECK_DEADLOCK FALSE
