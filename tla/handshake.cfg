SPECIFICATION Spec
CONSTANTS
  CwndInitial = 8
  SlowStartMin = 8
  MaxSendListSize = 100
  MaxFlightSize = 10000
  SendPool = 1
  MaxRecvSegments = 3
  RecvPool = 10
  StartSeq <- AllTwo
  SegmentSizes = {1, 2}
  ReplayChoices = {{}, {"initiator"}, {"responder"}, {"initiator", "responder"}}
  Deferred = {"opened"}
  Closers = {}
  MaxWrites <- WriteOne
  MaxSegsPerWrite = 1
  MaxSegsPerPacket = 1
  MaxClock = 40
  MaxLoss = 1
  MaxDup = 1
  MaxReorder = 0
  MaxSpurious = 0
  MaxAvailable = 1
  MaxAborts = 0
  MaxDeaths = 1
INVARIANT Agreement
INVARIANT NonceGate
CHECK_DEADLOCK FALSE
