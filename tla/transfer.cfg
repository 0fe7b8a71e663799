SPECIFICATION Spec
CONSTANTS
  CwndInitial = 2
  SlowStartMin = 8
  MaxSendListSize = 100
  MaxFlightSize = 10000
  SendPool = 2
  MaxRecvSegments = 2
  RecvPool = 2
  StartSeq <- AllTwo
  SegmentSizes = {1}
  ReplayChoices = {{"initiator", "responder"}}
  Deferred = {}
  Closers = {}
  MaxWrites <- WriteThree
  MaxSegsPerWrite = 2
  MaxSegsPerPacket = 2
  MaxClock = 40
  MaxLoss = 0
  MaxDup = 0
  MaxReorder = 1
  MaxSpurious = 1
  MaxAvailable = 0
  MaxAborts = 0
  MaxDeaths = 0
INVARIANT TypeOK
INVARIANT RecvWindowOK
INVARIANT NoDataLoss
INVARIANT WindowHonest
INVARIANT InOrderDelivery
INVARIANT SendListsOK
INVARIANT RetransmissionArmed
CHECK_DEADLOCK FALSE
