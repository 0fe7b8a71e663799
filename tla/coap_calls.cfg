SPECIFICATION FairSpec
CONSTANTS
  Request = {1, 2, 3, 4, 5, 6, 7, 8, 9, 10, 11, 12, 13}
  Conn = {"c", "d"}
  ConnOf <- OnConnection
  FaultKinds = {"lose", "delay", "copy"}
  Breaks = {"d"}
  TypeOf <- Types
  Observing = {9, 10, 11, 12, 13}
  BodyLen <- Bodies
  ClientSzx = 1
  MaxBlockNum = 5
  MaxResponse = 5
  MaxRetransmits = 1
  TooBig = {8}
  Canceled = {1, 5, 12}
  Leaving = {10, 11}
  OtherLen = 2
  Unrouted = {4}
  Critical = {6, 7}
  RespLen <- Responses
  ServerSzx = 0
  MaxRequests = 1
  MaxRequestPayload = 5
  MaxObservers = 1
  ServerRetransmits = 1
  Removable = {11}
  Scenarios <- Calls
INVARIANT TypeOK
INVARIANT ResponseIntact
INVARIANT OtherIntact
INVARIANT EndsOnce
INVARIANT NoDangling
PROPERTY RequestIntact
PROPERTY LastAckEnds
PROPERTY Ends
PROPERTY Released
PROPERTY PendingIsSent
PROPERTY Forgotten
CHECK_DEADLOCK FALSE
