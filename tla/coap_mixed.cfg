SPECIFICATION Spec
CONSTANTS
  Request = {1}
  Conn = {"c"}
  ConnOf <- OnConnection
  FaultKinds = {"copy"}
  Breaks = {}
  TypeOf <- Types
  Observing = {}
  BodyLen <- Bodies
  ClientSzx = 1
  MaxBlockNum = 5
  MaxResponse = 5
  MaxRetransmits = 0
  TooBig = {}
  Canceled = {}
  Leaving = {}
  OtherLen = 2
  Unrouted = {}
  Critical = {}
  RespLen <- Responses
  ServerSzx = 0
  MaxRequests = 1
  MaxRequestPayload = 5
  MaxObservers = 1
  ServerRetransmits = 1
  Removable = {}
  Scenarios <- Changes
INVARIANT OneRepresentation
CHECK_DEADLOCK FALSE
