SPECIFICATION Spec
CONSTANTS
  MaxWindow = 10
  BlockLimits = {2, 3, 4}
INVARIANT AckIsAck
INVARIANT FitsPacket
INVARIANT ReachesTop
INVARIANT ExactWithRoom
INVARIANT NewestAndOldest
CHECK_DEADLOCK FALSE
