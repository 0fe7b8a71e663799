SPECIFICATION Spec
CONSTANTS
  Half = 8
  MaxHigh = 50
INVARIANT WrapOrder
CHECK_DEADLOCK FALSE
