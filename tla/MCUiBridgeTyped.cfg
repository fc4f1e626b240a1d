SPECIFICATION Spec
CONSTANTS
  TooMany = 9
  InputRoom = 1
  MaxCalls = 1
  MaxSuspends = 1
  MaxKeys = 1
  MaxEnds = 1
  MaxSignals = 1
PROPERTY SuspendReturns
CHECK_DEADLOCK FALSE
