SPECIFICATION Spec
CONSTANTS
  TooMany = 1
  InputRoom = 1
  MaxCalls = 1
  MaxSuspends = 1
  MaxKeys = 2
  MaxEnds = 1
  MaxSignals = 1
CHECK_DEADLOCK FALSE
INVARIANTS UsedWhileThere MissedOnlyLate
PROPERTIES SilentWhenStopped StopReturns SuspendEnds
