SPECIFICATION Spec
CONSTANTS
  Capacity = 3
  MaxBytes = 7
  Byte <- MCByte
  MaxMem = 1
  Sizes = {1, 2}
  MaxWrites = 3
CHECK_DEADLOCK FALSE
INVARIANTS PendingCounted ReadInOrder ReadsWhenWanted
PROPERTIES ImplementsQueue ClosedEnds FullIsTemporary
