SPECIFICATION Spec
CONSTANTS
  q1 = q1
  q2 = q2
  q3 = q3
  none = none
  Queues <- MCQueues
  NoQueue <- none
  MaxAlloc = 5
  SizeMod = 6
SYMMETRY Symmetry
INVARIANTS IInv FlatSizeIsCount
PROPERTIES ImplementsFifo
