SPECIFICATION Spec
CONSTANTS
  t1 = t1
  t2 = t2
  nobody = nobody
  Threads <- TwoThreads
  NoThread <- nobody
  Children <- OneChild
  MaxEvents = 3
  MaxWaits = 2
CHECK_DEADLOCK FALSE
INVARIANTS EventsAccounted WakesUp StartedInOrder
PROPERTIES Delivered
