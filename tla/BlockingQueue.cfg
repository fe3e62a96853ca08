\* Both condition variables in use; the queue may be closed at any point.
\* A queue nobody closes may come to rest.
CONSTANTS
  Producer = {p1, p2, p3}
  Consumer = {t1, t2}
  Capacity = 2
  MaxPush = 2
SPECIFICATION FairSpec
INVARIANTS
  WorkConserving
PROPERTIES
  ImplementsFifo
  Delivered
  StopReturns
CHECK_DEADLOCK FALSE
