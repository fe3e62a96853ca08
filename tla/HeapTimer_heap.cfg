\* Six timers make the smallest heap in which deleting a node moves one up.
CONSTANTS
  Fd = {3, 4, 5, 6, 7, 8}
  Timeout = 2
  TicksPerMs = 1
  MaxNow = 4
  MaxBatch = 1
  MaxSetBack = 0
SPECIFICATION Spec
INVARIANTS
  TypeOK
  HeapOrdered
PROPERTIES
  ImplementsTimerSet
