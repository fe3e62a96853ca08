\* Three timers, a clock of two ticks per millisecond.
CONSTANTS
  Fd = {3, 4, 5}
  Timeout = 4
  TicksPerMs = 2
  MaxNow = 8
  MaxBatch = 2
  MaxSetBack = 1
SPECIFICATION FairSpec
INVARIANTS
  NeverOversleeps
PROPERTIES
  DueIsClosed
