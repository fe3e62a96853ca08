\* Two threads log while a third stops the logger.
CONSTANTS
  Thread = {a, b}
  Capacity = 1
  MaxFileSize = 3
  FlushEvery = 2
  MaxLog = 2
  MaxDay = 0
  MaxIndex = 4
  MaxFailures = 0
  MaxKills = 0
SPECIFICATION FairSpec
INVARIANTS
  StopLosesOnlyTheLate
PROPERTIES
  QueuedIsWritten
\* Everything logged and the logger stopped.
CHECK_DEADLOCK FALSE
