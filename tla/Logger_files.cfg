\* Rotation by day and size, flushing, a kill and a restart, one thread.
CONSTANTS
  Thread = {a}
  Capacity = 2
  MaxFileSize = 3
  FlushEvery = 2
  MaxLog = 4
  MaxDay = 1
  MaxIndex = 4
  MaxFailures = 1
  MaxKills = 1
SPECIFICATION Spec
INVARIANTS
  SizeIsTrue
  InOrder
  ErrorsReachDisk
PROPERTIES
  OverLimitOnlyByRotation
\* Everything logged and the logger stopped.
CHECK_DEADLOCK FALSE
