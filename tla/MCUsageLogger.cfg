SPECIFICATION FairSpec
CONSTANTS
  Callers = {r1, r2}
  BufferSize = 2
  BatchSize = 2
  MaxRecords = 2
  MaxFailures = 1
INVARIANTS
  TypeOK
  EveryRecordOnce
  CallerOrderKept
  ShutdownDrains
PROPERTIES
  ImplementsUsageLog
  QueuedRecordsSettle
  ShutdownEnds
CHECK_DEADLOCK FALSE
