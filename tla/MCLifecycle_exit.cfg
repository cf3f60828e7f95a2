SPECIFICATION ProcessSpec
CONSTANTS
  Callers = {r1, r2}
  BufferSize = 2
  BatchSize = 2
  MaxRecords = 2
  MaxFailures = 1
INVARIANT
  ExitLeavesNothing
CHECK_DEADLOCK FALSE
