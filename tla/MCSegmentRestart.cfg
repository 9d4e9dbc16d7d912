SPECIFICATION SegSpec
CONSTANTS
  MaxIndex = 3
  MaxTerm = 1
  MaxBatch = 1
  MaxSegment = 1
  MaxBytes = 0
  OO = FALSE
  Truncates = FALSE
  MaxRestart = 2
  MaxRecords = 2
CONSTRAINT RecordBound
CHECK_DEADLOCK FALSE
INVARIANT InitSucceeds
