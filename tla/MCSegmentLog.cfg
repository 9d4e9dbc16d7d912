SPECIFICATION SegSpec
CONSTANTS
  MaxIndex = 4
  MaxTerm = 2
  MaxBatch = 2
  MaxSegment = 1
  MaxBytes = 0
  OO = TRUE
  Truncates = TRUE
  MaxRestart = 1
  MaxRecords = 2
CONSTRAINT RecordBound
CHECK_DEADLOCK FALSE
INVARIANT SegTypeOK
INVARIANT ReadsWhatWasWritten
INVARIANT IndexMatchesFile
 
INVARIANT OrderlyLoads
