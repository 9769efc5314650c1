SPECIFICATION StreamSpec
CONSTANTS
  MaxLines = 2
  PipeSize = 2
INVARIANT DeltasAreUsed
CHECK_DEADLOCK FALSE
