SPECIFICATION Spec
CONSTANTS
  MaxDay = 1
  MaxIterations = 2
  MaxStarts = 0
INVARIANT FlushedRowsStay
CHECK_DEADLOCK FALSE
