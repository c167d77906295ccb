SPECIFICATION Spec
CONSTANTS
  MaxDay = 2
  MaxIterations = 3
  MaxStarts = 1
INVARIANTS TypeOK FilesAreReadable StartDayComplete NewestRowOnDisk  AlertedAtMostOnce
\* The iterations and the restarts of a behaviour are bounded.
CHECK_DEADLOCK FALSE
