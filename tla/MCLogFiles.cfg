\* Three files at most, one crash.
CONSTANTS
  Lines = 2
  MaxFiles = 3
  RotateSize = 1
  w1 = w1
  w2 = w2
  Workers <- MCWorkers
  MaxEvents = 2
  MaxCrashes = 1
SPECIFICATION LogFilesFairSpec
INVARIANTS
  OffsetsCoverRows
  OneWorkerOpen
PROPERTIES
  NewFileRead
CHECK_DEADLOCK FALSE
