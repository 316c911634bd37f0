\* Crashes, failing inserts and failing saves.
CONSTANTS
  Path = log
  Lines = 2
  Limit = 1
  QueueCap = 1
  Faults = TRUE
  ShortWrites = FALSE
  Crashes = TRUE
  MaxCursor = 2
SPECIFICATION IngestFairSpec
INVARIANTS
  NoLinePassedOver
  InsertsOnceInOrder
PROPERTIES
  LinesReachTable
\* A process whose offsets file does not parse cannot start again.
CHECK_DEADLOCK FALSE
