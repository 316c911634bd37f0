\* A producer, and a client that asks for one row at a time; inserts fail,
\* rows are cleaned up, the process is stopped, killed and started again.
CONSTANTS
  Producers = {p}
  PerProducer = 3
  Time <- MCTime
  QueueCap = 2
  Faults = TRUE
  Crashes = TRUE
  MaxCursor = 4
  Limit = 1
  Filters <- MCFilters
SPECIFICATION ReaderFairSpec
INVARIANTS
  RowsAccounted
  RowsInOrder
  ReaderMissesNothing
  CursorsUnique
PROPERTIES
  ProducersReleased
\* The bound on cursors stops the database.
CHECK_DEADLOCK FALSE
