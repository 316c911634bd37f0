\* Logs come, go and are replaced at any moment; the queue may overflow.
CONSTANTS
  Names = {f, g}
  MaxEvents = 2
  MaxChanges = 2
  Faults = TRUE
SPECIFICATION WatcherFairSpec
INVARIANTS
  NoUnnoticedWrite
  MapMatchesDirectory
  NoStrayWorker
PROPERTIES
  WriteNoticed
  WatchExits
\* A watcher that has exited or whose program has ended does nothing.
CHECK_DEADLOCK FALSE
