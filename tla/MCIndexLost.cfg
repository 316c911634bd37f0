\* A field configured with an index.
CONSTANTS
  MaxCounter = 0
  Dirs <- MCIndexDirs
  Clients = {}
  MaxSignals = 0
SPECIFICATION ApplicationSpec
INVARIANTS
  ConfiguredIndexExists
CHECK_DEADLOCK FALSE
