\* One request at a time, two signals.
CONSTANTS
  MaxCounter = 1
  Dirs <- MCDirs
  Clients = {c1}
  MaxSignals = 2
SPECIFICATION ApplicationFairSpec
INVARIANTS
  DeltasAddUp
  WritesFitTable
  QueriesServed
PROPERTIES
  SignalEndsProcess
CHECK_DEADLOCK FALSE
