\* Crashes, failing writes, stops and restarts.
CONSTANTS
  a = a
  b = b
  Paths <- MCPaths
  MaxOffset <- MCMaxOffset
  Faults = TRUE
  ShortWrites = TRUE
  Crashes = TRUE
SPECIFICATION HistoryFairSpec
INVARIANTS
  UnsavedIsOwed
  EntriesSurvive
PROPERTIES
  CleanExitSaves
  QuietMapSaved
\* A process whose offsets file does not parse cannot start again.
CHECK_DEADLOCK FALSE
