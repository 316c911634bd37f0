\* A path pattern with named groups, and a line without fields in the log.
CONSTANTS
  StreamLen = 7
  NL <- MCNLPanic
  Kind <- MCKindPanic
  Chunk = 3
  HasExt = TRUE
  RotateSize = 0
  BufferSize = 2
  Limit = 0
  MaxErrors = 0
  MaxTruncs = 0
SPECIFICATION TailFairSpec
PROPERTIES
  LineDelivered
\* A program that has panicked does nothing more.
CHECK_DEADLOCK FALSE
