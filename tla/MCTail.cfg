\* A worker that rotates or does not, a failing system call, and a truncation
\* by another program.
CONSTANTS
  StreamLen = 6
  NL <- MCNL
  Kind <- MCKind
  Chunk = 2
  HasExt = FALSE
  RotateSize = 3
  BufferSize = 2
  Limit = 1
  MaxErrors = 1
  MaxTruncs = 1
SPECIFICATION TailFairSpec
INVARIANTS
  AtMostOnce
  OffsetCovers
  FirstReadLimited
PROPERTIES
  InOrder
  RotateKeepsSeen
  ImplementsLineReader
  LineDelivered
  TruncationNoticed
\* A stopped worker whose log has ended does nothing more.
CHECK_DEADLOCK FALSE
