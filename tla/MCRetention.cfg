\* An int64 of 6 bits, lines read up to 13 months late.
CONSTANTS
  MaxInt = 31
  UnitLength <- MCUnits
  Periods <- MCPeriods
  Intervals <- MCIntervals
  MaxLate = 13
  MaxAge = 8
SPECIFICATION RetentionFairSpec
INVARIANTS
  OnlyOldRowsCleaned
PROPERTIES
  OldRowsGo
CHECK_DEADLOCK FALSE
