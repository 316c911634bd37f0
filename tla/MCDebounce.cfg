\* Both kinds of debouncer: the workers' (immediate) and the offset file's.
CONSTANTS
  Delay = 3
SPECIFICATION FairSpec
INVARIANTS
  NoLostEmit
PROPERTIES
  RunsSpaced
  ImplementsTrigger
