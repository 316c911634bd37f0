\* Configurations of three fields, edited between starts; statements fail.
CONSTANTS
  Columns = {a, b, c}
  Types = {text, integer}
  None = none
  Faults = TRUE
SYMMETRY FieldSymmetry
SPECIFICATION MigrateSpec
INVARIANTS
  DoneMeansConfigured
  RefusedOnlyForIndex
PROPERTIES
  NeverUndone
