\* DriverStateMonotonic, expected to be violated.
CONSTANTS
  RimtTables <- MC_RimtTables
SPECIFICATION Spec
PROPERTY DriverStateMonotonic
CHECK_DEADLOCK FALSE
