\* PciIommuInitialised, expected to be violated.
CONSTANTS
  RimtTables <- MC_RimtTables
SPECIFICATION Spec
PROPERTY PciIommuInitialised
CHECK_DEADLOCK FALSE
