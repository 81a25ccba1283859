\* Discovery providers, the notify callback and the entry point.
CONSTANTS
  RimtTables <- MC_RimtTables
SPECIFICATION Spec
INVARIANTS
  TypeOK
  InitUsesMmioAddress
  DiscoveryInv
PROPERTIES
  DeviceTreeIommuInitialised
\* Once the entry point has returned and enumeration has completed, the
\* driver has nothing left to do: boot goes on without it.
CHECK_DEADLOCK FALSE
