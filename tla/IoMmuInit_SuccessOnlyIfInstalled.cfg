CONSTANTS
  Versions <- MC_Versions
  V10 <- MC_V10
  SatpModes <- MC_SatpModes
  DdtModeSets <- MC_DdtModeSets
  StackGarbage <- MC_StackGarbage
  MaxCalls <- MC_MaxCalls
SPECIFICATION Spec
CHECK_DEADLOCK FALSE
INVARIANT SuccessOnlyIfInstalled
