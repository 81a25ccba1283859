\* Device32BitReachable, expected to be violated.
CONSTANTS
  PageSize <- MC_PageSize
  NumPages <- MC_NumPages
  Size4G <- MC_Size4G
  TopOf <- MC_TopOf
  SatpModes <- MC_SatpModes
  CallerPages <- MC_CallerPages
  MapIds <- MC_MapIds
  Lengths <- MC_Lengths
  BufferPages <- MC_BufferPages
  MaxCalls <- MC_MaxCalls
SPECIFICATION Spec
INVARIANT Device32BitReachable
CHECK_DEADLOCK FALSE
