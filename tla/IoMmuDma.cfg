\* The mapping engine: Map, Unmap, AllocateBuffer, FreeBuffer and a device.
CONSTANTS
  PageSize <- MC_PageSize
  NumPages <- MC_NumPages
  Size4G <- MC_Size4G
  TopOf <- MC_TopOf
  SatpModes <- MC_SatpModes
  CallerPages <- MC_CallerPages
  MapIds <- MC_MapIds
  Lengths <- MC_Lengths
  BufferPages <- MC_BufferPages
  MaxCalls <- MC_MaxCalls
SPECIFICATION Spec
INVARIANTS
  TypeOK
  ReadMappingCoherent
  DeviceRangeAddressable
  PagesConserved
PROPERTIES
  UnmapDeliversWrites
  ImplementsContract
\* The caller stops after MaxCalls protocol calls.
CHECK_DEADLOCK FALSE
