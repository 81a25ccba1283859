\* The initialisation sequencer against responsive hardware, whose DDTP reads and writes
\* while busy may take any outcome the RISC-V IOMMU specification allows.
CONSTANTS
  Versions <- MC_Versions
  V10 <- MC_V10
  SatpModes <- MC_SatpModes
  DdtModeSets <- MC_DdtModeSets
  StackGarbage <- MC_StackGarbage
  MaxCalls <- MC_MaxCalls
SPECIFICATION Spec
\* After its calls the driver stops; DMA service is another module.
CHECK_DEADLOCK FALSE
INVARIANTS
  AllocationsFollowProgress
  TypeOK
  ProgrammedOnce
  InstalledConfiguration
PROPERTIES
  InitCallReturns
  ImplementsService
