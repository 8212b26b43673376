SPECIFICATION HealthySpec
CONSTANTS
  InitialMemory <- MCInitialMemory
  Sizes <- MCSizes
  AddressSpace = 64
  PageSize = 4
  Kernels <- MCGoodKernel
  XSDP_FIRST_PART_SIZE = 8
  XSDPs <- MCGoodXSDP
  GarbageMaps <- MCGarbageMaps
  MaxEvents = 0
PROPERTY
  HealthyMachineBoots
CHECK_DEADLOCK FALSE
