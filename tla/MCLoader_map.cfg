SPECIFICATION Spec
CONSTANTS
  InitialMemory <- MCInitialMemory
  Sizes <- MCSizes
  AddressSpace = 64
  PageSize = 4
  Kernels <- MCKernels
  XSDP_FIRST_PART_SIZE = 20
  XSDPs <- MCXSDPs
  GarbageMaps <- MCGarbageMaps
  MaxEvents = 1
INVARIANTS
  TypeOK
  KernelMemoryReserved
  MapIsCurrent
  BufferFits
  EntriesFit
  LoadStaysInside
  SegmentsLoaded
CHECK_DEADLOCK FALSE
