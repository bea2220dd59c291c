SPECIFICATION Spec
CONSTANTS
  PAGE_SZ = 4
  U16 = 8
  Kernels <- MCKernels
  Magics <- MCMagics
  MaxMap = 3
  MaxEvents = 1
INVARIANTS
  StartsComplete
  StartsOnCurrentMap
  ReadsInsideSegment
  StopsForCause
PROPERTY
  BootEnds
