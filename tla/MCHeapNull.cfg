SPECIFICATION Spec
CONSTANTS
  PAGE_SZ = 8
  HDR = 2
  Pools <- MCPools
  Sizes <- MCSizes
INVARIANT
  NullNeverWritten
