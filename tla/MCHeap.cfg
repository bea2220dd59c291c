SPECIFICATION Spec
CONSTANTS
  PAGE_SZ = 8
  HDR = 2
  Pools <- MCPools
  Sizes <- MCSizes
INVARIANTS
  ListLinked
  BlocksTile
  LiveBacked
  NeighboursMerged
  GrownBlockFits
PROPERTIES
  KeepsMalloc
