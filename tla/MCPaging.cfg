SPECIFICATION Spec
CONSTANTS
  E = 4
  PAGE_SZ = 4
  PTR_FRAMES = 24
  Machines <- MCMachines
INVARIANTS
  MapsExact
  TablesTree
  FaultsOnlyLeftOut
PROPERTIES
  MappingStays
  ConstructorEnds
