SPECIFICATION Spec
CONSTANTS
  LIMIT = 3
  RSDT_SZ = 36
  SIZE_MOD = 64
  Machines <- MCMachines
  MaxInterrupts = 2
INVARIANTS
  NothingUsedBeforeSet
  TablesExact
  StopsForCause
  FailuresShown
PROPERTIES
  StartEnds
