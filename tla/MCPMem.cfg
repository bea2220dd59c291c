CONSTANTS
  FRAME_SZ = 2
  SIZE_MOD = 64
  Boots <- MCBoots
  Requests <- MCRequests
SPECIFICATION Spec
INVARIANTS
  TypeOK
  CountersMatchBitmap
  ExclusiveGrants
  OnlyUsableGranted
  RunExact
  NeverReturnsNull
  FindsRun
PROPERTIES
  KeepsPromise
