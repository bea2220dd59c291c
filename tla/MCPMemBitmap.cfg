CONSTANTS
  FRAME_SZ = 2
  SIZE_MOD = 64
  Boots <- MCBoots
  Requests <- MCRequests
SPECIFICATION Spec
INVARIANT
  BitmapFramesLocked
