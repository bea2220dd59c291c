SPECIFICATION Spec
CONSTANTS
  BUF = 7
  TMP = 4
  WORD = 16
  U16 = 8
  Calls <- MCCalls
INVARIANTS
  StaysInside
PROPERTIES
  PrintsExpansion
