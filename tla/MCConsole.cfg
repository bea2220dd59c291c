SPECIFICATION Spec
CONSTANTS
  MAX_ROW = 2
  MAX_COL = 3
  U16 = 16
  Texts <- MCTexts
  Keys <- MCKeys
  MaxPrints = 5
  Overlap = FALSE
  Flush = TRUE
INVARIANTS
  MatchesTerminal
  DrawsInside
