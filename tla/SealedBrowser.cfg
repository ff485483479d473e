SPECIFICATION Spec
CONSTANTS
  ToolCalls = {t1, t2}
  NoCall = NoCall
  MaxLines = 4
  MaxDamage = 1
  OthersAppend = FALSE
SYMMETRY CallSymmetry
INVARIANT ValidVerifiesInBrowser
CHECK_DEADLOCK FALSE
