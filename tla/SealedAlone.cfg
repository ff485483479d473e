SPECIFICATION Spec
CONSTANTS
  ToolCalls = {t1, t2}
  NoCall = NoCall
  MaxLines = 4
  MaxDamage = 1
  OthersAppend = FALSE
SYMMETRY CallSymmetry
INVARIANTS VerifiedMeansCited VerifiedMeansUntouched CleanRunVerifies VerifiersAgree
CHECK_DEADLOCK FALSE
