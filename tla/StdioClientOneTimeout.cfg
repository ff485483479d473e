SPECIFICATION Spec
CONSTANTS
  Callers = {c1, c2}
  MaxCalls = 4
  MaxTimeouts = 1
  None = None
  Failed = Failed
  Eof = Eof
SYMMETRY CallerSymmetry
PROPERTY KeepsPromise
CHECK_DEADLOCK FALSE
