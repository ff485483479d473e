SPECIFICATION FairSpec
CONSTANTS
  Callers = {c1, c2}
  MaxCalls = 4
  StdinRoom = 2
  StdoutRoom = 1
  None = None
  Failed = Failed
  Eof = Eof
INVARIANT NobodyWaitsOnADeadReader
PROPERTIES KeepsPromise CallsReturn
CHECK_DEADLOCK FALSE
