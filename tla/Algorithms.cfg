SPECIFICATION AlgorithmsSpec
CONSTANTS
  Digests = {d1, d2}
  MaxLeaves = 9
  Limits = {0, 1, 2, 3}
  MaxSegments = 4
  MaxFaults = 1
  MaxRecords = 3
  RowLimits = {0, 1, 2, 3}
INVARIANTS
  RootIsOfTheTree ProofsRebuildRoot RootAndCountBindLeaves
  ClassesShareFairly DeletedAreAccountedFor WholeSetOrRefused
  UndisturbedRunsPass OneFaultIsCaught
  WholeAnswersAreWhole
CHECK_DEADLOCK FALSE
