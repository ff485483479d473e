SPECIFICATION FairSpec
CONSTANTS
  Pids <- MCPids
  Leader = 2
INVARIANTS TimeoutEmptiesTheGroup OutsidersAreSpared
PROPERTY OnlyPipeOrToolHoldsItUp
CHECK_DEADLOCK FALSE
