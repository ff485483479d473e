SPECIFICATION Spec
CONSTANTS
  Mounts = {m1, m2}
  MaxCalls = 3
  NoMount = NoMount
INVARIANTS LedgerTellsTheTruth NothingLeftMounted UnrecordedNeedsFault TeardownCanBeRetried
PROPERTY RunEnds
