SPECIFICATION FollowedSpec
CONSTANTS
  Writers = {w1, w2}
  Uses <- DisciplinedUses
  MaxRecords = 4
  Followed <- FollowedUses
  Readers = {r1, r2}
SYMMETRY Symmetry
INVARIANTS TailCheckSuffices AckedKept ChainIntact FollowsTheLog
CONSTRAINT UntilOverlap
