SPECIFICATION Spec
CONSTANTS
  Plans <- SmallPlans
  Workers = 2
  Threshold = 2
  MaxSteps = 2
  MaxCalls = 3
  Cap <- SmallCaps
  RegistryCalls = 3
\* the run ends: it concludes, or an exception leaves it
CHECK_DEADLOCK FALSE
INVARIANTS EscalatesOnTwoInARow EscalationEndsWithTheGroup
  BatchKeepsOrder ClaimsCiteAnswers
  ClearedEntriesWereParsed CleanRunsAreReleased
