SPECIFICATION Spec
CONSTANTS
  exec = exec
  rootkit = rootkit
  execB = execB
  PoolA <- MCPoolA
  PoolB <- MCPoolB
  Claim <- MCClaim
  Class <- MCClass
  Severe = {rootkit}
  OneClass = {exec}
  Unmet = {exec, execB}
INVARIANTS NoTierAboveItsBest SuspiciousIsEarned EveryFindingIsAnswered OneClassIsNotConfirmed NoEvilHidesNothing
CHECK_DEADLOCK FALSE
