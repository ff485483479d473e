SPECIFICATION Spec
CONSTANTS
  exec = exec
  rootkit = rootkit
  execB = execB
  PoolA <- MCPoolA
  PoolB <- MCPoolB
  Claim <- MCClaim
  Class <- MCClass
  Severe = {rootkit}
  OneClass = {exec}
  Unmet = {exec, execB}
INVARIANT NoEvilMeansNoFindings
CHECK_DEADLOCK FALSE
