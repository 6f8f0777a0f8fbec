CONSTANTS
  v1 = v1
  v2 = v2
  v3 = v3
  A = A
  B = B
  Null = Null
  Pbft = Pbft
  Workers = {w1, w2}
  Voters <- MCVoters
  Weight <- MCWeight
  Votes <- MCOvertaking
  Own = v1
  MaxPeriod = 2
  MaxRound = 2
  MaxStep = 5
  MaxCrashes = 0
  AcceptingPeriods = 1
  AcceptingRounds = 5
  AcceptingSteps = 5
SPECIFICATION OvertakingSpec
INVARIANT CurrentBundlesAreSaved
CHECK_DEADLOCK FALSE
