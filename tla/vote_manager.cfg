CONSTANTS
  v1 = v1
  v2 = v2
  v3 = v3
  A = A
  B = B
  Null = Null
  Pbft = Pbft
  Workers = {w1}
  Voters <- MCVoters
  Weight <- MCWeight
  Votes <- MCVotes
  Own = v1
  MaxPeriod = 3
  MaxRound = 2
  MaxStep = 5
  MaxCrashes = 1
  AcceptingPeriods = 1
  AcceptingRounds = 5
  AcceptingSteps = 5
SPECIFICATION MCSpec
INVARIANTS
  MarksMatchQuorums
  BundlesAreSaved
  RewardVotesAreKept
  ProofsAreRight
  ProposerKnowsPreviousRound
CHECK_DEADLOCK FALSE
