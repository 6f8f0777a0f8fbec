CONSTANTS
  NullAnchor = NullAnchor
  ChangingInterval = 2
  ComputationInterval = 1
  ChangesCountForAverage = 2
  EfficiencyTargets <- MCTargets
  InitialThreshold = 1000
  PbftBlocks <- MCBlocks
  DelegationDelay = 2
  RewardsFrequency <- MCFrequency
  CactiBlock = 3
  LambdaMin = 10
  LambdaMax = 20
  LambdaDefault = 15
  LambdaChange = 6
  LambdaChangeInterval = 2
  LambdaMs = 17
  SystemPeriods = {3}
  CounterModulus = 256
  MaxPeriod = 5
  MaxCrashes = 2
SPECIFICATION FairSpec
INVARIANTS
  SortitionSurvivesRestart
  LambdaSurvivesReplay
  EligibilityKnown
  OneBlockUndone
PROPERTIES
  LedgerRefined
  BlocksExecuted
CHECK_DEADLOCK FALSE
