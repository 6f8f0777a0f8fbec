CONSTANTS
  n1 = n1
  n2 = n2
  NullAnchor = NullAnchor
  Blocks = {1, 2, 3, 4, 5, 6}
  Genesis = 0
  Pivot <- MCPivot
  Tips <- MCTips
  Gas <- MCGas
  Nodes = {n1, n2}
  Validators = {n1}
  PbftGasLimit = 3
  DagBlocksSize = 10
  GhostPathMoveBack = 0
  DagExpiryLimit = 1
  MaxPeriod = 2
  MaxCrashes = 1
SPECIFICATION DataSpec
INVARIANTS
  OrderAgrees
  FinalizedOnceWithParents
  DatabaseMatchesDag
  PeriodListsAgree
  FinalizedOnceInNonceOrder
  QueueIsRight
  PillarBlocksAgree
PROPERTY RestartKeepsDag
CHECK_DEADLOCK FALSE
