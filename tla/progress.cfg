SPECIFICATION ProgressSpec
CONSTANTS
  p1 = p1
  Peers <- One
  Faulty = {}
  DagPeers = {}
  NoPeer = NoPeer
  FirstSize <- TwoBlocks
  SyncLevelSize = 1
  AheadLimit = 1
  DeepSyncingThreshold = 2
  MaxDelays = 1
  MaxPeriod = 3
  MaxSlow = 1
  MaxDisconnects = 1
PROPERTIES
  NodeCatchesUp
  VotesArrive
CHECK_DEADLOCK FALSE
