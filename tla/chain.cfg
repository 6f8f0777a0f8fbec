SPECIFICATION ChainSpec
CONSTANTS
  p1 = p1
  p2 = p2
  Peers <- Both
  Faulty <- Longest
  DagPeers <- Longest
  NoPeer = NoPeer
  FirstSize <- Sizes
  SyncLevelSize = 2
  AheadLimit = 1
  DeepSyncingThreshold = 1
  MaxDelays = 1
  MaxPeriod = 3
  MaxSlow = 0
  MaxDisconnects = 0
INVARIANTS
  NeverBanned
  QueuedBlocksFit
  BlocksReadWhole
  ChainGoesOn
