SPECIFICATION ServicesSpec
CONSTANTS
  Peers = {p}
  Trusted = {}
  Ideal = 1
  Stretch = 2
  QuickLimit = 1
  SlowLimit = 1
  KeepPeers = 0
  MaxOthers = 1
  MaxFaults = 1
INVARIANTS
  SessionsAgree
  BootNodesKept
  DeliveredWhole
  LogsAndListedSessions
  EncodingIsFaithful
  FeesAreRight
CHECK_DEADLOCK FALSE
