CONSTANTS
  n1 = n1
  n2 = n2
  e1 = e1
  e2 = e2
  Nodes = {n1, n2}
  Endpoints = {e1, e2}
  Bins <- OneBin
  BinOf <- SameBin
  BucketSize = 1
  Alpha = 1
  MaxStimuli = 1
SPECIFICATION FairSpec
INVARIANTS
  TableAgrees
PROPERTY TableSettles
CHECK_DEADLOCK FALSE
