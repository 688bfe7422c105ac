CONSTANTS
  Wanted <- MCWanted
  MaxCleared = 2
  MaxTime = 3
  Hashes = {1, 2}
  Orders = {0, 1}
  Hops <- MCHops
  Paths <- MCPaths
  MaxHops = 2
  DecayEvery = 2
  SleepAfter = 1
  RepairEvery = 2
  SaveEvery = 2
  SaveRatio = 1
  CountMax = 3
  MaxClusters = 255
  Endpoints = {1, 2}
  Ins <- MCIns
  Outs <- MCOuts
  AsduMax = 3
  Junk = 238
  Samples <- MCSamples
  MaxFrames = 2
SPECIFICATION Spec
INVARIANTS TypeOK DataKept ReadBack
PROPERTY ReadOutIsExact
CHECK_DEADLOCK FALSE
