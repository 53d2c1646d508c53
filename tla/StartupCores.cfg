CONSTANTS
  NumCores = 1
  pa = pa
  PciPorts = {pa, pb}
  MaxListed = 2
  MaxPorts = 2
  MaxCheckTime = 3
  CoreSets = {{0}, {0, 3, 5}, {0, 1, 2, 3}, {0, 1, 2, 3, 4, 5}, {1, 3, 5}}
  Threads <- FirewallThreads
  StatsCore = 1
  RxNum = 2
  TxNum = 2
  Workers = {w1, w2}
  MaxBurst = 2
  SendSize = 2
  MaxPackets = 2
  MaxTotal = 2
SPECIFICATION MCSpec
INVARIANT ThreadsOnTheirCores
