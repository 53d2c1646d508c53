CONSTANTS
  q1 = q1
  Queues = {q1}
  Mbufs = {1, 2, 3, 4, 5, 6, 7}
  FrameKinds = {"v4", "v4blacklisted"}
  RxInit <- OneRing
  RxFreeThresh = 0
  NbTxDesc = 3
  TxFreeThresh = 1
  TxRsThresh = 1
  Forward = {"v4"}
  GetBurst = 2
  SendBurst = 2
  FreeBurst = 2
  MaxStale = 1
SPECIFICATION MCLiveSpec
INVARIANTS OwnedUntilStale ListsFit
PROPERTY FlushedUnderTraffic
