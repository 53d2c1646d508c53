CONSTANTS
  q1 = q1
  q2 = q2
  m1 = m1
  m2 = m2
  m3 = m3
  m4 = m4
  Queues = {q1, q2}
  Mbufs = {m1, m2, m3, m4, m5, m6}
  FrameKinds = {"v4", "v6"}
  RxInit <- TwoRings
  RxFreeThresh = 0
  NbTxDesc = 3
  TxFreeThresh = 1
  TxRsThresh = 1
  RxBurst = 2
  SendBurst = 2
  FreeBurst = 2
SPECIFICATION LiveSpec
INVARIANT ExclusiveOwnership
PROPERTIES FrameInspected FullListFlushed
