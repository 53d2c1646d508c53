CONSTANTS
  q1 = q1
  q2 = q2
  m1 = m1
  m2 = m2
  m3 = m3
  m4 = m4
  Queues = {q1, q2}
  Mbufs = {m1, m2, m3, m4, m5, m6, m7}
  FrameKinds = {"v4", "v4blacklisted"}
  RxInit <- TwoRings
  RxFreeThresh = 0
  NbTxDesc = 3
  TxFreeThresh = 1
  TxRsThresh = 1
  Drop = {"v4blacklisted"}
  MaxPktBurst = 3
SPECIFICATION Spec
SYMMETRY Symmetry
INVARIANTS NothingLost VerdictHolds
