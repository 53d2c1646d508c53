CONSTANTS
  q1 = q1
  q2 = q2
  m1 = m1
  m2 = m2
  m3 = m3
  m4 = m4
  Queues = {q1}
  Mbufs = {m1, m2, m3, m4, m5, m6, m7, m8}
  FrameKinds = {"v4", "v4blacklisted"}
  RxInit <- OneRing
  RxFreeThresh = 0
  NbTxDesc = 3
  TxFreeThresh = 1
  TxRsThresh = 1
  RxBurst = 2
  SendBurst = 2
  FreeBurst = 2
SPECIFICATION Spec
SYMMETRY Symmetry
PROPERTY SentOrFreed
