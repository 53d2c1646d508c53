CONSTANTS
  Threads = {t1, t2}
  Objects = {o1, o2}
  MaxBulk = 2
  IndexWrap = 8
SPECIFICATION LiveSpec
INVARIANTS TypeOK PutNeverFails
PROPERTIES ImplementsPool FailsOnlyIfShort WaitEnds
