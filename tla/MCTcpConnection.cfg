\* Pools of one and of two threads, fair.
CONSTANTS
  t1 = t1
  t2 = t2
  Threads = {t1, t2}
  Pools <- OneOrTwo
  Roles = {"accepted", "connects"}
  MaxAttempts = 2
  MaxCloses <- TwoIfAccepted
  MaxChunks = 3
SPECIFICATION FairSpec
INVARIANTS TypeOK OneReader ConnectingIsPending OneDisconnectPerThread HandedInOrder
PROPERTIES FailedReadCloses AttemptsEnd
CHECK_DEADLOCK FALSE
