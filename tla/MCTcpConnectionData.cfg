\* One thread.
CONSTANTS
  t1 = t1
  t2 = t2
  Threads = {t1, t2}
  Pools <- One
  Roles = {"accepted"}
  MaxAttempts = 0
  MaxCloses <- NoCloses
  MaxChunks = 2
SPECIFICATION Spec
INVARIANTS DataIsIntact
CHECK_DEADLOCK FALSE
