\* Two threads.
CONSTANTS
  t1 = t1
  t2 = t2
  Threads = {t1, t2}
  MaxMessages = 3
  MaxErrors = 0
  Closes = FALSE
SPECIFICATION Spec
INVARIANTS QueueIsServed
CHECK_DEADLOCK FALSE
