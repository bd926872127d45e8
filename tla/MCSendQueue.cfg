\* One thread: calls and handlers are serial.  Fair, for QueueDrains.
CONSTANTS
  t1 = t1
  Threads = {t1}
  MaxMessages = 5
  MaxErrors = 2
  Closes = TRUE
SPECIFICATION FairSpec
INVARIANTS TypeOK QueueIsServed FlagIsExact LossIsBounded
PROPERTIES ImplementsChannel QueueDrains
CHECK_DEADLOCK FALSE
