\* A numeric ip in the configuration, no operating system fault.
CONSTANTS
  t1 = t1
  t2 = t2
  c1 = c1
  c2 = c2
  Main = Main
  NoClient = NoClient
  Threads = {t1, t2}
  Clients = {c1, c2}
  Platforms <- NumericAddress
  MaxFaults = 0
  MaxStops = 1
SPECIFICATION FairSpec
PROPERTIES ClientsReachGame
CHECK_DEADLOCK FALSE
