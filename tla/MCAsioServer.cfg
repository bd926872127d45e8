\* Every platform, two pool threads, three clients, under fairness.
CONSTANTS
  t1 = t1
  t2 = t2
  c1 = c1
  c2 = c2
  c3 = c3
  Main = Main
  NoClient = NoClient
  Threads = {t1, t2}
  Clients = {c1, c2, c3}
  Platforms <- AllPlatforms
  MaxFaults = 1
  MaxStops = 2
SPECIFICATION FairSpec
INVARIANTS TypeOK IndInv AcceptBaton ArmedAcceptorIsCurrent ChainUnbroken QuietAfterClosed
PROPERTIES ImplementsDispatch StopReturns QueueDrains
CHECK_DEADLOCK FALSE
