\* Every file, on a system that starts up to five threads.
CONSTANTS
  Counts <- MCCounts
  LoggerLists <- MCLoggerLists
  ServiceLists <- MCServiceLists
  Bad = Bad
  IllTyped = IllTyped
  SizeValues = 8
  SystemThreads = 5
  MaxClients = 2
SPECIFICATION Spec
INVARIANTS TypeOK FrontExists ServicesKnowLogin DefaultAddressRunsNothing PoolIsConcurrency
PROPERTIES PoolOnlyFinds
CHECK_DEADLOCK FALSE
