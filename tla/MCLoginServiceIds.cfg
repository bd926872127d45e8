\* Two pool threads: ids.
CONSTANTS
  t1 = t1
  t2 = t2
  c1 = c1
  c2 = c2
  NoClient = NoClient
  NoThread = NoThread
  Threads = {t1, t2}
  Clients = {c1, c2}
  Configs <- OwnedConfigs
SPECIFICATION Spec

INVARIANTS UniqueIds
CHECK_DEADLOCK FALSE
