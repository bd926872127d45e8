\* Two pool threads, every configuration.
CONSTANTS
  t1 = t1
  t2 = t2
  c1 = c1
  c2 = c2
  c3 = c3
  NoClient = NoClient
  NoThread = NoThread
  Threads = {t1, t2}
  Clients = {c1, c2, c3}
  Configs <- AllConfigs
SPECIFICATION Spec
SYMMETRY ThreadSymmetry
INVARIANTS TypeOK IndInv IdsCollideAcrossThreadsOnly DanglingReadHasCause LossAcrossThreadsOnly
CHECK_DEADLOCK FALSE
