CONSTANTS
  w1 = w1
  w2 = w2
  f1 = f1
  Consumers = {w1, w2}
  Callers = {f1}
  SoftLimit = 2
  Spins = 2
  MaxWrites = 3
  MaxDrops = 1
SPECIFICATION FairWorkersSpec
CHECK_DEADLOCK FALSE
INVARIANTS
  WorkersTypeOK
  EvictionsLedger
  LoggedOnce
PROPERTIES
  EvictsToLimit
  Relief
  CloseEndsAll
  EveryEvictionLogged
