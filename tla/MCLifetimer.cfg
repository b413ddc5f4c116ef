CONSTANTS
  Nil = Nil
  k1 = k1
  k2 = k2
  c1 = c1
  w1 = w1
  Keys = {k1, k2}
  Modes <- KeyModes
  Entries = {1, 2}
  Clients = {c1}
  Consumers = {w1}
  QueueCap = 1
  ChanCap = 1
  MaxItems = 1
SPECIFICATION FairSpec
INVARIANTS
  TypeOK
  FlaggedIsOnItsWay
PROPERTIES
  FlagComesDown
  ExpiredIsHandled
  ClosedEnds
