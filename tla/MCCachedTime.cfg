CONSTANTS
  i1 = i1
  i2 = i2
  Instances = {i1, i2}
  MaxTime = 2
SPECIFICATION FairSpec
CHECK_DEADLOCK FALSE
INVARIANTS
  TypeOK
  DoneClosedOnce
PROPERTIES
  ImplementsContract
  ClockGoesOn
  CancelEndsTickers
