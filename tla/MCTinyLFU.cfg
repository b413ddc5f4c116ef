CONSTANTS
  Nil = Nil
  k1 = k1
  k2 = k2
  g1 = g1
  g2 = g2
  Keys = {k1, k2}
  Procs = {g1, g2}
  LaneSize = 4
  LanesPerWord = 2
  NumWords = 2
  DoorBits <- MCDoorBits
  DoorIndex <- MCDoorIndex
  Index <- MCIndex
  ResetAt = 3
  MaxTries = 2
  MaxAdds = 4
  Configs <- MCConfigs
  Smears = 2
  IntBits = 7
  WordCounters = 4
  WordBits = 8
SPECIFICATION Spec
INVARIANTS
  TypeOK
  NeverUnderestimates
  CountedPassesDoor
  AgingGuarded
  AgesFullWindows
PROPERTIES
  CountersKeepApart
