CONSTANTS
  Keys = {1, 2, 3}
  Size = 4
SPECIFICATION RingSpec
INVARIANTS
  RingTypeOK
PROPERTIES
  ImplementsFIFO
