CONSTANTS
  p1 = p1
  p2 = p2
  k1 = k1
  k2 = k2
  Nil = Nil
  Procs = {p1, p2}
  Keys = {k1, k2}
  HashOf <- MCDistinct
  Sizes <- MCMixed
  EntrySize = 1
  Entries = {1, 2, 3, 4, 5}
  Admission = TRUE
  Eviction = TRUE
  Rewrites = FALSE
  SizeBytes = 2
  SoftLimit = 1
  Spins = 1
  MaxDrift = 0
SPECIFICATION Spec
INVARIANTS
  LenConserved
  OwnPayload
PROPERTIES
  ImplementsContract
