CONSTANTS
  p1 = p1
  p2 = p2
  k1 = k1
  k2 = k2
  Nil = Nil
  Procs = {p1}
  Keys = {k1, k2}
  HashOf <- MCCollide
  Sizes <- MCFixed
  EntrySize = 1
  Entries = {1, 2, 3, 4, 5}
  Admission = TRUE
  Eviction = TRUE
  Rewrites = TRUE
  SizeBytes = 2
  SoftLimit = 1
  Spins = 2
  MaxDrift = 1
SPECIFICATION Spec
INVARIANTS
  OwnPayload
