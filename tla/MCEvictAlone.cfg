CONSTANTS
  p1 = p1
  p2 = p2
  Procs = {p1}
  Keys <- MCKeys
  NumShards = 2
  MaxWeight <- MCMaxWeight
  Listing = TRUE
  Limit = 2
  MinLimit = 1
  Backoff = 4
SPECIFICATION Spec
PROPERTIES
  EvictionStopsAtLimit
