CONSTANTS
  p1 = p1
  p2 = p2
  Procs = {p1, p2}
  Keys <- MCKeys
  NumShards = 2
  MaxWeight <- MCMaxWeight
  Listing = TRUE
  Limit = 1
  MinLimit = 1
  Backoff = 2
SPECIFICATION FairSpec
INVARIANTS
  TypeOK
  ShardCountersExact
  LRUMatchesItems
  CountersConserved
  QuiescentPrecise
PROPERTIES
  RecencyOrderStable
  EveryCallReturns
