CONSTANTS
  p1 = p1
  p2 = p2
  p3 = p3
  unhealthy = unhealthy
  updated = updated
  etcd = etcd
  none = none
  Empty = none
  None = None
  Probers <- MCProbers
  Loops <- MCLoops
  LoopOf <- MCLoopOf
  Endpoints <- SharedEndpoints
  Target <- Shared
SPECIFICATION FairCacheSpec
INVARIANTS ProbesBounded
PROPERTIES CacheCatchesUp RoundsEnd
