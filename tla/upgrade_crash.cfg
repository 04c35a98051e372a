CONSTANTS
  Workloads = {proxy, node}
  Grouped = {}
  HPA = {proxy}
  ReplicaChoices = {0, 2}
  InitialReplicas <- MCServing
  OrderedImages = {FALSE}
  MaxRetry = 1
  RollbackIfFailed = {TRUE, FALSE}
  RollbackFrom <- MCAtRest
  HasAlpha = FALSE
  LagUpgrade = FALSE
  LagMilvus = FALSE
  MaxFaults = 1
  MaxRescales = 0
  NoRecord = NoRecord
SPECIFICATION Spec
INVARIANT ReplicasRestored
