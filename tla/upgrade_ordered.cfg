CONSTANTS
  Workloads = {proxy, node}
  Grouped = {node}
  HPA = {proxy}
  ReplicaChoices = {0, 2}
  InitialReplicas <- MCServing
  OrderedImages = {TRUE}
  MaxRetry = 1
  RollbackIfFailed = {TRUE, FALSE}
  RollbackFrom <- MCAtRest
  HasAlpha = TRUE
  LagUpgrade = FALSE
  LagMilvus = FALSE
  MaxFaults = 0
  MaxRescales = 0
  NoRecord = NoRecord
SPECIFICATION Spec
INVARIANT PodsMatchMeta
