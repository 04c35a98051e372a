CONSTANTS
  Workloads = {proxy, node}
  Grouped = {node}
  HPA = {}
  ReplicaChoices = {0, 2}
  InitialReplicas <- MCServing
  OrderedImages = {FALSE}
  MaxRetry = 1
  RollbackIfFailed = {TRUE}
  RollbackFrom <- MCNotRollback
  HasAlpha = FALSE
  LagUpgrade = FALSE
  LagMilvus = FALSE
  MaxFaults = 0
  MaxRescales = 0
  NoRecord = NoRecord
SPECIFICATION Spec
INVARIANTS RollbackRestores
