CONSTANTS
  Workloads = {proxy, node}
  Grouped = {}
  HPA = {}
  ReplicaChoices = {0, 2}
  InitialReplicas <- MCStopped
  OrderedImages = {FALSE}
  MaxRetry = 1
  RollbackIfFailed = {TRUE, FALSE}
  RollbackFrom <- MCAtRest
  HasAlpha = FALSE
  LagUpgrade = FALSE
  LagMilvus = FALSE
  MaxFaults = 0
  MaxRescales = 0
  NoRecord = NoRecord
SPECIFICATION Spec
INVARIANT RollbackRestores
