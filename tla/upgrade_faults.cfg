CONSTANTS
  Workloads = {proxy, node}
  Grouped = {node}
  HPA = {}
  ReplicaChoices = {0, 2}
  InitialReplicas <- MCServing
  OrderedImages = {FALSE}
  MaxRetry = 1
  RollbackIfFailed = {TRUE}
  RollbackFrom <- MCAtRest
  HasAlpha = FALSE
  LagUpgrade = FALSE
  LagMilvus = TRUE
  MaxFaults = 2
  MaxRescales = 1
  NoRecord = NoRecord
SPECIFICATION Spec
INVARIANTS OneTaskAtATime BackupBeforeChange
PROPERTIES RecordTakenOnce
