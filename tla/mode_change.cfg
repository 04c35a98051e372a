CONSTANTS
  p1 = p1
  p2 = p2
  p3 = p3
  p4 = p4
  current = current
  previous = previous
  NotSaved = NotSaved
  Pods <- MCPods
  Initial <- MCInitial
  Sets <- MCSets
  Active = current
  Lags = {{"milvus"}, {"milvus","pods"}, {"milvus","sets"}}
  MaxDeaths = 1
SPECIFICATION FairChangeSpec
INVARIANTS SavedBeforeDeleted PodsKept NothingLeftBehind
PROPERTIES Changes
CHECK_DEADLOCK FALSE
