CONSTANTS
  v1 = v1
  v2 = v2
  etcd = etcd
  Nothing = Nothing
  Images <- MCImages
  First = v1
  Deps <- MCDeps
  OrderedImages = {TRUE}
  StopAnyTime = FALSE
  MaxDisturbances = 2
SPECIFICATION FairSpec
INVARIANTS GoneMeansUninstalled
PROPERTIES DeletingIsFinal CurrentImageRan Converges
CHECK_DEADLOCK FALSE
