CONSTANTS
  v1 = v1
  v2 = v2
  etcd = etcd
  Nothing = Nothing
  Images <- MCImages
  First = v1
  Deps <- MCDeps
  OrderedImages = {TRUE, FALSE}
  StopAnyTime = FALSE
  MaxDisturbances = 2
SPECIFICATION FairSpec
PROPERTIES CurrentImageRanInEveryMode
CHECK_DEADLOCK FALSE
