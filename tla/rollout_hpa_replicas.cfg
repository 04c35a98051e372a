CONSTANTS
  v1 = v1
  v2 = v2
  Dummy = Dummy
  Templates <- MCTemplates
  Configs <- MCHpaAndReplicas
  HpaMin = 1
  HpaMax = 2
SPECIFICATION FairSpec
PROPERTIES Settles
CHECK_DEADLOCK FALSE
