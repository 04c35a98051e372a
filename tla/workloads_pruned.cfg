SPECIFICATION FairSpec
CONSTANTS
  Configs <- MCLeaving
  Groups = {"a", "b"}
  MaxReplicas = 2
  MaxSize = 2
  None = None
PROPERTIES StatefulSetsPruned
CHECK_DEADLOCK FALSE
