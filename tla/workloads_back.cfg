SPECIFICATION Spec
CONSTANTS
  Configs <- MCConfigs
  Groups = {"a", "b"}
  MaxReplicas = 2
  MaxSize = 2
  None = None
PROPERTIES EndpointKeptOnTheWayBack
CHECK_DEADLOCK FALSE
