SPECIFICATION FairSpec
CONSTANTS
  Configs <- MCConfigs
  Groups = {"a", "b"}
  MaxReplicas = 2
  MaxSize = 2
  None = None
INVARIANTS OneKind
PROPERTIES EndpointKept ServingKept Settles
CHECK_DEADLOCK FALSE
