SPECIFICATION Spec
CONSTANTS
  Configs <- MCPaused
  Groups = {"a", "b"}
  MaxReplicas = 2
  MaxSize = 2
  None = None
PROPERTIES ServingKept
CHECK_DEADLOCK FALSE
