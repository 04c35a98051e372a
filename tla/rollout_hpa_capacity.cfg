CONSTANTS
  v1 = v1
  v2 = v2
  Dummy = Dummy
  Templates <- MCTemplates
  Configs <- MCHpa
  HpaMin = 1
  HpaMax = 2
SPECIFICATION Spec
PROPERTIES AvailableAutoscaled
CHECK_DEADLOCK FALSE
