CONSTANTS
  v1 = v1
  v2 = v2
  Dummy = Dummy
  Templates <- MCTemplates
  Configs <- MCRollout
  HpaMin = 1
  HpaMax = 2
SPECIFICATION FairSpec
INVARIANTS LastIdle
PROPERTIES SurgeRespected TemplateFixedWhileUsed FinishedMeansReplaced Available Settles
CHECK_DEADLOCK FALSE
