SPECIFICATION FairSpec
CONSTANTS
  NoGroup = NoGroup
  Nothing = Nothing
  MaxReplicas = 3
  MaxTurns = 2
  Configs <- MCConfigs
INVARIANTS MountedExists
PROPERTIES NoIdleRollout ChartValuesKept Converges
CHECK_DEADLOCK FALSE
