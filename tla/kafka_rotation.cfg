SPECIFICATION FairSpec
CONSTANTS
  NoGroup = NoGroup
  Nothing = Nothing
  MaxReplicas = 3
  MaxTurns = 1
  Configs <- MCRotation

PROPERTIES RotationReachesPods
CHECK_DEADLOCK FALSE
