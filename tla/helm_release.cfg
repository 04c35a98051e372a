SPECIFICATION FairSpec
CONSTANTS
  Configs <- MCConfigs
  Replicas = 2
  CrashInHelm = FALSE
  CacheKeepsUp = TRUE
  MaxEdits = 3
  MaxFaults = 3
  None = None
INVARIANTS ReadyForUpgrade UpgradesBounded
PROPERTIES ChartKept ResizeCompletes
