SPECIFICATION Spec
CONSTANTS
  Configs <- MCEtcd
  Replicas = 1
  CrashInHelm = FALSE
  CacheKeepsUp = FALSE
  MaxEdits = 2
  MaxFaults = 0
  None = None
INVARIANTS SavedBeforeDeletion
CHECK_DEADLOCK FALSE
