SPECIFICATION FairSpec
CONSTANTS
  Images = {"v25", "v25b", "v26"}
  Images26 = {"v26"}
  Configs <- MCConfigs
  CacheKeepsUp = TRUE
  MaxFailures = 1
  NoImage = NoImage
INVARIANTS CoordinatorsServe
PROPERTIES UpdatesInOrder EveryComponentUpdated
CHECK_DEADLOCK FALSE
