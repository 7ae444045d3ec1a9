SPECIFICATION FairSpec
CONSTANTS
  Versions <- MCVersions
  PageCount <- MCPageCount
  VPD_CHANGED_THRESHOLD = 5
  Faults = {"memory", "parameter", "hardware", "librtas"}
INVARIANTS
  TypeOK
  BuffersFreed
PROPERTIES
  SnapshotSpec
  EndsWhenQuiet
