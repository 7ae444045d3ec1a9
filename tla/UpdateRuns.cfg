SPECIFICATION FairSpec
CONSTANTS
  Comps = {root, spyre1}
  Root = root
  Spyres = {spyre1}
  Commands = {"update", "archive"}
  Faults = {"kill", "signal", "throw", "ensure", "link", "archive", "store", "vfio"}
  MaxRuns = 2
  MaxSignals = 2
  MaxHotplugs = 1
INVARIANTS
  TypeOK
  OldInventoryKept
  SuccessIsComplete
  SuccessIsFresh
  NoPartialAfterAbort
  RetainedWithinRun
  DeletedOnceUnlessSignalled
PROPERTIES
  PublishedSpec
  RunEnds
CHECK_DEADLOCK FALSE
