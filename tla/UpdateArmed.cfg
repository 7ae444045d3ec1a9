SPECIFICATION Spec
CONSTANTS
  Comps = {root, disk, spyre1}
  Root = root
  Spyres = {spyre1}
  Commands = {"update"}
  Faults = {"link"}
  MaxRuns = 2
  MaxSignals = 1
  MaxHotplugs = 0
INVARIANT ArmedMeansArchived
CHECK_DEADLOCK FALSE
