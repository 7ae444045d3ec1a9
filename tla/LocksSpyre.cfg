SPECIFICATION Spec
CONSTANTS
  Updaters = {u1, u2}
  Archivers = {}
  Readers = {}
  Faults = {}
  MaxRuns = 2
INVARIANT OwnSpyreDb
CHECK_DEADLOCK FALSE
