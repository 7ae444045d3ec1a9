SPECIFICATION FairSpec
CONSTANTS
  Updaters = {u1, u2, u3}
  Archivers = {a1}
  Readers = {r1}
  Faults = {"signal", "kill", "link", "store"}
  MaxRuns = 1
INVARIANTS
  TypeOK
  ReaderSeesOneInventory
PROPERTIES
  OnlyTheHolderWrites
  AllRunsEnd
CHECK_DEADLOCK FALSE
