SPECIFICATION Spec
CONSTANTS
  Readers = {a, b}
  Size = 2
  Faults = {"gzopen", "open", "write", "gzread", "path", "database", "content"}
INVARIANTS
  TypeOK
  OnlyFromArchive
  WholeWhenAlone
CHECK_DEADLOCK FALSE
