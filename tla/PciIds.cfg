SPECIFICATION IdsSpec
CONSTANTS
  MaxLines = 5
  Setups <- IdSetups
  Dirs <- SearchedDirs
  Ids = {1, 2, 9}
  UnknownId = 9
INVARIANTS
  IdsTypeOK
  TablesAsListed
  NamedAsListed
CHECK_DEADLOCK FALSE
