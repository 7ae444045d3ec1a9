SPECIFICATION FairSpec
CONSTANTS
  Calls <- MCCalls
  Faults = {"open", "ioctl", "refuse", "wrong"}
  Star = 0
INVARIANTS
  TypeOK
  
  FieldsAsTemplated
  FirstLineThatFits
PROPERTIES
  CollectionEnds
CHECK_DEADLOCK FALSE
