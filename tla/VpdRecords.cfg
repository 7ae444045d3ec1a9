SPECIFICATION Spec
CONSTANTS
  Base = 9
  LargeTag = 8
  OpalTag = 7
  EndTag = 6
  OtherEndTag = 5
  Printing = {2, 3, 4}
  Blank = {2}
  Keys <- MCKeys
  SystemName <- MCSystemName
  Inputs <- MCInputs
INVARIANTS
  TypeOK
  FieldsInsideSection
  ReadAsSent
CHECK_DEADLOCK FALSE
