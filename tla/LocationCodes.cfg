SPECIFICATION Spec
CONSTANTS
  adapter = adapter  host = host  disk = disk  disk2 = disk2
  rootHub = rootHub  device = device  interface = interface
  u1 = u1  u2 = u2  u3 = u3  u4 = u4  slot1 = slot1  part = part
  top = top  node = node  port = port  other = other
  None = None
  Systems <- MCSystems
  Names <- MCNames
  Nodes <- MCNodes
INVARIANTS TypeOK LocatedBelow FirmwareCodeStays SlotBelowParent OwnPort
CHECK_DEADLOCK FALSE
