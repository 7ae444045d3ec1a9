SPECIFICATION Spec
CONSTANTS
  SysDirs = {s1, s2, s3}
  DtNodes = {n1, n2, n3}
  SysRoot = SysRoot
  DtRoot = DtRoot
  None = None
SYMMETRY MCSymmetry
INVARIANTS TypeOK NeverCorrupted EachDeviceInTree AncestryKept
