SPECIFICATION Spec
CONSTANTS
  SysDirs = {s1, s2}
  DtNodes = {n1, n2}
  SysRoot = SysRoot
  DtRoot = DtRoot
  None = None
SYMMETRY MCSymmetry
INVARIANT ParentageUpdated
