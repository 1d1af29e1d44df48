SPECIFICATION Spec
CONSTANTS
  VMs = {v1, v2}
  Names = {n1, n2}
  Creations = {c1, c2}
  Requests <- FullRequests
  DefaultWait = 2
  Interval = 1
  Second = 1
  Half = 4
  MaxOutside = 0
  NoVM = NoVM
SYMMETRY Symmetries
INVARIANT ActsOnOwnVM
CHECK_DEADLOCK FALSE
