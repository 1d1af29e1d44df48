SPECIFICATION Spec
CONSTANTS
  Calls = {c1, c2}
  l1 = l1
  Locations = {l1}
  Requests <- EveryRequest
  Free = Free
  Second = 1
  Half = 4
  MaxOutside = 1
INVARIANTS ListIsComplete
CHECK_DEADLOCK FALSE
