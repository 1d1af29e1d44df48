SPECIFICATION Spec
CONSTANTS
  Calls = {c1, c2}
  Requests <- EveryRequest
  MaxPorts = 1
  MaxPower = 1
INVARIANTS TypeOK AppliedIsTrue ErrorChangesNothing PortComesFirst FlagsAsAsked
SYMMETRY Symmetries
CHECK_DEADLOCK FALSE
