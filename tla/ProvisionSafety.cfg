SPECIFICATION FairSpec
CONSTANTS
  VMs = {v1, v2}
  Names = {n1, n2}
  Creations = {c1}
  Requests <- EveryRequest
  DefaultWait = 2
  Interval = 1
  Second = 1
  Half = 4
  MaxOutside = 1
  NoVM = NoVM
INVARIANTS TypeOK ReportIsTrue FailuresAreWarned OneVMPerCall ErrorLeavesNothing AddressWasWaitedFor
PROPERTY EveryCallIsAnswered
CHECK_DEADLOCK FALSE
