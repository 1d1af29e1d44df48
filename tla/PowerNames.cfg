SPECIFICATION FairSpec
CONSTANTS
  VMs = {v1, v2}
  Names = {n1, n2}
  Calls = {c1}
  Tools = {"start", "stop", "restart", "suspend", "resume", "delete", "configure"}
  MaxExternal = 2
  NoVM = NoVM
INVARIANT UuidPinsTarget
PROPERTIES CancelledIsAnswered EveryCallIsAnswered
CHECK_DEADLOCK FALSE
