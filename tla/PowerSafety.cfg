SPECIFICATION Spec
CONSTANTS
  VMs = {v1}
  Names = {n1}
  Calls = {c1, c2}
  Tools = {"start", "stop", "restart", "suspend", "resume", "delete", "configure"}
  MaxExternal = 1
  NoVM = NoVM
SYMMETRY CallSymmetry
INVARIANTS TypeOK OkMeansDone DestructionIsEarned
PROPERTIES CancelledActsNoMore KillThenStart ImplementsService
CHECK_DEADLOCK FALSE
