SPECIFICATION Spec
CONSTANTS
  Calls = {c1}
  Slots <- MCSlots
  Requests <- GuestRequests
  Folders = {"code", "enabled"}
  NetCounts = {2}
  MaxOutside = 0
  None = None
INVARIANT UnstartedIsAnError
CHECK_DEADLOCK FALSE
