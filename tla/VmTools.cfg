SPECIFICATION Spec
CONSTANTS
  Calls = {c1, c2}
  Slots <- MCSlots
  Requests <- EveryRequest
  Folders = {"code", "enabled"}
  NetCounts = {2}
  MaxOutside = 1
  None = None
INVARIANTS TypeOK OkMeansDone HitsWhatWasListed ShellFits AddedIsListed
SYMMETRY CallSymmetry
CHECK_DEADLOCK FALSE
