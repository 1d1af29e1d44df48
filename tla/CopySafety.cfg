SPECIFICATION Spec
CONSTANTS
  Transfers = {t1, t2}
  HostPaths = {h, h0}
  GuestPaths = {g}
  Length <- Lengths
  Windows = TRUE
  Faults <- AllFaults
  Absent = Absent
  h = h
  h0 = h0
SYMMETRY CallSymmetry
INVARIANTS TypeOK TmpTracksLoop
PROPERTIES OkMeansDelivered GuestFileHeld ImplementsService
CHECK_DEADLOCK FALSE
