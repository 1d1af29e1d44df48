SPECIFICATION Spec
CONSTANTS
  Transfers = {t1}
  HostPaths = {h}
  GuestPaths = {g}
  Length <- Lengths
  Windows = TRUE
  Faults <- AllFaults
  Absent = Absent
  h = h
  h0 = h0
INVARIANT DecodeFailureIsReported
CHECK_DEADLOCK FALSE
