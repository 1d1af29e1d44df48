SPECIFICATION FairSpec
CONSTANTS
  Transfers = {t1, t2}
  HostPaths = {h}
  GuestPaths = {g, g2}
  Length <- Lengths
  Windows = FALSE
  Faults <- Cancellation
  Absent = Absent
  h = h
  h0 = h0
PROPERTIES PushArrives EveryTransferIsAnswered
CHECK_DEADLOCK FALSE
