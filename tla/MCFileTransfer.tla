--------------------------- MODULE MCFileTransfer ---------------------------
(***************************************************************************)
(* FileTransfer on small instances: the file h has two chunks, h0 none.    *)
(***************************************************************************)
EXTENDS FileTransfer, TLC

CONSTANTS h, h0

AllFaults == Ends \ {"exit0"}
NoFaults == {}
Cancellation == {"killed"}
Lengths == [p \in HostPaths \cup GuestPaths |-> IF p = h THEN 2 ELSE IF p = h0 THEN 0 ELSE 1]

(* The calls differ in nothing before they are made. *)
CallSymmetry == Permutations(Transfers)
=============================================================================
