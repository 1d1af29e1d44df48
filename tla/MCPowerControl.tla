--------------------------- MODULE MCPowerControl ---------------------------
(***************************************************************************)
(* PowerControl on small instances.  Two calls meet on one VM with every   *)
(* tool, or on two VMs whose two names can move between them while a call  *)
(* is between two of its commands.                                         *)
(***************************************************************************)
EXTENDS PowerControl, TLC

(* The calls differ in nothing before they are made. *)
CallSymmetry == Permutations(Calls)
=============================================================================
