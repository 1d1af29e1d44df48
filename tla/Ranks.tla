------------------------------- MODULE Ranks --------------------------------
(***************************************************************************)
(* Ranks for arguments that a call comes to its end: pairs of numbers, the *)
(* stage of the call first and what is left to do in that stage second.    *)
(***************************************************************************)
EXTENDS Integers

Rank == Nat \X Nat

Below(a, b) == a[1] < b[1] \/ (a[1] = b[1] /\ a[2] < b[2])
=============================================================================
