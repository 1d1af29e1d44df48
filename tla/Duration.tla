------------------------------ MODULE Duration ------------------------------
(* time.Duration(n) * time.Second for an n that a client sends.            *)
EXTENDS Integers

CONSTANTS
  Second,  \* time.Second, in ticks
  Half     \* half the range of a time.Duration, 2^63 in the program

ASSUME DurationAssumption == Second \in Nat \ {0} /\ Half \in Nat \ {0}

(* The product in two's complement. *)
Seconds(n) == ((n * Second + Half) % (2 * Half)) - Half

(* The product fits. *)
Fits(n) == n * Second < Half
=============================================================================
