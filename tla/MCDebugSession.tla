--------------------------- MODULE MCDebugSession ---------------------------
(* DebugSession on a small instance: one guest, one code location, and     *)
(* a time-out that fits a Duration of three bits and one that does not.    *)
EXTENDS DebugSession

CONSTANT l1

(* One request for each way through the handlers; registers and            *)
(* disassemble go the way of step.                                         *)
EveryRequest ==
  LET base == [tool |-> "serial", complete |-> TRUE, location |-> l1, all |-> FALSE,
               steps |-> 1, send |-> FALSE, timeout |-> 5]
  IN  {base, [base EXCEPT !.complete = FALSE], [base EXCEPT !.send = TRUE, !.timeout = 3]}
        \cup {[base EXCEPT !.tool = t] : t \in GdbTools \ {"registers", "disassemble"}}
=============================================================================
