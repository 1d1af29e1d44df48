--------------------------- MODULE MCKernelDebug ---------------------------
(* KernelDebug on a small instance: two calls of any tools, on any VM.     *)
EXTENDS KernelDebug, TLC

(* One request for each way through the handlers. *)
EveryRequest ==
  {r \in Request :
     CASE r.tool = "vm_configure_debugger" ->
            r.mode \in {"net", "unsupported"} /\ ~r.socket /\ ~r.bcdedit
       [] r.tool = "vm_guest_debugger" ->
            r.mode = "net" /\ ~r.socket /\ ~r.bcdedit /\ r.flags = "off"
       [] OTHER ->
            /\ r.flags = "off"
            /\ r.socket => r.mode = "serial" /\ ~r.bcdedit
            /\ r.bcdedit => r.mode \in {"net", "serial"}}

Symmetries == Permutations(Calls)
=============================================================================
