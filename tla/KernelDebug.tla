---------------------------- MODULE KernelDebug ----------------------------
(***************************************************************************)
(* vm_configure_debugger, vm_guest_debugger and vm_configure_kernel_debug. *)
(*                                                                         *)
(* Setting a guest up for kernel debugging touches three places: the debug *)
(* flags of the VM, which the next boot reads; its serial ports; and,      *)
(* through bcdedit inside a Windows guest, the boot settings of the guest. *)
(* vm_configure_kernel_debug goes from one to the next and drops the       *)
(* errors of the first two and of the Info it starts with.                 *)
(*                                                                         *)
(* A command takes effect where its process ends.                          *)
(***************************************************************************)
EXTENDS Runner, Sequences, Naturals

CONSTANTS
  Calls,      \* the calls, each made once
  Requests,   \* what a call may ask for
  MaxPorts,   \* serial ports a VM can have
  MaxPower    \* bound: times the VM is started or stopped

Modes == {"net", "serial", "gdb", "unsupported"}
Protocols == {"gdb", "kdbg"}

(* The socket given, or the default: in the bundle, or in /tmp without Info. *)
Sockets == {"given", "bundle", "tmp"}

(* Guests by the name Info gives their system. *)
Systems == {"windows", "darwin", "linux"}

(***************************************************************************)
(* mode, socket (one was given) and bcdedit matter to                      *)
(* vm_configure_kernel_debug, flags to vm_configure_debugger: what it is   *)
(* to write.  To that tool an unsupported mode is a protocol that it does  *)
(* not know.                                                               *)
(***************************************************************************)
Request ==
  [tool : {"vm_configure_debugger", "vm_guest_debugger", "vm_configure_kernel_debug"},
   mode : Modes, socket : BOOLEAN, bcdedit : BOOLEAN, flags : Protocols \cup {"off"}]

ASSUME DebugAssumption ==
  /\ Requests \subseteq Request
  /\ MaxPorts \in Nat
  /\ MaxPower \in Nat

VARIABLES
  vm,      \* the VM: power, system, debug flags, serial ports in order
  guest,   \* the boot settings inside a Windows guest
  call,    \* the calls
  did,     \* history: the commands that took effect
  tried,   \* history: the commands whose process ended, or never began
  missed,  \* history: the calls whose bcdedit was never started
  up,      \* the server process is alive
  power    \* starts and stops of the VM so far

vars == <<vm, guest, call, did, tried, missed, up, power>>

Ops == {"flags", "attach", "info", "port", "bcdedit"}

VM == [running : BOOLEAN, os : Systems, flags : Protocols \cup {"off"},
       stub : Protocols \cup {"off"}, ports : UNION {[1..n -> Sockets] : n \in 0..MaxPorts}]

Guest == [debug : BOOLEAN, settings : {"none", "serial", "net"}]

(***************************************************************************)
(* known: Info answered.  told: what KernelDebugResult says of bcdedit,    *)
(* BcdeditDone, BcdeditError, or neither.                                  *)
(***************************************************************************)
Call ==
  [asks : Request, pc : Ops \cup {"idle", "answered", "lost"},
   running : BOOLEAN, cancelled : BOOLEAN, known : BOOLEAN, socket : Sockets,
   told : {"nothing", "applied", "error"}, reply : {"none", "ok", "error"}]

At(pc, r) ==
  [asks |-> r, pc |-> pc, running |-> FALSE, cancelled |-> FALSE, known |-> FALSE,
   socket |-> "given", told |-> "nothing", reply |-> "none"]

Init ==
  /\ \E os \in Systems, running \in BOOLEAN :
       vm = [running |-> running, os |-> os, flags |-> "off",
             stub |-> "off", ports |-> <<>>]
  /\ guest = [debug |-> FALSE, settings |-> "none"]
  /\ call = [c \in Calls |-> At("idle", CHOOSE r \in Request : TRUE)]
  /\ did = {} /\ tried = {} /\ missed = {}
  /\ up = TRUE
  /\ power = 0

-----------------------------------------------------------------------------
(* Parallels and the guest. *)

(* Plausible bug: the argument enable is not looked at. *)
FlagsOf_Enabled(k) == "gdb"

(* What the flags command of a call writes: gdb mode asks for the GDB stub. *)
FlagsOf(k) == IF k.asks.tool = "vm_configure_debugger" THEN k.asks.flags ELSE "gdb"

(* cmd.exe runs `bcdedit /debug on && bcdedit /dbgsettings ...`; whatever  *)
(* the request said of the guest's system, only Windows has it.            *)
BcdeditWorks(k) ==
  /\ vm.running /\ vm.os = "windows"
  /\ guest' = [debug |-> TRUE,
               settings |-> IF k.asks.mode = "serial" THEN "serial" ELSE "net"]
  /\ UNCHANGED vm

BcdeditBreaks ==
  /\ vm.running /\ vm.os = "windows"
  /\ guest' = [guest EXCEPT !.debug = TRUE]
  /\ UNCHANGED vm

Does(c, op) ==
  LET k == call[c]
  IN  /\ CASE op = "flags" -> vm' = [vm EXCEPT !.flags = FlagsOf(k)] /\ UNCHANGED guest
           [] op = "port" ->
                /\ Len(vm.ports) < MaxPorts
                /\ vm' = [vm EXCEPT !.ports = Append(vm.ports, k.socket)]
                /\ UNCHANGED guest
           [] op = "bcdedit" -> BcdeditWorks(k)
           [] op = "attach" -> vm.running /\ vm.stub # "off" /\ UNCHANGED <<vm, guest>>
           [] op = "info" -> UNCHANGED <<vm, guest>>
      /\ did' = did \cup {[call |-> c, op |-> op]}

(* The VM boots, with the flags as they are, or is shut down. *)
Power ==
  /\ power < MaxPower
  /\ vm' = [vm EXCEPT !.running = ~vm.running,
                      !.stub = IF vm.running THEN "off" ELSE vm.flags]
  /\ power' = power + 1
  /\ UNCHANGED <<guest, call, did, tried, missed, up>>

-----------------------------------------------------------------------------
(* The server. *)

Active(k) == k.pc \in Ops

(* The first command.  A bad protocol is refused, a bad mode is not yet.   *)
Entered(r) ==
  CASE r.tool = "vm_configure_debugger" /\ r.mode = "unsupported" ->
         [At("answered", r) EXCEPT !.reply = "error"]
    [] r.tool = "vm_configure_debugger" /\ r.mode # "unsupported" -> At("flags", r)
    [] r.tool = "vm_guest_debugger" -> At("attach", r)
    [] OTHER -> At("info", r)

Enter(c) ==
  \E r \in Requests :
    /\ up
    /\ call[c].pc = "idle"
    /\ call' = [call EXCEPT ![c] = Entered(r)]
    /\ UNCHANGED <<vm, guest, did, tried, missed, up, power>>

Spawn(c) ==
  /\ up
  /\ Active(call[c]) /\ ~call[c].running /\ ~call[c].cancelled
  /\ call' = [call EXCEPT ![c].running = TRUE]
  /\ UNCHANGED <<vm, guest, did, tried, missed, up, power>>

(* The process of op ends; a killed one may have done its work. *)
Ended(c, op, end) ==
  LET k == call[c]
  IN  /\ up
      /\ k.pc = op
      /\ end = "notStarted" <=> ~k.running
      /\ end = "killed" => k.cancelled
      /\ end = "notExecuted" => op = "bcdedit"
      /\ \/ end \in {"exit0", "killed"} /\ Does(c, op)
         \/ end \in {"failed", "killed"} /\ op = "bcdedit" /\ BcdeditBreaks /\ UNCHANGED did
         \/ end # "exit0" /\ UNCHANGED <<vm, guest, did>>
      /\ tried' = tried \cup {[call |-> c, op |-> op]}
      /\ missed' = IF op = "bcdedit" /\ end = "notStarted" THEN missed \cup {c} ELSE missed
      /\ UNCHANGED <<up, power>>

GoOn(c, k, pc) == call' = [call EXCEPT ![c] = [k EXCEPT !.pc = pc, !.running = FALSE]]
Reply(c, k, reply) ==
  call' = [call EXCEPT ![c] = [k EXCEPT !.pc = "answered", !.running = FALSE, !.reply = reply]]

(* ConfigureDebugger, as a tool of its own or as a step of gdb mode, where *)
(* the port is added next whatever came of it.                             *)
FlagsReturns(c) ==
  \E end \in Ends :
    /\ Ended(c, "flags", end)
    /\ IF call[c].asks.tool = "vm_configure_debugger"
       THEN Reply(c, call[c], IF RunErr(end, call[c].cancelled) = "nil" THEN "ok" ELSE "error")
       ELSE GoOn(c, call[c], "port")

AttachReturns(c) ==
  \E end \in Ends :
    /\ Ended(c, "attach", end)
    /\ Reply(c, call[c], IF RunErr(end, call[c].cancelled) = "nil" THEN "ok" ELSE "error")

(* The socket to report and to configure, by whether the bundle is known. *)
SocketOf(r, known) == CASE r.socket -> "given" [] ~r.socket /\ known -> "bundle" [] OTHER -> "tmp"

(* Plausible bug: the mode is not checked. *)
Dispatch_AnyMode(c, k) == GoOn(c, k, IF k.asks.mode = "serial" THEN "port" ELSE k.asks.mode)

(* Plausible bug: the guest is set up before the host. *)
Dispatch_GuestFirst(c, k) ==
  IF k.asks.mode = "serial" /\ k.asks.bcdedit THEN GoOn(c, k, "bcdedit") ELSE GoOn(c, k, "port")

(* Where the mode leads; an unsupported one is an error. *)
Dispatch(c, k) ==
  CASE k.asks.mode = "serial" -> GoOn(c, k, "port")
    [] k.asks.mode = "gdb" -> GoOn(c, k, "flags")
    [] k.asks.mode = "net" /\ k.asks.bcdedit -> GoOn(c, k, "bcdedit")
    [] k.asks.mode = "net" /\ ~k.asks.bcdedit -> Reply(c, k, "ok")
    [] k.asks.mode = "unsupported" -> Reply(c, k, "error")

(* The error of Info is dropped: without it system and home are unknown. *)
InfoReturns(c) ==
  \E end \in Ends, known \in BOOLEAN :
    /\ Ended(c, "info", end)
    /\ known => RunErr(end, call[c].cancelled) = "nil"
    /\ Dispatch(c, [call[c] EXCEPT !.known = known, !.socket = SocketOf(call[c].asks, known)])

(* Plausible bug: the error of the second step is returned. *)
PortReturns_Fails(c) ==
  \E end \in Ends :
    /\ Ended(c, "port", end)
    /\ Reply(c, call[c], IF RunErr(end, call[c].cancelled) = "nil" THEN "ok" ELSE "error")

(* In serial mode bcdedit follows, if the name of the system is known and  *)
(* has "win" in it; "darwin" has.                                          *)
PortReturns(c) ==
  \E end \in Ends :
    LET r == call[c].asks
    IN  /\ Ended(c, "port", end)
        /\ IF r.mode = "serial" /\ r.bcdedit /\ call[c].known
                /\ vm.os \in {"windows", "darwin"}
           THEN GoOn(c, call[c], "bcdedit") ELSE Reply(c, call[c], "ok")

(* Plausible bug: the exit code of the guest command is not looked at. *)
BcdeditReturns_NoExitCode(c) ==
  \E end \in Ends :
    /\ Ended(c, "bcdedit", end)
    /\ Reply(c, [call[c] EXCEPT
                   !.told = IF ExecErr(end, call[c].cancelled) = "nil" THEN "applied" ELSE "error"],
             "ok")

(* BcdeditError is the guest's stderr: if that is empty, the reply says    *)
(* nothing of bcdedit.                                                     *)
BcdeditReturns(c) ==
  \E end \in Ends, stderr \in BOOLEAN :
    /\ Ended(c, "bcdedit", end)
    /\ Reply(c, [call[c] EXCEPT
                   !.told = CASE ExecSucceeds(end, call[c].cancelled) -> "applied"
                              [] ExecErr(end, call[c].cancelled) # "nil" -> "error"
                              [] OTHER -> IF stderr THEN "error" ELSE "nothing"],
             "ok")

Cancel(c) ==
  /\ up
  /\ Active(call[c]) /\ ~call[c].cancelled
  /\ call' = [call EXCEPT ![c].cancelled = TRUE]
  /\ UNCHANGED <<vm, guest, did, tried, missed, up, power>>

ServerStops ==
  /\ up
  /\ up' = FALSE
  /\ call' = [c \in Calls |->
                IF Active(call[c]) THEN [call[c] EXCEPT !.pc = "lost"] ELSE call[c]]
  /\ UNCHANGED <<vm, guest, did, tried, missed, power>>

Returns(c) ==
  \/ FlagsReturns(c) \/ AttachReturns(c) \/ InfoReturns(c)
  \/ PortReturns(c) \/ BcdeditReturns(c)

Next ==
  \/ \E c \in Calls : Enter(c) \/ Spawn(c) \/ Returns(c) \/ Cancel(c)
  \/ Power
  \/ ServerStops

Spec == Init /\ [][Next]_vars

-----------------------------------------------------------------------------
(* Properties. *)

TypeOK ==
  /\ vm \in VM
  /\ guest \in Guest
  /\ call \in [Calls -> Call]
  /\ did \subseteq [call : Calls, op : Ops]
  /\ tried \subseteq [call : Calls, op : Ops]
  /\ missed \subseteq Calls
  /\ up \in BOOLEAN
  /\ power \in 0..MaxPower

Did(c, op) == [call |-> c, op |-> op] \in did

(***************************************************************************)
(* "Guest bcdedit status: Applied successfully" is told exactly when both  *)
(* bcdedit commands worked in the guest.  Left out are cancelled calls and *)
(* those whose prlctl could not be started, which ExecOS cannot tell from  *)
(* a guest command that exited 0.                                          *)
(***************************************************************************)
AppliedIsTrue ==
  \A c \in Calls :
    call[c].pc = "answered" /\ ~call[c].cancelled /\ c \notin missed =>
      (call[c].told = "applied" <=> Did(c, "bcdedit"))

(* An error, of a bad mode or of a command that failed, means that nothing *)
(* of the host or the guest was changed, unless the client cancelled.      *)
ErrorChangesNothing ==
  \A c \in Calls :
    call[c].reply = "error" /\ ~call[c].cancelled =>
      \A op \in {"flags", "port", "bcdedit"} : ~Did(c, op)

(***************************************************************************)
(* No guest is switched to a serial line by a call that had not yet asked  *)
(* for the port: a server that dies in between leaves a port that nobody   *)
(* uses, never a guest that waits for a debugger on a port that no         *)
(* command was ever sent for.                                              *)
(***************************************************************************)
PortComesFirst ==
  guest.settings = "serial" =>
    \E c \in Calls :
      /\ Did(c, "bcdedit") /\ call[c].asks.mode = "serial"
      /\ [call |-> c, op |-> "port"] \in tried

(***************************************************************************)
(* The debugger is open only where somebody asked: flags are those some    *)
(* call wanted, and gdb mode, or an enabled debugger, is the only one that *)
(* turns them on; a VM whose calls all disabled it has none.               *)
(***************************************************************************)
FlagsAsAsked ==
  vm.flags # "off" =>
    \E c \in Calls :
      /\ Did(c, "flags")
      /\ \/ call[c].asks.tool = "vm_configure_debugger" /\ call[c].asks.flags = vm.flags
         \/ call[c].asks.mode = "gdb" /\ vm.flags = "gdb"
              /\ call[c].asks.tool = "vm_configure_kernel_debug"
=============================================================================
