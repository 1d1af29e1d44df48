---------------------------- MODULE DebugSession ----------------------------
(***************************************************************************)
(* The tools that talk to a debugged guest: vm_debug_registers, _step,     *)
(* _disassemble, _breakpoint_set, _breakpoint_delete, _breakpoint_list and *)
(* _continue, each a `gdb -batch` process of its own with a breakpoint     *)
(* table of its own, and vm_debug_serial, which the server does itself on  *)
(* a Unix socket.                                                          *)
(*                                                                         *)
(* The stub of a VM serves one gdb at a time.  Attaching halts the guest,  *)
(* exiting detaches and lets it run; gdb writes breakpoints into the       *)
(* guest's code only while it lets the guest run.  A gdb outlives the      *)
(* server that started it.                                                 *)
(***************************************************************************)
EXTENDS Runner, Duration, Sequences

CONSTANTS
  Calls,       \* the calls, each made once
  Requests,    \* what a call may ask for
  Locations,   \* code locations
  Free,        \* "nobody is attached to the stub"
  MaxOutside   \* bound: times the VM is stopped or started

GdbTools ==
  {"registers", "step", "disassemble", "breakpoint_set", "breakpoint_delete",
   "breakpoint_list", "continue"}
Commands ==
  {"set architecture", "target remote", "info registers", "stepi", "disassemble", "break",
   "info breakpoints", "delete", "continue"}

(* complete: the target, location or socket path that the tool needs is    *)
(* there.                                                                  *)
Request ==
  [tool : GdbTools \cup {"serial"}, complete : BOOLEAN, location : Locations,
   all : BOOLEAN, steps : 1..2, send : BOOLEAN, timeout : Int]

ASSUME SessionAssumption ==
  /\ Requests # {} /\ Requests \subseteq Request
  /\ Free \notin Calls
  /\ Fits(2)
  /\ MaxOutside \in Nat

VARIABLES
  guest,    \* power, halted by the stub, locations that hold a breakpoint
  stub,     \* the call whose gdb is attached, or Free
  call,     \* the calls
  killed,   \* history: a gdb was ended while it was attached
  up,       \* the server process is alive
  outside   \* stops and starts of the VM so far

vars == <<guest, stub, call, killed, up, outside>>

Phases == {"idle", "spawn", "gdb", "dial", "write", "read", "answered", "lost"}

(***************************************************************************)
(* gdb: the process lives.  todo, resumed, table, listed, worked: its      *)
(* commands to come, whether it waits for the guest, its breakpoints, what *)
(* it printed of them, whether its last command worked.  left, waited:     *)
(* ticks to the deadline of the socket, and since it was set.  due: what   *)
(* earlier calls said they set.                                            *)
(***************************************************************************)
At(phase, r) ==
  [asks |-> r, phase |-> phase, gdb |-> FALSE, todo |-> <<>>, resumed |-> FALSE,
   table |-> {}, listed |-> {}, worked |-> TRUE, left |-> 0, waited |-> 0,
   due |-> {}, cancelled |-> FALSE, reply |-> "none"]

Init ==
  /\ guest = [on |-> TRUE, halted |-> FALSE, patched |-> {}]
  /\ stub = Free
  /\ call = [c \in Calls |-> At("idle", CHOOSE r \in Requests : TRUE)]
  /\ killed = FALSE
  /\ up = TRUE
  /\ outside = 0

-----------------------------------------------------------------------------
(* What a request becomes. *)

(* Plausible bug: the product is used as it is. *)
Timeout_Unchecked(n) == IF n = 0 THEN 2 * Second ELSE Seconds(n)

(* Two seconds unless the product is positive. *)
Timeout(n) == IF Seconds(n) <= 0 THEN 2 * Second ELSE Seconds(n)

(* Plausible bug: a breakpoint is set and the guest sent on at once. *)
Script_SetAndGo(r) ==
  IF r.tool = "breakpoint_set"
  THEN <<"set architecture", "target remote", "break", "continue", "info breakpoints">>
  ELSE <<"set architecture", "target remote", "info registers">>

(* The -ex commands of the gdb that serves a request. *)
Script(r) ==
  <<"set architecture", "target remote">> \o
  CASE r.tool = "registers" -> <<"info registers">>
    [] r.tool = "step" ->
         [i \in 1..r.steps |-> "stepi"] \o <<"disassemble", "info registers">>
    [] r.tool = "disassemble" -> <<"disassemble">>
    [] r.tool = "breakpoint_set" -> <<"break", "info breakpoints">>
    [] r.tool = "breakpoint_delete" -> <<"delete", "info breakpoints">>
    [] r.tool = "breakpoint_list" -> <<"info breakpoints">>
    [] r.tool = "continue" -> <<"continue", "info registers">>

-----------------------------------------------------------------------------
(* The server. *)

Active(k) == k.phase \in {"spawn", "gdb", "dial", "write", "read"}

(* What the calls answered so far say is set. *)
SetSoFar ==
  {call[d].asks.location : d \in
     {e \in Calls : /\ call[e].asks.tool = "breakpoint_set"
                    /\ call[e].reply = "ok"
                    /\ call[e].asks.location \in call[e].listed}}

Entered(r) ==
  CASE ~r.complete -> [At("answered", r) EXCEPT !.reply = "error"]
    [] r.complete /\ r.tool = "serial" ->
         [At("dial", r) EXCEPT !.left = Timeout(r.timeout)]
    [] r.complete /\ r.tool # "serial" ->
         [At("spawn", r) EXCEPT !.todo = Script(r), !.due = SetSoFar]

Enter(c) ==
  \E r \in Requests :
    /\ up
    /\ call[c].phase = "idle"
    /\ call' = [call EXCEPT ![c] = Entered(r)]
    /\ UNCHANGED <<guest, stub, killed, up, outside>>

Spawn(c) ==
  /\ up
  /\ call[c].phase = "spawn"
  /\ ~call[c].cancelled
  /\ call' = [call EXCEPT ![c].phase = "gdb", ![c].gdb = TRUE]
  /\ UNCHANGED <<guest, stub, killed, up, outside>>

(* What a process or a socket kept is gone. *)
Over(k) == [k EXCEPT !.gdb = FALSE, !.todo = <<>>, !.resumed = FALSE, !.table = {}, !.left = 0]

Replies(c, k, reply) ==
  call' = [call EXCEPT ![c] = [Over(k) EXCEPT !.phase = "answered", !.reply = reply]]

(* No process: gdb is missing, or the context was cancelled before. *)
SpawnFails(c) ==
  /\ up
  /\ call[c].phase = "spawn"
  /\ Replies(c, call[c], "error")
  /\ UNCHANGED <<guest, stub, killed, up, outside>>

-----------------------------------------------------------------------------
(* gdb, which runs the commands in order and goes on after one that fails. *)

Runs(c, cmd) ==
  /\ call[c].gdb
  /\ call[c].todo # <<>>
  /\ Head(call[c].todo) = cmd
  /\ ~call[c].resumed

Ran(c, k, worked) ==
  /\ call' = [call EXCEPT ![c] = [k EXCEPT !.todo = Tail(k.todo), !.worked = worked]]
  /\ UNCHANGED <<killed, up, outside>>

(* Plausible bug: gdb is started without -batch. *)
Exit_Interactive(c) ==
  /\ call[c].gdb /\ call[c].todo = <<>> /\ call[c].cancelled
  /\ UNCHANGED vars

Attach(c) ==
  /\ Runs(c, "target remote")
  /\ \/ /\ stub = Free
        /\ guest.on
        /\ stub' = c
        /\ guest' = [guest EXCEPT !.halted = TRUE]
        /\ Ran(c, call[c], TRUE)
     \/ UNCHANGED <<guest, stub>> /\ Ran(c, call[c], FALSE)

Break(c) ==
  /\ Runs(c, "break")
  /\ UNCHANGED <<guest, stub>>
  /\ \/ /\ stub = c
        /\ Ran(c, [call[c] EXCEPT !.table = {call[c].asks.location}], TRUE)
     \/ Ran(c, call[c], FALSE)

(* A number is one of this gdb's own table. *)
Delete(c) ==
  /\ Runs(c, "delete")
  /\ UNCHANGED <<guest, stub>>
  /\ Ran(c, [call[c] EXCEPT !.table = {}], call[c].asks.all \/ call[c].table # {})

ListTable(c) ==
  /\ Runs(c, "info breakpoints")
  /\ UNCHANGED <<guest, stub>>
  /\ Ran(c, [call[c] EXCEPT !.listed = call[c].table], TRUE)

(* Registers, code, steps of one instruction: nothing stays.  Only the     *)
(* architecture needs no target; gdb may not know it.                      *)
Look(c) ==
  \E cmd \in {"set architecture", "info registers", "disassemble", "stepi"} :
    /\ Runs(c, cmd)
    /\ UNCHANGED <<guest, stub>>
    /\ \E worked \in BOOLEAN :
         (worked => stub = c \/ cmd = "set architecture") /\ Ran(c, call[c], worked)

Continue(c) ==
  /\ Runs(c, "continue")
  /\ \/ /\ stub = c
        /\ guest' = [guest EXCEPT !.halted = FALSE, !.patched = @ \cup call[c].table]
        /\ call' = [call EXCEPT ![c].resumed = TRUE]
        /\ UNCHANGED <<stub, killed, up, outside>>
     \/ /\ stub # c
        /\ UNCHANGED <<guest, stub>>
        /\ Ran(c, call[c], FALSE)

(* The guest runs into a breakpoint, or the connection is gone. *)
Stops(c) ==
  /\ call[c].gdb
  /\ call[c].resumed
  /\ \/ /\ stub = c
        /\ guest.patched \cap call[c].table # {}
        /\ guest' = [guest EXCEPT !.halted = TRUE, !.patched = @ \ call[c].table]
        /\ Ran(c, [call[c] EXCEPT !.resumed = FALSE], TRUE)
     \/ /\ stub # c
        /\ UNCHANGED guest
        /\ Ran(c, [call[c] EXCEPT !.resumed = FALSE], FALSE)
  /\ UNCHANGED stub

(* Detaching takes the breakpoints out and lets the guest run. *)
LetGo(c) ==
  IF stub = c
  THEN /\ stub' = Free
       /\ guest' = [guest EXCEPT !.halted = FALSE, !.patched = @ \ call[c].table]
  ELSE UNCHANGED <<guest, stub>>

Ended(c, end) ==
  IF call[c].phase = "gdb"
  THEN Replies(c, call[c], IF RunErr(end, call[c].cancelled) = "nil" THEN "ok" ELSE "error")
  ELSE call' = [call EXCEPT ![c] = Over(@)]

(* gdb exits non-zero at most if its last command failed. *)
Exit(c) ==
  /\ call[c].gdb
  /\ call[c].todo = <<>>
  /\ LetGo(c)
  /\ \E end \in {"exit0", "failed"} :
       (end = "failed" => ~call[c].worked) /\ Ended(c, end)
  /\ UNCHANGED <<killed, up, outside>>

(* Plausible bug: exec.Command for exec.CommandContext. *)
Kill_Never(c) == call[c].gdb /\ call[c].phase = "lost" /\ UNCHANGED vars

(***************************************************************************)
(* A cancelled context kills gdb; one whose server is gone may end on a    *)
(* closed pipe.  The stub drops the connection, the breakpoints stay where *)
(* they are, and the guest may stay halted.                                *)
(***************************************************************************)
Kill(c) ==
  /\ call[c].gdb
  /\ call[c].cancelled \/ call[c].phase = "lost"
  /\ IF stub = c
     THEN /\ stub' = Free
          /\ \E halted \in {guest.halted, FALSE} : guest' = [guest EXCEPT !.halted = halted]
          /\ killed' = TRUE
     ELSE UNCHANGED <<guest, stub, killed>>
  /\ Ended(c, "killed")
  /\ UNCHANGED <<up, outside>>

GdbSteps(c) ==
  \/ Attach(c) \/ Break(c) \/ Delete(c) \/ ListTable(c) \/ Look(c)
  \/ Continue(c) \/ Stops(c) \/ Exit(c)

-----------------------------------------------------------------------------
(* vm_debug_serial. *)

(* Connected: the time starts anew.  A dial is given up at its time-out,   *)
(* refused, or cancelled.                                                  *)
Dial(c) ==
  /\ up
  /\ call[c].phase = "dial"
  /\ \/ call' = [call EXCEPT ![c].phase = IF call[c].asks.send THEN "write" ELSE "read",
                             ![c].left = Timeout(call[c].asks.timeout), ![c].waited = 0]
     \/ Replies(c, call[c], "error")
  /\ UNCHANGED <<guest, stub, killed, up, outside>>

Write(c) ==
  /\ up
  /\ call[c].phase = "write"
  /\ \/ call[c].left > 0 /\ call' = [call EXCEPT ![c].phase = "read"]
     \/ Replies(c, call[c], "error")
  /\ UNCHANGED <<guest, stub, killed, up, outside>>

(* Plausible bug: SetDeadline is left out. *)
Read_NoDeadline(c) ==
  /\ up
  /\ call[c].phase = "read"
  /\ \E reply \in {"data", "closed"} : Replies(c, call[c], reply)
  /\ UNCHANGED <<guest, stub, killed, up, outside>>

(***************************************************************************)
(* One read, whose error is dropped: some bytes, or none because the       *)
(* deadline passed or the other side closed.  What is not read is lost.    *)
(***************************************************************************)
Read(c) ==
  /\ up
  /\ call[c].phase = "read"
  /\ \/ call[c].left > 0 /\ \E reply \in {"data", "closed"} : Replies(c, call[c], reply)
     \/ call[c].left <= 0 /\ Replies(c, call[c], "silent")
  /\ UNCHANGED <<guest, stub, killed, up, outside>>

Tick(c) ==
  /\ call[c].phase \in {"dial", "write", "read"}
  /\ call[c].left > 0
  /\ call' = [call EXCEPT ![c].left = @ - 1, ![c].waited = @ + 1]
  /\ UNCHANGED <<guest, stub, killed, up, outside>>

-----------------------------------------------------------------------------
Cancel(c) ==
  /\ up
  /\ Active(call[c]) /\ ~call[c].cancelled
  /\ call' = [call EXCEPT ![c].cancelled = TRUE]
  /\ UNCHANGED <<guest, stub, killed, up, outside>>

(* The gdb processes stay. *)
ServerStops ==
  /\ up
  /\ up' = FALSE
  /\ call' = [c \in Calls |->
                IF Active(call[c]) THEN [call[c] EXCEPT !.phase = "lost"] ELSE call[c]]
  /\ UNCHANGED <<guest, stub, killed, outside>>

(* The VM is stopped, or started. *)
Power ==
  /\ outside < MaxOutside
  /\ guest' = [on |-> ~guest.on, halted |-> FALSE, patched |-> {}]
  /\ stub' = Free
  /\ outside' = outside + 1
  /\ UNCHANGED <<call, killed, up>>

Next ==
  \/ \E c \in Calls :
       \/ Enter(c) \/ Spawn(c) \/ SpawnFails(c) \/ GdbSteps(c) \/ Kill(c)
       \/ Dial(c) \/ Write(c) \/ Read(c) \/ Tick(c) \/ Cancel(c)
  \/ Power
  \/ ServerStops

Spec == Init /\ [][Next]_vars

(***************************************************************************)
(* Fairness.  The server starts the process, time passes, an expired       *)
(* deadline ends a dial, a write and a read, a cancelled context kills     *)
(* gdb, and gdb gets its commands done; that a resumed guest stops is not  *)
(* asked, nor that anybody writes to the serial line.                      *)
(***************************************************************************)
GoesOn(c) ==
  \/ Spawn(c) \/ SpawnFails(c) \/ Tick(c)
  \/ /\ Dial(c) \/ Write(c) \/ Read(c)
     /\ call[c].left <= 0 /\ call'[c].reply \in {"error", "silent"}
  \/ call[c].phase # "lost" /\ Kill(c)
  \/ call[c].gdb /\ ~call[c].resumed /\ GdbSteps(c)

FairSpec == Spec /\ \A c \in Calls : WF_vars(GoesOn(c))

-----------------------------------------------------------------------------
(* Properties. *)

TypeOK ==
  /\ guest \in [on : BOOLEAN, halted : BOOLEAN, patched : SUBSET Locations]
  /\ stub \in Calls \cup {Free}
  /\ \A c \in Calls :
       LET k == call[c]
       IN  /\ k.asks \in Request
           /\ k.phase \in Phases
           /\ k.todo \in Seq(Commands)
           /\ k.table \subseteq Locations /\ k.listed \subseteq Locations
           /\ k.left \in 0..Half /\ k.waited \in 0..2 * Half
           /\ k.reply \in {"none", "ok", "error", "data", "closed", "silent"}
           /\ k.gdb => k.phase \in {"gdb", "lost"}
  /\ killed \in BOOLEAN /\ up \in BOOLEAN
  /\ outside \in 0..MaxOutside

(***************************************************************************)
(* The guest's code holds a breakpoint only while a gdb that knows it is   *)
(* attached: no call, however it is cancelled or orphaned, leaves a trap   *)
(* in the guest that nothing will ever take out (extra_ops.go, the command *)
(* lists of the breakpoint and continue tools).                            *)
(***************************************************************************)
NoTrapIsLeft ==
  guest.patched # {} => stub # Free /\ guest.patched \subseteq call[stub].table

(***************************************************************************)
(* "(no data received within timeout)" is told of an open, silent socket   *)
(* only after the time asked for, whenever that fits a Duration, and after *)
(* some time otherwise: no input turns the wait into a poll.               *)
(***************************************************************************)
SilenceWasWaitedFor ==
  \A c \in Calls :
    call[c].reply = "silent" =>
      LET n == call[c].asks.timeout
      IN  /\ call[c].waited > 0
          /\ n > 0 /\ Fits(n) => call[c].waited = n * Second

(* Every call is answered in its own time, but a continue.                 *)
SessionsAreAnswered ==
  \A c \in Calls :
    Active(call[c]) /\ call[c].asks.tool # "continue"
      ~> call[c].phase \in {"answered", "lost"}

(* A cancelled call is answered, a continue no less than the others.       *)
CancelledIsAnswered ==
  \A c \in Calls : call[c].cancelled ~> call[c].phase \in {"answered", "lost"}

(***************************************************************************)
(* A guest that a call halted runs again, unless a gdb was killed while it *)
(* was attached: every gdb comes to its end and detaches, also one whose   *)
(* server is gone.                                                         *)
(***************************************************************************)
GuestRunsAgain == guest.halted ~> ~guest.halted \/ killed

(***************************************************************************)
(* What the source says of the program, and the code does not do.          *)
(***************************************************************************)

(* "DebugListBreakpoints lists all active breakpoints on target"           *)
(* (extra_ops.go): those that an earlier call set and reported, if nobody  *)
(* deleted one since and the VM was not restarted.                         *)
ListIsComplete ==
  \A c \in Calls :
    /\ call[c].asks.tool = "breakpoint_list"
    /\ call[c].reply = "ok" /\ call[c].worked
    /\ \A d \in Calls : call[d].phase # "idle" => call[d].asks.tool # "breakpoint_delete"
    /\ outside = 0
    => call[c].due \subseteq call[c].listed
=============================================================================
