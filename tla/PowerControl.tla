---------------------------- MODULE PowerControl ----------------------------
(***************************************************************************)
(* The VM lifecycle tools: vm_start, vm_stop, vm_restart, vm_suspend,      *)
(* vm_resume, vm_delete, and the rename of vm_configure.                   *)
(*                                                                         *)
(* The server keeps no VM state.  A tool call is a short sequence of       *)
(* prlctl processes; the SDK runs the calls concurrently, each under a     *)
(* context its client may cancel, and nothing serialises them.  The state  *)
(* they act on belongs to the Parallels dispatcher, which resolves a name  *)
(* or UUID afresh for every process and is changed by the guest and by the *)
(* desktop user as well.                                                   *)
(***************************************************************************)
EXTENDS Runner, Integers

CONSTANTS
  VMs,          \* UUIDs
  Names,        \* VM names
  Calls,        \* tool calls, each made once
  Tools,        \* the tools the calls use
  MaxExternal,  \* bound: changes made from outside the server
  NoVM          \* "no registered VM answers to this name or UUID"

AllTools ==
  {"start", "stop", "restart", "suspend", "resume", "delete", "configure"}

ASSUME PowerAssumption ==
  /\ Tools \subseteq AllTools
  /\ MaxExternal \in Nat
  /\ NoVM \notin VMs
  /\ VMs \cap Names = {}
  /\ Names # {}

VARIABLES
  state,       \* power state of every VM, as Parallels keeps it
  name,        \* its current name
  call,        \* the tool calls, as the server keeps them
  dispatcher,  \* requests Parallels accepted and has not performed
  landed,      \* history: the requests Parallels performed
  up,          \* the server process is alive
  external     \* changes made from outside so far

vars == <<state, name, call, dispatcher, landed, up, external>>

Ids == VMs \cup Names
AnyName == CHOOSE n \in Names : TRUE  \* a field not yet in use
Ops == {"start", "stop", "kill", "restart", "suspend", "resume", "delete",
        "rename", "find"}
PowerStates == {"unregistered", "stopped", "running", "paused", "suspended"}

(***************************************************************************)
(* phase: idle, ready (its next process is about to be spawned), running   *)
(* (the process runs), answered, or lost (the server died under it).       *)
(* op is the prlctl command of that process; err is the error variable of  *)
(* the client method, saw the Status that Delete read.                     *)
(***************************************************************************)
Call == [tool : AllTools, id : Ids, force : BOOLEAN, confirm : BOOLEAN,
         newName : Names,
         phase : {"idle", "ready", "running", "answered", "lost"},
         op : Ops, err : Errors, saw : PowerStates, cancelled : BOOLEAN,
         reply : Errors \cup {"none", "refused"}]

Request == [call : Calls, op : Ops, vm : VMs]

-----------------------------------------------------------------------------
(* Parallels: which requests it performs, and what they do. *)

(* Plausible bug: the first VM listed is taken, its UUID not compared. *)
Resolve_FirstListed(id) ==
  IF \E v \in VMs : state[v] # "unregistered"
  THEN CHOOSE v \in VMs : state[v] # "unregistered" ELSE NoVM

(* The VM a name or UUID stands for at this moment. *)
Resolve(id) ==
  IF \E v \in VMs : state[v] # "unregistered" /\ id \in {v, name[v]}
  THEN CHOOSE v \in VMs : state[v] # "unregistered" /\ id \in {v, name[v]}
  ELSE NoVM

FreeName(n, v) ==
  \A w \in VMs \ {v} : state[w] # "unregistered" => name[w] # n

(* Power states from which Parallels performs op. *)
AcceptedFrom(op) ==
  CASE op = "start" -> {"stopped", "suspended", "paused"}
    [] op \in {"stop", "restart"} -> {"running"}
    [] op = "kill" -> {"running", "paused"}
    [] op = "suspend" -> {"running", "paused"}
    [] op = "resume" -> {"suspended", "paused"}
    [] op = "delete" -> {"stopped", "suspended"}
    [] op = "rename" -> PowerStates \ {"unregistered"}
    [] OTHER -> {}

StateAfter(op, s) ==
  CASE op \in {"start", "restart", "resume"} -> "running"
    [] op \in {"stop", "kill"} -> "stopped"
    [] op = "suspend" -> "suspended"
    [] op = "delete" -> "unregistered"
    [] OTHER -> s

(* A request through the guest's ACPI may be honoured after prlctl gave up. *)
Graceful == {"stop", "restart"}

(* Rebooting or leaving "running" discards the pending ACPI requests. *)
WithoutAcpi(reqs, v) == {m \in reqs : ~(m.vm = v /\ m.op \in Graceful)}

-----------------------------------------------------------------------------
Init ==
  /\ state \in [VMs -> {"unregistered", "stopped", "running"}]
  /\ name \in [VMs -> Names]
  /\ \A v, w \in VMs :
       state[v] # "unregistered" /\ state[w] # "unregistered" /\ name[v] = name[w]
         => v = w
  /\ call = [c \in Calls |->
               [tool |-> "start", id |-> AnyName, force |-> FALSE,
                confirm |-> FALSE, newName |-> AnyName, phase |-> "idle",
                op |-> "find", err |-> "nil", saw |-> "unregistered",
                cancelled |-> FALSE, reply |-> "none"]]
  /\ dispatcher = {}
  /\ landed = {}
  /\ up = TRUE
  /\ external = 0

-----------------------------------------------------------------------------
(* The server. *)

(* Plausible bug: the tool's own name passed as the prlctl command. *)
FirstOp_ToolName(tool, force) == tool

FirstOp(tool, force) ==
  CASE tool = "stop" -> IF force THEN "kill" ELSE "stop"
    [] tool = "delete" -> "find"
    [] tool = "configure" -> "rename"
    [] OTHER -> tool

(* The fields of a call on entry to its handler. *)
Entered(t, i, f, y, n) ==
  [tool |-> t, id |-> i, force |-> f, confirm |-> y, newName |-> n,
   phase |-> "ready", op |-> FirstOp(t, f), err |-> "nil",
   saw |-> "unregistered", cancelled |-> FALSE, reply |-> "none"]

(* A handler is entered.  vmDelete refuses before any prlctl process runs. *)
Enter(c, t, i, f, y, n) ==
  /\ up
  /\ call[c].phase = "idle"
  /\ f => t = "stop"
  /\ y => t = "delete"
  /\ n # AnyName => t = "configure"
  /\ call' = [call EXCEPT ![c] =
                IF t = "delete" /\ ~y
                THEN [Entered(t, i, f, y, n) EXCEPT !.phase = "answered",
                                                    !.reply = "refused"]
                ELSE Entered(t, i, f, y, n)]
  /\ UNCHANGED <<state, name, dispatcher, landed, up, external>>

Invoke(c) ==
  \E t \in Tools, i \in Ids, f \in BOOLEAN, y \in BOOLEAN, n \in Names :
    Enter(c, t, i, f, y, n)

(* Plausible bug: the context is not looked at before the process starts. *)
Spawn_NoContext(c) ==
  /\ up
  /\ call[c].phase = "ready"
  /\ call' = [call EXCEPT ![c].phase = "running"]
  /\ dispatcher' = dispatcher \cup
       {[call |-> c, op |-> call[c].op, vm |-> v] : v \in {Resolve(call[c].id)} \ {NoVM}}
  /\ UNCHANGED <<state, name, landed, up, external>>

(* The next process of c starts; prlctl resolves the id and hands over. *)
Spawn(c) ==
  LET k == call[c]
  IN  /\ up
      /\ k.phase = "ready"
      /\ ~k.cancelled
      /\ call' = [call EXCEPT ![c].phase = "running"]
      /\ dispatcher' = IF k.op = "find" \/ Resolve(k.id) = NoVM THEN dispatcher
                       ELSE dispatcher \cup
                              {[call |-> c, op |-> k.op, vm |-> Resolve(k.id)]}
      /\ UNCHANGED <<state, name, landed, up, external>>

(* Parallels performs a request it holds. *)
Perform(m) ==
  /\ m \in dispatcher
  /\ state[m.vm] \in AcceptedFrom(m.op)
  /\ m.op = "rename" => FreeName(call[m.call].newName, m.vm)
  /\ state' = [state EXCEPT ![m.vm] = StateAfter(m.op, @)]
  /\ name' = IF m.op = "rename"
             THEN [name EXCEPT ![m.vm] = call[m.call].newName] ELSE name
  /\ dispatcher' = IF m.op = "rename" THEN dispatcher \ {m}
                   ELSE WithoutAcpi(dispatcher \ {m}, m.vm)
  /\ landed' = landed \cup {m}
  /\ UNCHANGED <<call, up, external>>

Mine(c) == {m \in dispatcher : m.call = c /\ m.op = call[c].op}
Landed(c) == \E m \in landed : m.call = c /\ m.op = call[c].op

(* Plausible bug: exec.Command for exec.CommandContext. *)
MayEnd_NoKill(c, end) ==
  CASE end = "notStarted" -> call[c].phase = "ready"
    [] end = "exit0" -> call[c].phase = "running" /\ (call[c].op = "find" \/ Landed(c))
    [] end = "failed" -> call[c].phase = "running" /\ ~Landed(c)
    [] OTHER -> FALSE

(* How the process of c may end.  A cancelled context keeps it from being  *)
(* spawned or kills it.                                                    *)
MayEnd(c, end) ==
  CASE end = "notStarted" -> call[c].phase = "ready"
    [] end = "killed" -> call[c].phase = "running" /\ call[c].cancelled
    [] end = "exit0" -> call[c].phase = "running" /\ (call[c].op = "find" \/ Landed(c))
    [] end = "failed" -> call[c].phase = "running" /\ ~Landed(c)
    [] OTHER -> FALSE

(* A request handed over outlives a killed process.  A refused request is  *)
(* dropped, but one that went through ACPI may linger after prlctl         *)
(* reported the time-out.                                                  *)
Ended(c, end) ==
  /\ up
  /\ MayEnd(c, end)
  /\ dispatcher' \in CASE end # "failed" -> {dispatcher}
                    [] end = "failed" /\ call[c].op \in Graceful ->
                         {dispatcher, dispatcher \ Mine(c)}
                    [] OTHER -> {dispatcher \ Mine(c)}

(* The call goes on with another prlctl command. *)
GoOn(c, op, err) ==
  call' = [call EXCEPT ![c] = [@ EXCEPT !.op = op, !.err = err, !.phase = "ready"]]

Reply(c, err) ==
  call' = [call EXCEPT ![c] = [@ EXCEPT !.phase = "answered", !.reply = err]]

(* Plausible bug: the graceful stop is tried again instead of --kill. *)
StopReturns_Retries(c) ==
  \E end \in Ends :
    LET r == RunErr(end, call[c].cancelled)
    IN  /\ call[c].op = "stop"
        /\ Ended(c, end)
        /\ IF r # "nil" THEN GoOn(c, "stop", r) ELSE Reply(c, r)
        /\ UNCHANGED <<state, name, landed, up, external>>

(* Plausible bug: the error of the graceful stop is dropped. *)
StopReturns_Optimistic(c) ==
  \E end \in Ends :
    /\ call[c].op = "stop"
    /\ Ended(c, end)
    /\ Reply(c, "nil")
    /\ UNCHANGED <<state, name, landed, up, external>>

(* Stop: any error of the graceful stop falls back to --kill. *)
StopReturns(c) ==
  \E end \in Ends :
    LET r == RunErr(end, call[c].cancelled)
    IN  /\ call[c].op = "stop"
        /\ Ended(c, end)
        /\ IF r # "nil" THEN GoOn(c, "kill", r) ELSE Reply(c, r)
        /\ UNCHANGED <<state, name, landed, up, external>>

(* Restart: any error of the graceful restart falls back to Stop(force). *)
RestartReturns(c) ==
  \E end \in Ends :
    LET r == RunErr(end, call[c].cancelled)
    IN  /\ call[c].op = "restart"
        /\ Ended(c, end)
        /\ IF r # "nil" THEN GoOn(c, "kill", r) ELSE Reply(c, r)
        /\ UNCHANGED <<state, name, landed, up, external>>

(* Plausible bug: Restart takes the forced stop for the end of its work. *)
KillReturns_NoStart(c) ==
  \E end \in Ends :
    LET r == RunErr(end, call[c].cancelled)
    IN  /\ call[c].op = "kill"
        /\ Ended(c, end)
        /\ IF call[c].tool = "delete" THEN GoOn(c, "delete", call[c].err) ELSE Reply(c, r)
        /\ UNCHANGED <<state, name, landed, up, external>>

(* The forced stop returns into Stop's caller: vmStop, Restart or Delete. *)
KillReturns(c) ==
  \E end \in Ends :
    LET r == RunErr(end, call[c].cancelled)
    IN  /\ call[c].op = "kill"
        /\ Ended(c, end)
        /\ CASE call[c].tool = "restart" ->
                  IF r = "nil" THEN GoOn(c, "start", call[c].err)
                  ELSE Reply(c, call[c].err)
             [] call[c].tool = "delete" -> GoOn(c, "delete", call[c].err)
             [] OTHER -> Reply(c, r)
        /\ UNCHANGED <<state, name, landed, up, external>>

(* Plausible bug: the forced stop is sent whatever Find says. *)
FindReturns_AlwaysKills(c) ==
  \E end \in Ends :
    /\ call[c].op = "find"
    /\ Ended(c, end)
    /\ GoOn(c, "kill", "nil")
    /\ UNCHANGED <<state, name, landed, up, external>>

(* Delete: Find, and a forced stop first if it says running or paused. *)
FindReturns(c) ==
  \E end \in Ends :
    LET found == end = "exit0" /\ Resolve(call[c].id) # NoVM
        saw == IF found THEN state[Resolve(call[c].id)] ELSE "unregistered"
    IN  /\ call[c].op = "find"
        /\ Ended(c, end)
        /\ call' = [call EXCEPT ![c] =
             [@ EXCEPT !.saw = saw, !.phase = "ready",
                       !.op = IF saw \in {"running", "paused"} THEN "kill"
                              ELSE "delete"]]
        /\ UNCHANGED <<state, name, landed, up, external>>

(* The commands whose result is the method's result. *)
LastReturns(c) ==
  \E end \in Ends :
    /\ call[c].op \in {"start", "suspend", "resume", "delete", "rename"}
    /\ Ended(c, end)
    /\ Reply(c, RunErr(end, call[c].cancelled))
    /\ UNCHANGED <<state, name, landed, up, external>>

(* The client cancels a call that is being served. *)
Cancel(c) ==
  /\ up
  /\ call[c].phase \in {"ready", "running"}
  /\ ~call[c].cancelled
  /\ call' = [call EXCEPT ![c].cancelled = TRUE]
  /\ UNCHANGED <<state, name, dispatcher, landed, up, external>>

(* SIGTERM, EOF on stdin or a crash: no call goes on, requests stay. *)
ServerStops ==
  /\ up
  /\ up' = FALSE
  /\ call' = [c \in Calls |->
                IF call[c].phase \in {"ready", "running"}
                THEN [call[c] EXCEPT !.phase = "lost"] ELSE call[c]]
  /\ UNCHANGED <<state, name, dispatcher, landed, external>>

-----------------------------------------------------------------------------
(* Outside the server. *)

(* The guest or the desktop user changes the power state. *)
OutsidePower(v) ==
  \E s \in {"stopped", "running", "paused"} :
    /\ external < MaxExternal
    /\ <<state[v], s>> \in {<<"running", "stopped">>, <<"stopped", "running">>,
                            <<"running", "paused">>, <<"paused", "running">>}
    /\ state' = [state EXCEPT ![v] = s]
    /\ dispatcher' = WithoutAcpi(dispatcher, v)
    /\ external' = external + 1
    /\ UNCHANGED <<name, call, landed, up>>

(* A VM is created, cloned or registered under a free name. *)
OutsideRegister(v) ==
  \E n \in Names :
    /\ external < MaxExternal
    /\ state[v] = "unregistered"
    /\ FreeName(n, v)
    /\ ~\E m \in landed : m.vm = v /\ m.op = "delete"
    /\ state' = [state EXCEPT ![v] = "stopped"]
    /\ name' = [name EXCEPT ![v] = n]
    /\ external' = external + 1
    /\ UNCHANGED <<call, dispatcher, landed, up>>

(* The desktop user renames a VM. *)
OutsideRename(v) ==
  \E n \in Names \ {name[v]} :
    /\ external < MaxExternal
    /\ state[v] # "unregistered"
    /\ FreeName(n, v)
    /\ name' = [name EXCEPT ![v] = n]
    /\ external' = external + 1
    /\ UNCHANGED <<state, call, dispatcher, landed, up>>

-----------------------------------------------------------------------------
Returns(c) ==
  \/ StopReturns(c) \/ RestartReturns(c) \/ KillReturns(c)
  \/ FindReturns(c) \/ LastReturns(c)

Next ==
  \/ \E c \in Calls : Invoke(c) \/ Spawn(c) \/ Returns(c) \/ Cancel(c)
  \/ \E m \in dispatcher : Perform(m)
  \/ \E v \in VMs : OutsidePower(v) \/ OutsideRegister(v) \/ OutsideRename(v)
  \/ ServerStops

Spec == Init /\ [][Next]_vars

(***************************************************************************)
(* Fairness.  Handlers are goroutines that block only in cmd.Run, so a     *)
(* call that is about to spawn a process does, and exec.CommandContext     *)
(* kills the process of a cancelled call.  FairSpec asks no more: prlctl   *)
(* may never exit by itself.                                               *)
(***************************************************************************)
FairSpec ==
  /\ Spec
  /\ \A c \in Calls :
       /\ WF_vars(call[c].phase = "ready" /\ (Spawn(c) \/ Returns(c)))
       /\ WF_vars(MayEnd(c, "killed") /\ Returns(c))

(* Every prlctl process exits. *)
PrlctlExits == \A c \in Calls : WF_vars(Returns(c))

-----------------------------------------------------------------------------
(* Properties. *)

TypeOK ==
  /\ state \in [VMs -> PowerStates]
  /\ name \in [VMs -> Names]
  /\ call \in [Calls -> Call]
  /\ dispatcher \subseteq Request
  /\ landed \subseteq Request
  /\ up \in BOOLEAN
  /\ external \in 0..MaxExternal

(***************************************************************************)
(* What the last command of a tool is: the one whose success the reply     *)
(* claims.  A restart that fell back claims the boot of its final start.   *)
(***************************************************************************)
Claimed(k) ==
  CASE k.tool = "stop" -> {"stop", "kill"}
    [] k.tool = "restart" -> {"restart", "start"}
    [] k.tool = "configure" -> {"rename"}
    [] OTHER -> {k.tool}

(***************************************************************************)
(* A call that reports success had its effect: Parallels performed the     *)
(* command the reply claims, whatever fallbacks, cancellations and         *)
(* concurrent calls the call went through.  In particular a restart that   *)
(* killed the VM and could not start it again never reports success        *)
(* (lifecycle.go Stop, Restart).                                           *)
(***************************************************************************)
OkMeansDone ==
  \A c \in Calls :
    call[c].reply = "nil" =>
      \E m \in landed : m.call = c /\ m.op \in Claimed(call[c])

(***************************************************************************)
(* No guest loses its power, and no VM its disk, without a reason: every   *)
(* kill Parallels performs was forced by the client, or follows a graceful *)
(* command that failed by itself (not one the client cancelled), or a      *)
(* status read as running or paused under a confirmed delete; every delete *)
(* was confirmed (lifecycle.go Stop, Restart; provision.go Delete).        *)
(***************************************************************************)
Earned(m, k) ==
  /\ m.op = "kill" =>
       \/ k.tool = "stop" /\ (k.force \/ k.err = "exit")
       \/ k.tool = "restart" /\ k.err = "exit"
       \/ k.tool = "delete" /\ k.saw \in {"running", "paused"}
  /\ m.op = "delete" => k.tool = "delete"
  /\ m.op \in {"delete", "kill"} /\ k.tool = "delete" => k.confirm

DestructionIsEarned == \A m \in landed : Earned(m, call[m.call])

(***************************************************************************)
(* A call addressed by UUID acts on that VM only, through every command of *)
(* its fallbacks and whatever is renamed, deleted or registered meanwhile. *)
(***************************************************************************)
UuidPinsTarget ==
  \A m \in landed \cup dispatcher : call[m.call].id \in VMs => m.vm = call[m.call].id

(***************************************************************************)
(* Once the client cancelled a call, or the server is gone, the call hands *)
(* no further request to Parallels: a cancelled graceful stop is not       *)
(* escalated to a kill, a cancelled restart starts nothing.                *)
(***************************************************************************)
CancelledActsNoMore ==
  [][\A c \in Calls :
       call[c].cancelled \/ ~up =>
         {m \in dispatcher' \cup landed' : m.call = c}
           \subseteq dispatcher \cup landed]_vars

(***************************************************************************)
(* A restart that fell back to a kill does not leave the VM off by its own *)
(* control flow.  Its start is performed after its kill only; once the     *)
(* kill was performed, success means that the start was performed too, and *)
(* an error, unless the client cancelled, is that of the start: the VM is  *)
(* off because Parallels would not start it (lifecycle.go Restart).        *)
(***************************************************************************)
Performed(c, op) == \E m \in landed : m.call = c /\ m.op = op

KillThenStart ==
  [][\A c \in Calls :
       call[c].tool = "restart" =>
         /\ ~Performed(c, "start") /\ Performed(c, "start")' => Performed(c, "kill")
         /\ call[c].reply = "none" /\ Performed(c, "kill") =>
              /\ call'[c].reply = "nil" => Performed(c, "start")
              /\ call'[c].reply \notin {"none", "nil"} =>
                   call[c].cancelled \/ call[c].op = "start"]_vars

(* A cancelled call is answered even if its prlctl never exits by itself. *)
CancelledIsAnswered ==
  \A c \in Calls : call[c].cancelled ~> call[c].phase \in {"answered", "lost"}

(* Every call is answered if every prlctl process exits: no fallback loops. *)
EveryCallIsAnswered ==
  PrlctlExits =>
    \A c \in Calls :
      call[c].phase \in {"ready", "running"} ~> call[c].phase \in {"answered", "lost"}

(***************************************************************************)
(* The calls implement PowerService: with every fallback, time-out,        *)
(* cancellation and crash, each command of a call is performed at most     *)
(* once, and a call by UUID that was answered with success has no request  *)
(* left that Parallels could still perform (lifecycle.go, runner.go).      *)
(***************************************************************************)
Status(k) ==
  CASE k.phase = "idle" -> "idle"
    [] k.phase \in {"ready", "running"} -> "pending"
    [] k.phase \in {"answered", "lost"} /\ k.reply = "nil" -> "ok"
    [] OTHER -> "over"

Service == INSTANCE PowerService WITH
  served <- [c \in Calls |-> [tool |-> call[c].tool, id |-> call[c].id,
                              status |-> Status(call[c])]],
  done <- landed

ImplementsService == Service!Spec
=============================================================================
