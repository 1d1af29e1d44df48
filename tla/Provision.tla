----------------------------- MODULE Provision -----------------------------
(***************************************************************************)
(* vm_create and vm_clone.                                                 *)
(*                                                                         *)
(* Create is a best-effort chain: prlctl create, a second create without   *)
(* flags if that fails, then read the UUID back, set CPU and memory, start,*)
(* inject an SSH key, poll for an address.  Every command after the first  *)
(* names the VM by its name, which Parallels resolves afresh; only the two *)
(* creates can make the call fail, the rest is reported in Warnings.       *)
(*                                                                         *)
(* A command takes effect where its process ends.  That a request may      *)
(* outlive a killed process is the subject of PowerControl.                *)
(***************************************************************************)
EXTENDS Runner, Duration

CONSTANTS
  VMs,         \* UUIDs; one that was used is never used again
  Names,
  Creations,   \* the calls, each made once
  Requests,    \* what a call may ask for
  DefaultWait, \* DefaultIPWait, in ticks
  Interval,    \* ipPollInterval, in ticks
  MaxOutside,  \* bound: changes made from outside
  NoVM

Nobody == "nobody"

(***************************************************************************)
(* distribution, sized and key say that one was passed (or, of the key,    *)
(* found on the host); seconds is ip_wait_seconds.                         *)
(***************************************************************************)
Request == [tool : {"create", "clone"}, name : Names, source : Names,
            distribution : BOOLEAN, sized : BOOLEAN, key : BOOLEAN, seconds : Int]

ASSUME ProvisionAssumption ==
  /\ Requests \subseteq Request /\ Requests # {}
  /\ DefaultWait \in Nat \ {0}
  /\ Interval \in Nat \ {0}
  /\ MaxOutside \in Nat
  /\ NoVM \notin VMs
  /\ VMs # {} /\ Names # {}
  /\ Nobody \notin Creations

VARIABLES
  vm,       \* the VMs, as Parallels keeps them
  call,     \* the calls
  landed,   \* history: what the commands did, and to which VM
  failed,   \* history: the commands whose error Create saw
  up,       \* the server process is alive
  outside   \* changes made from outside so far

vars == <<vm, call, landed, failed, up, outside>>

Ops == {"create", "fallback", "find", "set", "start", "ssh", "poll", "clone"}
VM == [state : {"unborn", "stopped", "running", "deleted"}, name : Names,
       by : Creations \cup {Nobody}, template : BOOLEAN]

(***************************************************************************)
(* done and warned are what CreateResult reports: the commands that        *)
(* worked, those with a warning.                                           *)
(***************************************************************************)
Call ==
  [asks : Request, pc : Ops \cup {"idle", "answered", "lost"},
   running : BOOLEAN, cancelled : BOOLEAN,
   uuid : VMs \cup {NoVM}, done : SUBSET Ops, warned : SUBSET Ops,
   waited : Nat, ips : BOOLEAN, reply : {"none", "ok", "error"}]

Registered(v) == vm[v].state \in {"stopped", "running"}
Named(n) == {v \in VMs : Registered(v) /\ vm[v].name = n}

At(pc, r) ==
  [asks |-> r, pc |-> pc, running |-> FALSE, cancelled |-> FALSE, uuid |-> NoVM,
   done |-> {}, warned |-> {}, waited |-> 0, ips |-> FALSE, reply |-> "none"]

Init ==
  /\ \E n \in Names : vm = [v \in VMs |-> [state |-> "unborn", name |-> n,
                                            by |-> Nobody, template |-> FALSE]]
  /\ call = [c \in Creations |-> At("idle", CHOOSE r \in Requests : TRUE)]
  /\ landed = {}
  /\ failed = {}
  /\ up = TRUE
  /\ outside = 0

-----------------------------------------------------------------------------
(* Parallels. *)

(* Only the first create passes the flags on. *)
Flagged(op, r) == op = "create" /\ r.distribution

Does(c, op, v) ==
  LET k == call[c].asks
  IN  /\ CASE op \in {"create", "fallback", "clone"} ->
                /\ vm[v].state = "unborn" /\ Named(k.name) = {}
                /\ op = "clone" => Named(k.source) # {}
                /\ vm' = [vm EXCEPT ![v] =
                     [state |-> "stopped", name |-> k.name, by |-> c,
                      template |-> Flagged(op, k)]]
           [] op = "start" ->
                /\ v \in Named(k.name) /\ vm[v].state = "stopped"
                /\ vm' = [vm EXCEPT ![v].state = "running"]
           [] op = "ssh" ->
                v \in Named(k.name) /\ vm[v].state = "running" /\ UNCHANGED vm
           [] OTHER -> v \in Named(k.name) /\ UNCHANGED vm
      /\ landed' = landed \cup {[call |-> c, op |-> op, vm |-> v]}

-----------------------------------------------------------------------------
(* The server. *)

Active(k) == k.pc \in Ops

Enter(c) ==
  \E r \in Requests :
    /\ up
    /\ call[c].pc = "idle"
    /\ call' = [call EXCEPT ![c] = At(r.tool, r)]
    /\ UNCHANGED <<vm, landed, failed, up, outside>>

(* Plausible bug: the context is not looked at before the process starts. *)
Spawn_NoContext(c) ==
  /\ up
  /\ Active(call[c]) /\ ~call[c].running
  /\ call' = [call EXCEPT ![c].running = TRUE]
  /\ UNCHANGED <<vm, landed, failed, up, outside>>

(* The process of the next command is created. *)
Spawn(c) ==
  /\ up
  /\ Active(call[c]) /\ ~call[c].running /\ ~call[c].cancelled
  /\ call' = [call EXCEPT ![c].running = TRUE]
  /\ UNCHANGED <<vm, landed, failed, up, outside>>

(* The process of op ends; a killed one may have done its work. *)
Ended(c, op, end) ==
  LET k == call[c]
  IN  /\ up
      /\ k.pc = op
      /\ end \in Ends \ {"notExecuted"}
      /\ end = "notStarted" <=> ~k.running
      /\ end = "killed" => k.cancelled
      /\ \/ end \in {"exit0", "killed"} /\ \E v \in VMs : Does(c, op, v)
         \/ end # "exit0" /\ UNCHANGED <<vm, landed>>
      /\ failed' = IF RunErr(end, k.cancelled) = "nil" THEN failed
                   ELSE failed \cup {[call |-> c, op |-> op]}
      /\ UNCHANGED <<up, outside>>

(* What the call records of a command that worked, or did not. *)
Done(k, op) == [k EXCEPT !.running = FALSE, !.done = k.done \cup {op}]
Warned(k, op) == [k EXCEPT !.running = FALSE, !.warned = k.warned \cup {op}]

GoOn(c, k, pc) == call' = [call EXCEPT ![c] = [k EXCEPT !.pc = pc, !.running = FALSE]]
Reply(c, k, reply) ==
  call' = [call EXCEPT ![c] =
            [k EXCEPT !.pc = "answered", !.running = FALSE, !.reply = reply]]

CreateReturns(c) ==
  \E end \in Ends :
    /\ Ended(c, "create", end)
    /\ IF RunErr(end, call[c].cancelled) = "nil"
       THEN GoOn(c, Done(call[c], "create"), "find")
       ELSE GoOn(c, call[c], "fallback")

(* Plausible bug: best effort extends to the create itself. *)
FallbackReturns_GoesOn(c) ==
  \E end \in Ends :
    /\ Ended(c, "fallback", end)
    /\ GoOn(c, Done(call[c], "create"), "find")

(* The create without flags; its success is not told apart. *)
FallbackReturns(c) ==
  \E end \in Ends :
    /\ Ended(c, "fallback", end)
    /\ IF RunErr(end, call[c].cancelled) = "nil"
       THEN GoOn(c, Done(call[c], "create"), "find")
       ELSE Reply(c, call[c], "error")

FindReturns(c) ==
  \E end \in Ends :
    /\ Ended(c, "find", end)
    /\ GoOn(c, IF RunErr(end, call[c].cancelled) = "nil"
               THEN [call[c] EXCEPT !.uuid = CHOOSE v \in Named(call[c].asks.name) : TRUE]
               ELSE Warned(call[c], "find"),
            IF call[c].asks.sized THEN "set" ELSE "start")

(* Plausible bug: a refused set is not recorded. *)
SetReturns_Silent(c) ==
  \E end \in Ends :
    /\ Ended(c, "set", end)
    /\ GoOn(c, IF RunErr(end, call[c].cancelled) = "nil"
               THEN Done(call[c], "set") ELSE call[c], "start")

SetReturns(c) ==
  \E end \in Ends :
    /\ Ended(c, "set", end)
    /\ GoOn(c, IF RunErr(end, call[c].cancelled) = "nil"
               THEN Done(call[c], "set") ELSE Warned(call[c], "set"), "start")

(* Plausible bug: the error of the start is returned. *)
StartReturns_Fails(c) ==
  \E end \in Ends :
    /\ Ended(c, "start", end)
    /\ IF RunErr(end, call[c].cancelled) = "nil"
       THEN GoOn(c, Done(call[c], "start"), IF call[c].asks.key THEN "ssh" ELSE "poll")
       ELSE Reply(c, call[c], "error")

StartReturns(c) ==
  \E end \in Ends :
    /\ Ended(c, "start", end)
    /\ IF RunErr(end, call[c].cancelled) = "nil"
       THEN GoOn(c, Done(call[c], "start"), IF call[c].asks.key THEN "ssh" ELSE "poll")
       ELSE Reply(c, Warned(call[c], "start"), "ok")

SshReturns(c) ==
  \E end \in Ends :
    /\ Ended(c, "ssh", end)
    /\ GoOn(c, IF RunErr(end, call[c].cancelled) = "nil"
               THEN Done(call[c], "ssh") ELSE Warned(call[c], "ssh"), "poll")

(* Plausible bug: only 0 means the default. *)
IPWait_ZeroOnly(r) == IF r.seconds <= 0 THEN DefaultWait ELSE Seconds(r.seconds)

(* How long the poll goes on: the time asked for, or the default for none  *)
(* and for a product that is not positive.                                 *)
IPWait(r) ==
  IF r.seconds > 0 /\ Seconds(r.seconds) > 0 THEN Seconds(r.seconds) ELSE DefaultWait

(* Plausible bug: the deadline is not looked at. *)
PollReturns_NoDeadline(c) ==
  \E end \in Ends :
    /\ Ended(c, "poll", end)
    /\ GoOn(c, [call[c] EXCEPT !.waited = call[c].waited + Interval], "poll")

(* Plausible bug: the deadline is taken anew in every turn of the loop. *)
PollReturns_NewDeadline(c) ==
  \E end \in Ends :
    /\ Ended(c, "poll", end)
    /\ GoOn(c, call[c], "poll")

(* waitForIPv4: an address, the deadline, the context, or another turn.    *)
(* The Info of a turn may take as long as the interval.                    *)
PollReturns(c) ==
  \E end \in Ends, took \in 0..Interval, found \in BOOLEAN :
    LET now == call[c].waited + took
    IN  /\ Ended(c, "poll", end)
        /\ found => RunErr(end, call[c].cancelled) = "nil"
        /\ IF found \/ now > IPWait(call[c].asks) \/ call[c].cancelled
           THEN Reply(c, [call[c] EXCEPT !.ips = found, !.waited = now], "ok")
           ELSE GoOn(c, [call[c] EXCEPT !.waited = now + Interval], "poll")

CloneReturns(c) ==
  \E end \in Ends :
    /\ Ended(c, "clone", end)
    /\ IF RunErr(end, call[c].cancelled) = "nil"
       THEN Reply(c, Done(call[c], "clone"), "ok") ELSE Reply(c, call[c], "error")

Cancel(c) ==
  /\ up
  /\ Active(call[c]) /\ ~call[c].cancelled
  /\ call' = [call EXCEPT ![c].cancelled = TRUE]
  /\ UNCHANGED <<vm, landed, failed, up, outside>>

ServerStops ==
  /\ up
  /\ up' = FALSE
  /\ call' = [c \in Creations |->
                IF Active(call[c]) THEN [call[c] EXCEPT !.pc = "lost"] ELSE call[c]]
  /\ UNCHANGED <<vm, landed, failed, outside>>

(* A VM goes, or is renamed, in another session or on the desktop. *)
Outside(v) ==
  /\ outside < MaxOutside
  /\ Registered(v)
  /\ \/ vm' = [vm EXCEPT ![v].state = "deleted"]
     \/ \E n \in Names : Named(n) = {} /\ vm' = [vm EXCEPT ![v].name = n]
  /\ outside' = outside + 1
  /\ UNCHANGED <<call, landed, failed, up>>

Returns(c) ==
  \/ CreateReturns(c) \/ FallbackReturns(c) \/ FindReturns(c) \/ SetReturns(c)
  \/ StartReturns(c) \/ SshReturns(c) \/ PollReturns(c) \/ CloneReturns(c)

Next ==
  \/ \E c \in Creations : Enter(c) \/ Spawn(c) \/ Returns(c) \/ Cancel(c)
  \/ \E v \in VMs : Outside(v)
  \/ ServerStops

Spec == Init /\ [][Next]_vars

(* A handler blocks only in cmd.Run and in the sleep of the poll; every    *)
(* prlctl process exits.                                                   *)
FairSpec == Spec /\ \A c \in Creations : WF_vars(Spawn(c) \/ Returns(c))

-----------------------------------------------------------------------------
(* Properties. *)

TypeOK ==
  /\ vm \in [VMs -> VM]
  /\ call \in [Creations -> Call]
  /\ \A c \in Creations : call[c].waited <= IPWait(call[c].asks) + 2 * Interval
  /\ landed \subseteq [call : Creations, op : Ops, vm : VMs]
  /\ failed \subseteq [call : Creations, op : Ops]
  /\ up \in BOOLEAN
  /\ outside \in 0..MaxOutside

LandedOps(c) == {m.op : m \in {l \in landed : l.call = c}}
Created(c) == {v \in VMs : vm[v].by = c}

(***************************************************************************)
(* The report is true: what CreateResult says was done was done, by this   *)
(* call, the key never without the start, nothing without the create, and  *)
(* the UUID is never one of a VM that the call could not have meant.  And  *)
(* the distribution asked for is that of the VM, though the fallback drops *)
(* it, unless the first create had an error.                               *)
(***************************************************************************)
ReportIsTrue ==
  \A c \in Creations :
    call[c].reply = "ok" =>
      /\ call[c].done \subseteq
           LandedOps(c) \cup IF "fallback" \in LandedOps(c) THEN {"create"} ELSE {}
      /\ call[c].done \cap {"create", "clone"} # {}
      /\ "ssh" \in call[c].done \/ call[c].ips => "start" \in call[c].done
      /\ call[c].uuid # NoVM => [call |-> c, op |-> "find", vm |-> call[c].uuid] \in landed
      /\ /\ call[c].asks.tool = "create" /\ call[c].asks.distribution
         /\ [call |-> c, op |-> "create"] \notin failed
         => \A v \in Created(c) : vm[v].template

(***************************************************************************)
(* "Steps after the initial `create` may fail without aborting; those      *)
(* failures are reported in Warnings": of every command of a successful    *)
(* create that failed there is a warning, and of no other.  The creates    *)
(* themselves and the poll, which says so in the reply, are left out.      *)
(***************************************************************************)
FailuresAreWarned ==
  \A c \in Creations :
    call[c].reply = "ok" /\ call[c].asks.tool = "create" =>
      \A op \in {"find", "set", "start", "ssh"} :
        [call |-> c, op |-> op] \in failed <=> op \in call[c].warned

(***************************************************************************)
(* The fallback makes no second VM: a create that was killed at work may   *)
(* have made one, but then the context keeps the fallback from running,    *)
(* even if the name has become free again.                                 *)
(***************************************************************************)
OneVMPerCall == \A c \in Creations : \A v, w \in Created(c) : v = w

(***************************************************************************)
(* An error means that nothing was made, unless the client itself          *)
(* cancelled: no failure leaves a VM behind that its caller knows not of.  *)
(***************************************************************************)
ErrorLeavesNothing ==
  \A c \in Creations :
    call[c].reply = "error" /\ ~call[c].cancelled => Created(c) = {}

(* Two calls that ask for one name: whatever the order of their commands,  *)
(* neither configures, starts or enters the VM of the other.               *)
ActsOnOwnVM == \A m \in landed : vm[m.vm].by = m.call

(***************************************************************************)
(* "No guest IPv4 was detected within the wait window" is told of a guest  *)
(* that was given all the time asked for, and the default where none was   *)
(* asked for or the product with time.Second came out negative; a product  *)
(* that wraps around to a positive one shortens the wait.                  *)
(***************************************************************************)
AddressWasWaitedFor ==
  \A c \in Creations :
    /\ call[c].reply = "ok" /\ "start" \in call[c].done
    /\ ~call[c].ips /\ ~call[c].cancelled
    => LET n == call[c].asks.seconds
       IN  /\ n > 0 /\ Fits(n) => call[c].waited > n * Second
           /\ n <= 0 \/ Seconds(n) <= 0 => call[c].waited > DefaultWait

(* Every call is answered: the poll ends, with or without an address. *)
EveryCallIsAnswered ==
  \A c \in Creations : Active(call[c]) ~> call[c].pc \in {"answered", "lost"}
=============================================================================
