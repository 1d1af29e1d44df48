---------------------------- MODULE PowerService ----------------------------
(***************************************************************************)
(* What the lifecycle tools promise their client, without processes,       *)
(* fallbacks and contexts.  A call takes effect in atomic commands; a tool *)
(* performs its own commands only and each at most once; success means     *)
(* that a command the reply speaks of was performed; and what a call       *)
(* addressed by UUID does, it does to that VM and before it is answered    *)
(* with success.  A call that ends otherwise may still take effect later.  *)
(***************************************************************************)
CONSTANTS VMs, Calls

VARIABLES
  state,   \* power state of every VM
  served,  \* the calls: tool, id, and how far they are
  done     \* the commands performed

vars == <<state, served, done>>

(* The commands of a tool, and those whose success its reply claims. *)
Commands(tool) ==
  CASE tool = "stop" -> {"stop", "kill"}
    [] tool = "restart" -> {"restart", "kill", "start"}
    [] tool = "delete" -> {"kill", "delete"}
    [] tool = "configure" -> {"rename"}
    [] OTHER -> {tool}

Promised(tool) ==
  CASE tool = "stop" -> {"stop", "kill"}
    [] tool = "restart" -> {"restart", "start"}
    [] tool = "configure" -> {"rename"}
    [] OTHER -> {tool}

Outcome(op, s) ==
  CASE op \in {"start", "restart", "resume"} -> "running"
    [] op \in {"stop", "kill"} -> "stopped"
    [] op = "suspend" -> "suspended"
    [] op = "delete" -> "unregistered"
    [] OTHER -> s

Init ==
  /\ state \in [VMs -> {"unregistered", "stopped", "running"}]
  /\ \A c \in Calls : served[c].status = "idle"
  /\ done = {}

(* A call comes in; a delete may be refused at once. *)
Invoke(c) ==
  /\ served[c].status = "idle"
  /\ served'[c].status \in {"pending", "over"}
  /\ served'[c].status = "over" => served'[c].tool = "delete"
  /\ \A d \in Calls \ {c} : served'[d] = served[d]
  /\ UNCHANGED <<state, done>>

Perform(c, op, v) ==
  /\ served[c].status # "idle"
  /\ op \in Commands(served[c].tool)
  /\ \A m \in done : ~(m.call = c /\ m.op = op)
  /\ served[c].id \in VMs => v = served[c].id /\ served[c].status # "ok"
  /\ state' = [state EXCEPT ![v] = Outcome(op, @)]
  /\ done' = done \cup {[call |-> c, op |-> op, vm |-> v]}
  /\ UNCHANGED served

Settle(C, status) ==
  /\ \A c \in C : served[c].status = "pending"
  /\ served' = [c \in Calls |->
                  IF c \in C THEN [served[c] EXCEPT !.status = status] ELSE served[c]]
  /\ UNCHANGED <<state, done>>

Succeed(c) ==
  /\ \E m \in done : m.call = c /\ m.op \in Promised(served[c].tool)
  /\ Settle({c}, "ok")

(* An error, or the end of the server. *)
GiveUp == \E C \in SUBSET Calls : Settle(C, "over")

Outside(v) ==
  /\ \E s \in {"stopped", "running", "paused"} : state' = [state EXCEPT ![v] = s]
  /\ UNCHANGED <<served, done>>

Next ==
  \/ \E c \in Calls : Invoke(c) \/ Succeed(c)
  \/ \E c \in Calls : \E op \in Commands(served[c].tool), v \in VMs : Perform(c, op, v)
  \/ GiveUp
  \/ \E v \in VMs : Outside(v)

Spec == Init /\ [][Next]_vars
=============================================================================
