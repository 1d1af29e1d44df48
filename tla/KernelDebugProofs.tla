------------------------- MODULE KernelDebugProofs -------------------------
(***************************************************************************)
(* What KernelDebug guarantees for any number of calls, ports and boots.   *)
(***************************************************************************)
EXTENDS KernelDebug, SequenceTheorems, TLAPS

(***************************************************************************)
(* The types.                                                              *)
(***************************************************************************)

(* The initial states have the types of their variables. *)
LEMMA DebugTypeInit == Init => TypeOK
<1> SUFFICES ASSUME Init PROVE TypeOK OBVIOUS
<1>1. (CHOOSE r \in Request : TRUE) \in Request
  <2>1. [tool |-> "vm_guest_debugger", mode |-> "net", socket |-> FALSE,
         bcdedit |-> FALSE, flags |-> "off"] \in Request
    BY DEF Request, Modes, Protocols
  <2> QED BY <2>1
<1>2. call \in [Calls -> Call]
  BY <1>1 DEF Init, At, Call, Sockets
<1>3. <<>> \in [1..0 -> Sockets] /\ 0 \in 0..MaxPorts
  BY DebugAssumption
<1>4. vm \in VM
  BY <1>3 DEF Init, VM, Protocols, Systems
<1>5. guest \in Guest /\ power \in 0..MaxPower
  BY DebugAssumption DEF Init, Guest
<1> QED BY <1>2, <1>4, <1>5 DEF Init, TypeOK

(* A port more, while there is room for one. *)
LEMMA PortAppended ==
  ASSUME vm \in VM, NEW s \in Sockets, Len(vm.ports) < MaxPorts
  PROVE  [vm EXCEPT !.ports = Append(vm.ports, s)] \in VM
<1>1. PICK n \in 0..MaxPorts : vm.ports \in [1..n -> Sockets]
  BY DEF VM
<1>2. vm.ports \in Seq(Sockets) /\ Len(vm.ports) = n
  BY <1>1
<1>3. n + 1 \in 0..MaxPorts
  BY <1>2, DebugAssumption
<1>4. Append(vm.ports, s) \in [1..n + 1 -> Sockets]
  <2>1. Append(vm.ports, s) \in Seq(Sockets) /\ Len(Append(vm.ports, s)) = n + 1
    BY <1>2, AppendProperties
  <2> QED BY <2>1, LenProperties
<1> QED BY <1>3, <1>4 DEF VM

(***************************************************************************)
(* What the end of a process leaves behind: the types, and of the command  *)
(* that it ran either a trace or none.                                     *)
(***************************************************************************)
LEMMA DebugEnded ==
  ASSUME TypeOK, NEW c \in Calls, NEW op \in Ops, NEW end \in Ends, Ended(c, op, end)
  PROVE  /\ vm' \in VM /\ guest' \in Guest
         /\ \/ end # "exit0" /\ did' = did
            \/ end \in {"exit0", "killed"} /\ Does(c, op)
         /\ did' = did \/ did' = did \cup {[call |-> c, op |-> op]}
         /\ tried' = tried \cup {[call |-> c, op |-> op]}
         /\ missed' = IF op = "bcdedit" /\ end = "notStarted" THEN missed \cup {c} ELSE missed
         /\ up' = up /\ power' = power
<1> USE DEF TypeOK
<1>1. ASSUME Does(c, op) PROVE vm' \in VM /\ guest' \in Guest /\ did' = did \cup {[call |-> c, op |-> op]}
  <2>1. did' = did \cup {[call |-> c, op |-> op]}
    BY <1>1 DEF Does
  <2>2. CASE op = "flags"
    <3>1. vm' = [vm EXCEPT !.flags = FlagsOf(call[c])] /\ guest' = guest
      BY <1>1, <2>2 DEF Does
    <3>2. FlagsOf(call[c]) \in Protocols \cup {"off"}
      BY DEF FlagsOf, Call, Request, Protocols
    <3> QED BY <2>1, <3>1, <3>2 DEF VM
  <2>3. CASE op = "port"
    <3>1. Len(vm.ports) < MaxPorts /\ guest' = guest
             /\ vm' = [vm EXCEPT !.ports = Append(vm.ports, call[c].socket)]
      BY <1>1, <2>3 DEF Does
    <3>2. call[c].socket \in Sockets
      BY DEF Call
    <3> QED BY <2>1, <3>1, <3>2, PortAppended
  <2>4. CASE op = "bcdedit"
    <3>1. BcdeditWorks(call[c])
      BY <1>1, <2>4 DEF Does
    <3> QED BY <2>1, <3>1 DEF BcdeditWorks, Guest
  <2>5. CASE op \in {"attach", "info"}
    BY <1>1, <2>1, <2>5 DEF Does
  <2> QED BY <2>2, <2>3, <2>4, <2>5 DEF Ops
<1>2. ASSUME BcdeditBreaks PROVE vm' \in VM /\ guest' \in Guest
  BY <1>2 DEF BcdeditBreaks, Guest
<1>3. \/ end \in {"exit0", "killed"} /\ Does(c, op)
      \/ end \in {"failed", "killed"} /\ BcdeditBreaks /\ did' = did
      \/ end # "exit0" /\ vm' = vm /\ guest' = guest /\ did' = did
  BY DEF Ended
<1>4. /\ tried' = tried \cup {[call |-> c, op |-> op]}
      /\ missed' = IF op = "bcdedit" /\ end = "notStarted" THEN missed \cup {c} ELSE missed
      /\ up' = up /\ power' = power
  BY DEF Ended
<1> QED BY <1>1, <1>2, <1>3, <1>4

(* A call that goes on or replies keeps its arguments and its context.     *)
LEMMA DebugReturned ==
  ASSUME TypeOK, NEW c \in Calls, Returns(c)
  PROVE  \E op \in Ops, end \in Ends, j \in Call :
           /\ Ended(c, op, end)
           /\ call' = [call EXCEPT ![c] = j]
           /\ j.asks = call[c].asks /\ j.cancelled = call[c].cancelled
           /\ j.pc # "idle"
<1> DEFINE k == call[c]
<1> DEFINE Shape(j) ==
      /\ j \in Call /\ j.asks = k.asks /\ j.cancelled = k.cancelled /\ j.pc # "idle"
<1>1. k \in Call
  BY DEF TypeOK
<1>2. ASSUME NEW h \in Call, h.asks = k.asks, h.cancelled = k.cancelled,
             NEW pc \in Ops, GoOn(c, h, pc)
      PROVE  \E j \in Call : Shape(j) /\ call' = [call EXCEPT ![c] = j]
  <2>1. Shape([h EXCEPT !.pc = pc, !.running = FALSE])
    BY <1>2 DEF Call, Ops
  <2> QED BY <1>2, <2>1 DEF GoOn
<1>3. ASSUME NEW h \in Call, h.asks = k.asks, h.cancelled = k.cancelled,
             NEW reply \in {"ok", "error"}, Reply(c, h, reply)
      PROVE  \E j \in Call : Shape(j) /\ call' = [call EXCEPT ![c] = j]
  <2>1. Shape([h EXCEPT !.pc = "answered", !.running = FALSE, !.reply = reply])
    BY <1>3 DEF Call, Ops
  <2> QED BY <1>3, <2>1 DEF Reply
<1> HIDE DEF Shape, k
<1>4. CASE FlagsReturns(c)
  <2>1. \E end \in Ends :
          /\ Ended(c, "flags", end)
          /\ (\E r \in {"ok", "error"} : Reply(c, k, r)) \/ GoOn(c, k, "port")
    BY <1>4 DEF FlagsReturns, k
  <2> QED BY <1>1, <1>2, <1>3, <2>1 DEF Ops, Shape, k
<1>5. CASE AttachReturns(c)
  <2>1. \E end \in Ends :
          Ended(c, "attach", end) /\ \E r \in {"ok", "error"} : Reply(c, k, r)
    BY <1>5 DEF AttachReturns, k
  <2> QED BY <1>1, <1>3, <2>1 DEF Ops, Shape, k
<1>6. CASE InfoReturns(c)
  <2>1. PICK end \in Ends, known \in BOOLEAN :
          /\ Ended(c, "info", end)
          /\ Dispatch(c, [k EXCEPT !.known = known, !.socket = SocketOf(k.asks, known)])
    BY <1>6 DEF InfoReturns, k
  <2> DEFINE h == [k EXCEPT !.known = known, !.socket = SocketOf(k.asks, known)]
  <2>2. h \in Call /\ h.asks = k.asks /\ h.cancelled = k.cancelled
    BY <1>1 DEF Call, SocketOf, Sockets
  <2>3. h.asks.mode \in Modes
    BY <2>2 DEF Call, Request
  <2> HIDE DEF h
  <2>4. (\E pc \in Ops : GoOn(c, h, pc)) \/ \E r \in {"ok", "error"} : Reply(c, h, r)
    BY <2>1, <2>3 DEF Dispatch, Ops, Modes, h
  <2> QED BY <1>2, <1>3, <2>1, <2>2, <2>4 DEF Ops, Shape, k
<1>7. CASE PortReturns(c)
  <2>1. \E end \in Ends :
          Ended(c, "port", end) /\ (GoOn(c, k, "bcdedit") \/ Reply(c, k, "ok"))
    BY <1>7 DEF PortReturns, k
  <2> QED BY <1>1, <1>2, <1>3, <2>1 DEF Ops, Shape, k
<1>8. CASE BcdeditReturns(c)
  <2>1. PICK end \in Ends, t \in {"applied", "error", "nothing"} :
          Ended(c, "bcdedit", end) /\ Reply(c, [k EXCEPT !.told = t], "ok")
    BY <1>8 DEF BcdeditReturns, k
  <2> DEFINE h == [k EXCEPT !.told = t]
  <2>2. h \in Call /\ h.asks = k.asks /\ h.cancelled = k.cancelled
    BY <1>1 DEF Call
  <2> HIDE DEF h
  <2>3. Reply(c, h, "ok")
    BY <2>1 DEF h
  <2> QED BY <1>3, <2>1, <2>2, <2>3 DEF Ops, Shape, k
<1> QED BY <1>4, <1>5, <1>6, <1>7, <1>8 DEF Returns

(* Every step keeps the types. *)
LEMMA DebugTypeStep == TypeOK /\ [Next]_vars => TypeOK'
<1> SUFFICES ASSUME TypeOK, [Next]_vars PROVE TypeOK' OBVIOUS
<1> USE DEF TypeOK
<1>1. ASSUME NEW c \in Calls, Enter(c) PROVE TypeOK'
  <2>1. ASSUME NEW r \in Requests PROVE Entered(r) \in Call
    <3>1. \A pc \in Ops \cup {"answered"} : At(pc, r) \in Call
      BY DebugAssumption DEF At, Call, Sockets
    <3>2. [At("answered", r) EXCEPT !.reply = "error"] \in Call
      BY <3>1 DEF Call
    <3> QED BY <3>1, <3>2 DEF Entered, Ops
  <2>2. call' \in [Calls -> Call]
    BY <1>1, <2>1 DEF Enter
  <2> QED BY <1>1, <2>2 DEF Enter
<1>2. ASSUME NEW c \in Calls, Spawn(c) \/ Cancel(c) PROVE TypeOK'
  <2>1. call' \in [Calls -> Call]
    <3>1. [call[c] EXCEPT !.running = TRUE] \in Call /\ [call[c] EXCEPT !.cancelled = TRUE] \in Call
      BY DEF Call
    <3> QED BY <1>2, <3>1 DEF Spawn, Cancel
  <2> QED BY <1>2, <2>1 DEF Spawn, Cancel
<1>3. ASSUME NEW c \in Calls, Returns(c) PROVE TypeOK'
  <2>1. PICK op \in Ops, end \in Ends, j \in Call :
          Ended(c, op, end) /\ call' = [call EXCEPT ![c] = j]
    BY <1>3, DebugReturned
  <2>2. call' \in [Calls -> Call]
    BY <2>1
  <2> QED BY <2>1, <2>2, DebugEnded
<1>4. CASE Power
  <2>1. vm' \in VM
    <3> DEFINE stub == IF vm.running THEN "off" ELSE vm.flags
    <3>1. stub \in Protocols \cup {"off"}
      BY DEF VM
    <3>2. vm' = [vm EXCEPT !.running = ~vm.running, !.stub = stub]
      BY <1>4 DEF Power
    <3> HIDE DEF stub
    <3> QED BY <3>1, <3>2 DEF VM
  <2> QED BY <1>4, <2>1, DebugAssumption DEF Power
<1>5. CASE ServerStops
  <2>1. call' \in [Calls -> Call]
    BY <1>5 DEF ServerStops, Call
  <2> QED BY <1>5, <2>1 DEF ServerStops
<1>6. CASE UNCHANGED vars
  BY <1>6 DEF vars
<1> QED BY <1>1, <1>2, <1>3, <1>4, <1>5, <1>6 DEF Next

(* Every reachable state is well typed. *)
THEOREM DebugTypeCorrect == Spec => []TypeOK
BY DebugTypeInit, DebugTypeStep, PTL DEF Spec

(***************************************************************************)
(* The safety properties.  None is inductive: what a call has done so far  *)
(* follows from the step it is at, and the properties look at the end.     *)
(***************************************************************************)

Changing == {"flags", "port", "bcdedit"}

(* Where a call of each tool and mode can be. *)
Route(k) ==
  /\ k.pc = "flags" /\ k.asks.tool # "vm_configure_debugger" =>
       k.asks.tool = "vm_configure_kernel_debug" /\ k.asks.mode = "gdb"
  /\ k.pc = "info" => k.asks.tool = "vm_configure_kernel_debug"

(* What it has done by then. *)
SoFar(c) ==
  LET k == call[c]
  IN  /\ k.pc = "idle" => \A op \in Ops : ~Did(c, op)
      /\ k.pc \in {"flags", "attach", "info"} => \A op \in Changing : ~Did(c, op)
      /\ k.pc \in {"port", "bcdedit"} => ~Did(c, "bcdedit")
      /\ k.pc = "bcdedit" /\ k.asks.mode = "serial" => [call |-> c, op |-> "port"] \in tried
      /\ k.pc # "answered" => k.told = "nothing" /\ k.reply = "none"

(* What it may say of it. *)
Honest(c) ==
  LET k == call[c]
  IN  /\ k.reply = "error" /\ ~k.cancelled => \A op \in Changing : ~Did(c, op)
      /\ k.pc = "answered" /\ ~k.cancelled /\ c \notin missed =>
           (k.told = "applied" <=> Did(c, "bcdedit"))

CallOK(c) == Route(call[c]) /\ SoFar(c) /\ Honest(c)

DebugInv ==
  /\ TypeOK
  /\ \A c \in Calls : CallOK(c)
  /\ PortComesFirst
  /\ FlagsAsAsked

(* It holds before the first call. *)
LEMMA DebugInvInit == Init => DebugInv
<1> SUFFICES ASSUME Init PROVE DebugInv OBVIOUS
<1>1. TypeOK
  BY DebugTypeInit
<1>2. ASSUME NEW c \in Calls PROVE CallOK(c)
  BY DEF Init, At, CallOK, Route, SoFar, Honest, Did
<1>3. PortComesFirst /\ FlagsAsAsked
  BY DEF Init, PortComesFirst, FlagsAsAsked
<1> QED BY <1>1, <1>2, <1>3 DEF DebugInv

(* A step of one call is nothing to another. *)
LEMMA DebugOthers ==
  ASSUME NEW d \in Calls, CallOK(d), call'[d] = call[d],
         \A op \in Ops : [call |-> d, op |-> op] \in did' <=> [call |-> d, op |-> op] \in did,
         tried \subseteq tried', d \in missed' <=> d \in missed
  PROVE  CallOK(d)'
<1>1. \A op \in Ops : Did(d, op)' <=> Did(d, op)
  BY DEF Did
<1>2. Changing \subseteq Ops /\ "bcdedit" \in Ops
  BY DEF Changing, Ops
<1>3. Route(call[d])' /\ SoFar(d)' /\ Honest(d)'
  BY <1>1, <1>2 DEF CallOK, Route, SoFar, Honest
<1> QED BY <1>3 DEF CallOK

(***************************************************************************)
(* The guest and the flags stay accounted for, as long as a step adds to   *)
(* the history and a call that has done something keeps its arguments.     *)
(***************************************************************************)
LEMMA DebugAccounted ==
  ASSUME DebugInv, did \subseteq did', tried \subseteq tried',
         \A d \in Calls : call[d].pc # "idle" => call'[d].asks = call[d].asks
  PROVE  /\ guest'.settings = guest.settings => PortComesFirst'
         /\ vm'.flags = vm.flags => FlagsAsAsked'
<1>1. \A d \in Calls, op \in Ops : Did(d, op) => Did(d, op)' /\ call'[d].asks = call[d].asks
  BY DEF DebugInv, CallOK, SoFar, Did
<1>2. "flags" \in Ops /\ "bcdedit" \in Ops
  BY DEF Ops
<1>3. ASSUME guest'.settings = guest.settings PROVE PortComesFirst'
  BY <1>1, <1>2, <1>3 DEF DebugInv, PortComesFirst
<1>4. ASSUME vm'.flags = vm.flags PROVE FlagsAsAsked'
  BY <1>1, <1>2, <1>4 DEF DebugInv, FlagsAsAsked
<1> QED BY <1>3, <1>4

(* What a command that took effect leaves for the next properties. *)
LEMMA DebugDoes ==
  ASSUME TypeOK, NEW c \in Calls, NEW op \in Ops, NEW end \in Ends, Ended(c, op, end)
  PROVE  /\ guest'.settings = guest.settings
              \/ /\ op = "bcdedit" /\ [call |-> c, op |-> op] \in did'
                 /\ guest'.settings = IF call[c].asks.mode = "serial" THEN "serial" ELSE "net"
         /\ vm'.flags = vm.flags
              \/ /\ op = "flags" /\ [call |-> c, op |-> op] \in did'
                 /\ vm'.flags = FlagsOf(call[c])
<1>1. CASE Does(c, op)
  <2>1. [call |-> c, op |-> op] \in did'
    BY <1>1 DEF Does
  <2>2. CASE op = "flags"
    <3>1. vm' = [vm EXCEPT !.flags = FlagsOf(call[c])] /\ guest' = guest
      BY <1>1, <2>2 DEF Does
    <3> QED BY <2>1, <2>2, <3>1 DEF TypeOK, VM
  <2>3. CASE op = "port"
    <3>1. guest' = guest /\ vm' = [vm EXCEPT !.ports = Append(vm.ports, call[c].socket)]
      BY <1>1, <2>3 DEF Does
    <3> QED BY <3>1 DEF TypeOK, VM
  <2>4. CASE op = "bcdedit"
    <3>1. BcdeditWorks(call[c])
      BY <1>1, <2>4 DEF Does
    <3> QED BY <2>1, <2>4, <3>1 DEF BcdeditWorks
  <2>5. CASE op \in {"attach", "info"}
    BY <1>1, <2>5 DEF Does
  <2> QED BY <2>2, <2>3, <2>4, <2>5 DEF Ops
<1>2. CASE BcdeditBreaks
  BY <1>2 DEF BcdeditBreaks, TypeOK, Guest
<1>3. CASE vm' = vm /\ guest' = guest
  BY <1>3
<1> QED BY <1>1, <1>2, <1>3 DEF Ended

(* What a process that has ended tells of its command.                     *)
LEMMA DebugTrace ==
  ASSUME TypeOK, NEW c \in Calls, NEW op \in Ops, NEW end \in Ends, Ended(c, op, end)
  PROVE  /\ call[c].pc = op
         /\ \A o \in Ops \ {op} : Did(c, o)' <=> Did(c, o)
         /\ Did(c, op)' => Did(c, op) \/ end = "exit0" \/ call[c].cancelled
         /\ end = "exit0" => Did(c, op)'
         /\ op = "bcdedit" /\ end = "notStarted" => c \in missed'
         /\ tried' = tried \cup {[call |-> c, op |-> op]}
<1>1. /\ \/ end # "exit0" /\ did' = did
         \/ end \in {"exit0", "killed"} /\ Does(c, op)
      /\ did' = did \/ did' = did \cup {[call |-> c, op |-> op]}
      /\ tried' = tried \cup {[call |-> c, op |-> op]}
      /\ missed' = IF op = "bcdedit" /\ end = "notStarted" THEN missed \cup {c} ELSE missed
  BY DebugEnded
<1>2. call[c].pc = op /\ (end = "killed" => call[c].cancelled)
  BY DEF Ended
<1>3. Does(c, op) => Did(c, op)'
  BY DEF Does, Did
<1> QED BY <1>1, <1>2, <1>3 DEF Did

(* The call whose process ended is where it should be, and has done and    *)
(* says what it should: one step per operation.                            *)
LEMMA DebugCallStep ==
  ASSUME DebugInv, NEW c \in Calls, Returns(c)
  PROVE  CallOK(c)'
<1> DEFINE k == call[c]
<1>1. TypeOK /\ k \in Call /\ Route(k) /\ SoFar(c)
  BY DEF DebugInv, CallOK, TypeOK
<1>2. \A j : call' = [call EXCEPT ![c] = j] => call'[c] = j
  BY <1>1 DEF TypeOK
<1>9. ASSUME NEW h, h \in Call, NEW pc, GoOn(c, h, pc)
      PROVE  /\ call'[c].pc = pc /\ call'[c].asks = h.asks /\ call'[c].told = h.told
             /\ call'[c].reply = h.reply /\ call'[c].cancelled = h.cancelled
  <2>1. call'[c] = [h EXCEPT !.pc = pc, !.running = FALSE]
    BY <1>2, <1>9 DEF GoOn
  <2> QED BY <1>9, <2>1 DEF Call
<1>10. ASSUME NEW h, h \in Call, NEW reply, Reply(c, h, reply)
      PROVE  /\ call'[c].pc = "answered" /\ call'[c].asks = h.asks /\ call'[c].told = h.told
             /\ call'[c].reply = reply /\ call'[c].cancelled = h.cancelled
  <2>1. call'[c] = [h EXCEPT !.pc = "answered", !.running = FALSE, !.reply = reply]
    BY <1>2, <1>10 DEF Reply
  <2> QED BY <1>10, <2>1 DEF Call
<1> USE DEF CallOK, Route, SoFar, Honest, Changing, Ops
<1>3. CASE FlagsReturns(c)
  <2>1. PICK end \in Ends :
          /\ Ended(c, "flags", end)
          /\ IF k.asks.tool = "vm_configure_debugger"
             THEN Reply(c, k, IF RunErr(end, k.cancelled) = "nil" THEN "ok" ELSE "error")
             ELSE GoOn(c, k, "port")
    BY <1>3 DEF FlagsReturns
  <2>2. /\ k.pc = "flags"
        /\ \A o \in Ops \ {"flags"} : Did(c, o)' <=> Did(c, o)
        /\ Did(c, "flags")' => Did(c, "flags") \/ end = "exit0" \/ k.cancelled
    BY <1>1, <2>1, DebugTrace
  <2>3. k.told = "nothing" /\ k.reply = "none" /\ \A o \in Changing : ~Did(c, o)
    BY <1>1, <2>2
  <2>4. CASE k.asks.tool = "vm_configure_debugger"
    BY <1>1, <1>10, <2>1, <2>2, <2>3, <2>4 DEF RunErr
  <2>5. CASE k.asks.tool # "vm_configure_debugger"
    BY <1>1, <1>9, <2>1, <2>2, <2>3, <2>5
  <2> QED BY <2>4, <2>5
<1>4. CASE AttachReturns(c)
  <2>1. PICK end \in Ends, r \in {"ok", "error"} : Ended(c, "attach", end) /\ Reply(c, k, r)
    BY <1>4 DEF AttachReturns
  <2>2. k.pc = "attach" /\ \A o \in Ops \ {"attach"} : Did(c, o)' <=> Did(c, o)
    BY <1>1, <2>1, DebugTrace
  <2>3. k.told = "nothing" /\ \A o \in Changing : ~Did(c, o)
    BY <1>1, <2>2
  <2> QED BY <1>1, <1>10, <2>1, <2>2, <2>3
<1>5. CASE InfoReturns(c)
  <2>1. PICK end \in Ends, known \in BOOLEAN :
          /\ Ended(c, "info", end)
          /\ Dispatch(c, [k EXCEPT !.known = known, !.socket = SocketOf(k.asks, known)])
    BY <1>5 DEF InfoReturns
  <2> DEFINE h == [k EXCEPT !.known = known, !.socket = SocketOf(k.asks, known)]
  <2>2. k.pc = "info" /\ \A o \in Ops \ {"info"} : Did(c, o)' <=> Did(c, o)
    BY <1>1, <2>1, DebugTrace
  <2>3. k.told = "nothing" /\ k.reply = "none" /\ \A o \in Changing : ~Did(c, o)
    BY <1>1, <2>2
  <2>4. k.asks.tool = "vm_configure_kernel_debug"
    BY <1>1, <2>2
  <2>5. /\ h.asks = k.asks /\ h.told = "nothing" /\ h.reply = "none" /\ h.cancelled = k.cancelled
        /\ DOMAIN h = DOMAIN k
        /\ h \in Call
    BY <1>1, <2>3 DEF Call, SocketOf, Sockets
  <2> HIDE DEF h
  <2>6. h.asks.mode \in Modes /\ Dispatch(c, h)
    BY <2>1, <2>5 DEF Call, Request, h
  <2>7. CASE k.asks.mode = "serial"
    <3>1. GoOn(c, h, "port")
      BY <2>5, <2>6, <2>7 DEF Dispatch
    <3> QED BY <1>9, <2>2, <2>3, <2>4, <2>5, <2>7, <3>1
  <2>8. CASE k.asks.mode = "gdb"
    <3>1. GoOn(c, h, "flags")
      BY <2>5, <2>6, <2>8 DEF Dispatch
    <3> QED BY <1>9, <2>2, <2>3, <2>4, <2>5, <2>8, <3>1
  <2>9. CASE k.asks.mode = "net" /\ k.asks.bcdedit
    <3>1. GoOn(c, h, "bcdedit")
      BY <2>5, <2>6, <2>9 DEF Dispatch
    <3> QED BY <1>9, <2>2, <2>3, <2>4, <2>5, <2>9, <3>1
  <2>10. CASE k.asks.mode = "net" /\ ~k.asks.bcdedit
    <3>1. Reply(c, h, "ok")
      BY <2>5, <2>6, <2>10 DEF Dispatch
    <3> QED BY <1>10, <2>2, <2>3, <2>4, <2>5, <2>10, <3>1
  <2>11. CASE k.asks.mode = "unsupported"
    <3>1. Reply(c, h, "error")
      BY <2>5, <2>6, <2>11 DEF Dispatch
    <3> QED BY <1>10, <2>2, <2>3, <2>4, <2>5, <2>11, <3>1
  <2> QED BY <2>5, <2>6, <2>7, <2>8, <2>9, <2>10, <2>11 DEF Modes
<1>6. CASE PortReturns(c)
  <2>1. PICK end \in Ends :
          /\ Ended(c, "port", end)
          /\ GoOn(c, k, "bcdedit") \/ Reply(c, k, "ok")
    BY <1>6 DEF PortReturns
  <2>2. /\ k.pc = "port" /\ \A o \in Ops \ {"port"} : Did(c, o)' <=> Did(c, o)
        /\ [call |-> c, op |-> "port"] \in tried'
    BY <1>1, <2>1, DebugTrace
  <2>3. k.told = "nothing" /\ k.reply = "none" /\ ~Did(c, "bcdedit")
    BY <1>1, <2>2
  <2> QED BY <1>1, <1>9, <1>10, <2>1, <2>2, <2>3
<1>7. CASE BcdeditReturns(c)
  <2>1. PICK end \in Ends, stderr \in BOOLEAN :
          /\ Ended(c, "bcdedit", end)
          /\ Reply(c, [k EXCEPT
                   !.told = CASE ExecSucceeds(end, k.cancelled) -> "applied"
                              [] ExecErr(end, k.cancelled) # "nil" -> "error"
                              [] OTHER -> IF stderr THEN "error" ELSE "nothing"], "ok")
    BY <1>7 DEF BcdeditReturns
  <2>2. /\ k.pc = "bcdedit"
        /\ Did(c, "bcdedit")' => Did(c, "bcdedit") \/ end = "exit0" \/ k.cancelled
        /\ end = "exit0" => Did(c, "bcdedit")'
        /\ end = "notStarted" => c \in missed'
        /\ end = "killed" => k.cancelled
    BY <1>1, <2>1, DebugTrace DEF Ended
  <2>3. ~Did(c, "bcdedit")
    BY <1>1, <2>2
  <2>4. ~k.cancelled /\ end # "notStarted" => (ExecSucceeds(end, k.cancelled) <=> end = "exit0")
    BY <2>2 DEF Ends, ExecSucceeds, ExecErr, ExitCodeZero, LooksLikeExecFailure
  <2>5. /\ call'[c].pc = "answered" /\ call'[c].reply = "ok" /\ call'[c].cancelled = k.cancelled
        /\ call'[c].told = "applied" <=> ExecSucceeds(end, k.cancelled)
    <3> DEFINE h == [k EXCEPT
                   !.told = CASE ExecSucceeds(end, k.cancelled) -> "applied"
                              [] ExecErr(end, k.cancelled) # "nil" -> "error"
                              [] OTHER -> IF stderr THEN "error" ELSE "nothing"]
    <3>1. /\ h \in Call /\ h.asks = k.asks /\ h.cancelled = k.cancelled
          /\ h.told = "applied" <=> ExecSucceeds(end, k.cancelled)
      BY <1>1 DEF Call, ExecSucceeds
    <3> HIDE DEF h
    <3>2. Reply(c, h, "ok")
      BY <2>1 DEF h
    <3> QED BY <1>10, <3>1, <3>2
  <2> QED BY <2>2, <2>3, <2>4, <2>5
<1> QED BY <1>3, <1>4, <1>5, <1>6, <1>7 DEF Returns

(* The end of a process and what follows it keep the invariant. *)
LEMMA DebugReturnStep ==
  ASSUME DebugInv, NEW c \in Calls, Returns(c)
  PROVE  DebugInv'
<1> DEFINE k == call[c]
<1>1. TypeOK /\ TypeOK' /\ k \in Call /\ CallOK(c)
  <2>1. [Next]_vars
    BY DEF Next
  <2> QED BY <2>1, DebugTypeStep DEF DebugInv, TypeOK
<1>2. PICK op \in Ops, end \in Ends, j \in Call :
        /\ Ended(c, op, end)
        /\ call' = [call EXCEPT ![c] = j]
        /\ j.asks = k.asks /\ j.cancelled = k.cancelled /\ j.pc # "idle"
  BY <1>1, DebugReturned
<1>3. k.pc = op /\ (end = "killed" => k.cancelled)
  BY <1>2 DEF Ended
<1>4. /\ did' = did \/ did' = did \cup {[call |-> c, op |-> op]}
      /\ tried' = tried \cup {[call |-> c, op |-> op]}
      /\ missed' = IF op = "bcdedit" /\ end = "notStarted" THEN missed \cup {c} ELSE missed
  BY <1>1, <1>2, DebugEnded
<1>5. \A d \in Calls \ {c} : CallOK(d)'
  <2>1. ASSUME NEW d \in Calls \ {c} PROVE CallOK(d)'
    <3>1. call'[d] = call[d]
      BY <1>1, <1>2 DEF TypeOK
    <3>2. /\ \A o \in Ops : [call |-> d, op |-> o] \in did' <=> [call |-> d, op |-> o] \in did
          /\ tried \subseteq tried' /\ (d \in missed' <=> d \in missed)
      BY <1>4
    <3> QED BY <3>1, <3>2, DebugOthers DEF DebugInv
  <2> QED BY <2>1
<1>6. call'[c] = j
  BY <1>1, <1>2 DEF TypeOK
<1>7. PortComesFirst' /\ FlagsAsAsked'
  <2>1. \A d \in Calls : call'[d].asks = call[d].asks
    BY <1>1, <1>2 DEF TypeOK
  <2>2. (guest'.settings = guest.settings => PortComesFirst') /\ (vm'.flags = vm.flags => FlagsAsAsked')
    BY <1>4, <2>1, DebugAccounted
  <2>3. ASSUME guest'.settings # guest.settings PROVE PortComesFirst'
    <3>1. /\ op = "bcdedit" /\ [call |-> c, op |-> op] \in did'
          /\ guest'.settings = IF k.asks.mode = "serial" THEN "serial" ELSE "net"
      BY <1>1, <1>2, <2>3, DebugDoes
    <3>2. k.asks.mode = "serial" => [call |-> c, op |-> "port"] \in tried'
      BY <1>1, <1>3, <1>4, <3>1 DEF CallOK, SoFar
    <3>3. call'[c].asks = k.asks
      BY <1>2, <1>6
    <3>4. guest'.settings = "serial" =>
            /\ [call |-> c, op |-> "bcdedit"] \in did' /\ call'[c].asks.mode = "serial"
            /\ [call |-> c, op |-> "port"] \in tried'
      BY <3>1, <3>2, <3>3
    <3> QED BY <3>4 DEF PortComesFirst, Did
  <2>4. ASSUME vm'.flags # vm.flags PROVE FlagsAsAsked'
    <3>1. op = "flags" /\ [call |-> c, op |-> op] \in did' /\ vm'.flags = FlagsOf(k)
      BY <1>1, <1>2, <2>4, DebugDoes
    <3>2. k.asks.tool # "vm_configure_debugger" =>
            k.asks.tool = "vm_configure_kernel_debug" /\ k.asks.mode = "gdb"
      BY <1>1, <1>3, <3>1 DEF CallOK, Route
    <3>3. call'[c].asks = k.asks
      BY <1>2, <1>6
    <3>4. /\ [call |-> c, op |-> "flags"] \in did'
          /\ \/ /\ call'[c].asks.tool = "vm_configure_debugger"
                /\ call'[c].asks.flags = vm'.flags
             \/ /\ call'[c].asks.mode = "gdb" /\ vm'.flags = "gdb"
                /\ call'[c].asks.tool = "vm_configure_kernel_debug"
      BY <3>1, <3>2, <3>3 DEF FlagsOf
    <3> QED BY <3>4 DEF FlagsAsAsked, Did
  <2> QED BY <2>2, <2>3, <2>4
<1>8. CallOK(c)'
  BY DebugCallStep
<1> QED BY <1>1, <1>5, <1>7, <1>8 DEF DebugInv

(* Every step keeps the invariant. *)
LEMMA DebugInvStep == DebugInv /\ [Next]_vars => DebugInv'
<1> SUFFICES ASSUME DebugInv, [Next]_vars PROVE DebugInv' OBVIOUS
<1>1. TypeOK /\ TypeOK'
  BY DebugTypeStep DEF DebugInv
<1>2. ASSUME did' = did, tried' = tried, missed' = missed,
             guest' = guest, vm'.flags = vm.flags,
             \A d \in Calls : call[d].pc # "idle" => call'[d].asks = call[d].asks,
             \A d \in Calls : call'[d] = call[d] \/ CallOK(d)'
      PROVE  DebugInv'
  <2>1. PortComesFirst' /\ FlagsAsAsked'
    BY <1>2, DebugAccounted
  <2>2. ASSUME NEW d \in Calls, call'[d] = call[d] PROVE CallOK(d)'
    BY <1>2, <2>2, DebugOthers DEF DebugInv
  <2> QED BY <1>1, <1>2, <2>1, <2>2 DEF DebugInv
<1>3. ASSUME NEW c \in Calls, Enter(c) PROVE DebugInv'
  <2>1. PICK r \in Requests :
          /\ call[c].pc = "idle"
          /\ call' = [call EXCEPT ![c] = Entered(r)]
          /\ UNCHANGED <<vm, guest, did, tried, missed>>
    BY <1>3 DEF Enter
  <2>2. r.tool \in {"vm_configure_debugger", "vm_guest_debugger", "vm_configure_kernel_debug"}
    BY DebugAssumption DEF Request
  <2>3. \A op \in Ops : ~Did(c, op)
    BY <2>1 DEF DebugInv, CallOK, SoFar
  <2>4. CallOK(c)'
    BY <1>1, <2>1, <2>2, <2>3 DEF TypeOK, Entered, At, CallOK, Route, SoFar, Honest, Changing, Ops, Did
  <2>5. \A d \in Calls : d # c => call'[d] = call[d]
    BY <1>1, <2>1 DEF TypeOK
  <2> QED BY <1>2, <2>1, <2>4, <2>5
<1>4. ASSUME NEW c \in Calls, Spawn(c) \/ Cancel(c) PROVE DebugInv'
  <2>1. /\ call' = [call EXCEPT ![c].running = TRUE] \/ call' = [call EXCEPT ![c].cancelled = TRUE]
        /\ call[c].pc \in Ops
        /\ UNCHANGED <<vm, guest, did, tried, missed>>
    BY <1>4 DEF Spawn, Cancel, Active
  <2>2. CallOK(c)
    BY DEF DebugInv
  <2>3. /\ call'[c].pc = call[c].pc /\ call'[c].asks = call[c].asks
        /\ call'[c].told = call[c].told /\ call'[c].reply = call[c].reply
    BY <1>1, <2>1 DEF TypeOK, Call
  <2>4. CallOK(c)'
    BY <2>1, <2>2, <2>3 DEF CallOK, Route, SoFar, Honest, Ops, Did
  <2>5. \A d \in Calls : d # c => call'[d] = call[d]
    BY <1>1, <2>1 DEF TypeOK
  <2> QED BY <1>2, <2>1, <2>3, <2>4, <2>5
<1>5. ASSUME NEW c \in Calls, Returns(c) PROVE DebugInv'
  BY <1>5, DebugReturnStep
<1>6. CASE Power
  BY <1>1, <1>2, <1>6 DEF Power, TypeOK, VM
<1>7. CASE ServerStops
  <2>1. ASSUME NEW d \in Calls
        PROVE  call'[d].asks = call[d].asks /\ (call'[d] = call[d] \/ CallOK(d)')
    <3>1. call'[d] = IF Active(call[d]) THEN [call[d] EXCEPT !.pc = "lost"] ELSE call[d]
      BY <1>7 DEF ServerStops
    <3>2. CASE Active(call[d])
      <4>1. /\ call'[d].pc = "lost" /\ call'[d].asks = call[d].asks
            /\ call'[d].told = call[d].told /\ call'[d].reply = call[d].reply
        BY <1>1, <3>1, <3>2 DEF TypeOK, Call
      <4>2. call[d].pc \in Ops /\ CallOK(d)
        BY <3>2 DEF Active, DebugInv
      <4> QED BY <4>1, <4>2 DEF CallOK, Route, SoFar, Honest, Ops
    <3>3. CASE ~Active(call[d])
      BY <3>1, <3>3
    <3> QED BY <3>2, <3>3
  <2> QED BY <1>2, <1>7, <2>1 DEF ServerStops
<1>8. CASE UNCHANGED vars
  BY <1>2, <1>8 DEF vars
<1> QED BY <1>3, <1>4, <1>5, <1>6, <1>7, <1>8 DEF Next

LEMMA DebugInvAlways == Spec => []DebugInv
BY DebugInvInit, DebugInvStep, PTL DEF Spec

(* A call that was not cancelled, and whose bcdedit prlctl could be        *)
(* started for, says "applied" exactly when both bcdedit commands worked   *)
(* (extra_ops.go ConfigureKernelDebug).  One that prlctl was never started *)
(* for says it as well, and nothing was done.                              *)
THEOREM DebugAppliedIsTrue == Spec => []AppliedIsTrue
<1>1. DebugInv => AppliedIsTrue
  BY DEF DebugInv, CallOK, Honest, AppliedIsTrue
<1> QED BY <1>1, DebugInvAlways, PTL

(* A call that ends in an error has changed nothing, unless it was         *)
(* cancelled.                                                              *)
THEOREM DebugErrorChangesNothing == Spec => []ErrorChangesNothing
<1>1. DebugInv => ErrorChangesNothing
  BY DEF DebugInv, CallOK, Honest, Changing, ErrorChangesNothing
<1> QED BY <1>1, DebugInvAlways, PTL

(* The host is asked for the port, whatever it answers, before the guest   *)
(* is told to use it.                                                      *)
THEOREM DebugPortComesFirst == Spec => []PortComesFirst
<1>1. DebugInv => PortComesFirst
  BY DEF DebugInv
<1> QED BY <1>1, DebugInvAlways, PTL

(* The debugger is on only where a call asked for it.                      *)
THEOREM DebugFlagsAsAsked == Spec => []FlagsAsAsked
<1>1. DebugInv => FlagsAsAsked
  BY DEF DebugInv
<1> QED BY <1>1, DebugInvAlways, PTL

-----------------------------------------------------------------------------
(***************************************************************************)
(* That a call comes to its end: how many prlctl processes it can still    *)
(* need.  Of gdb mode the port is the last, of serial mode it is not.      *)
(***************************************************************************)
Processes(k) ==
  CASE k.pc = "info" -> 3
    [] k.pc = "flags" -> 2
    [] k.pc = "port" -> IF k.asks.mode = "serial" THEN 2 ELSE 1
    [] OTHER -> 1

StepsLeft(k) ==
  IF ~Active(k) THEN 0
  ELSE IF k.running THEN 2 * Processes(k) - 1 ELSE 2 * Processes(k)

LEMMA ProcessesFacts ==
  ASSUME NEW k
  PROVE  /\ k.pc = "info" => Processes(k) = 3
         /\ k.pc = "flags" => Processes(k) = 2
         /\ k.pc = "port" /\ k.asks.mode = "serial" => Processes(k) = 2
         /\ k.pc = "port" /\ k.asks.mode # "serial" => Processes(k) = 1
         /\ k.pc \in {"attach", "bcdedit"} => Processes(k) = 1
         /\ Processes(k) \in 1..3
  BY DEF Processes

LEMMA StepsLeftFacts ==
  ASSUME NEW k
  PROVE  /\ Active(k) => StepsLeft(k) \in {2 * Processes(k) - 1, 2 * Processes(k)}
         /\ Active(k) /\ ~k.running => StepsLeft(k) = 2 * Processes(k)
         /\ Active(k) /\ k.running => StepsLeft(k) = 2 * Processes(k) - 1
         /\ ~Active(k) => StepsLeft(k) = 0
         /\ StepsLeft(k) \in 0..6
  BY ProcessesFacts DEF StepsLeft

(* A call that goes on with fewer processes ahead, or none, has fewer steps. *)
LEMMA FewerSteps ==
  ASSUME NEW k, NEW j, Active(k), ~Active(j) \/ (~j.running /\ Processes(j) < Processes(k))
  PROVE  StepsLeft(j) < StepsLeft(k)
<1>1. /\ StepsLeft(k) \in {2 * Processes(k) - 1, 2 * Processes(k)}
      /\ Processes(k) \in 1..3 /\ Processes(j) \in 1..3
  BY StepsLeftFacts, ProcessesFacts
<1>2. StepsLeft(j) = 0 \/ (StepsLeft(j) = 2 * Processes(j) /\ Processes(j) < Processes(k))
  BY StepsLeftFacts
<1> QED BY <1>1, <1>2

LEMMA DebugReturnLowers ==
  ASSUME DebugInv, NEW c \in Calls, Returns(c)
  PROVE  StepsLeft(call'[c]) < StepsLeft(call[c])
<1> DEFINE k == call[c]
<1>1. k \in Call /\ call \in [Calls -> Call] /\ Route(k)
  BY DEF DebugInv, CallOK, TypeOK
<1>2. Active(k)
  BY DEF Returns, FlagsReturns, AttachReturns, InfoReturns, PortReturns, BcdeditReturns,
         Ended, Active, Ops
<1>3. ASSUME NEW h \in Call, NEW reply, Reply(c, h, reply)
      PROVE  StepsLeft(call'[c]) < StepsLeft(k)
  <2>1. call'[c].pc = "answered"
    BY <1>1, <1>3 DEF Reply, Call
  <2> QED BY <1>2, <2>1, FewerSteps DEF Active, Ops
<1>4. ASSUME NEW h \in Call, NEW pc, GoOn(c, h, pc)
      PROVE  call'[c].pc = pc /\ ~call'[c].running /\ call'[c].asks = h.asks
  BY <1>1, <1>4 DEF GoOn, Call
<1>5. CASE FlagsReturns(c)
  <2>1. \/ \E reply : Reply(c, k, reply)
        \/ k.asks.tool # "vm_configure_debugger" /\ GoOn(c, k, "port")
    BY <1>5 DEF FlagsReturns
  <2>2. k.pc = "flags"
    BY <1>5 DEF FlagsReturns, Ended
  <2>3. CASE k.asks.tool # "vm_configure_debugger" /\ GoOn(c, k, "port")
    <3>1. /\ call'[c].pc = "port" /\ ~call'[c].running /\ call'[c].asks.mode = "gdb"
      BY <1>1, <1>4, <2>2, <2>3 DEF Route
    <3>2. Processes(call'[c]) = 1 /\ Processes(k) = 2
      BY <2>2, <3>1, ProcessesFacts
    <3> QED BY <1>2, <3>1, <3>2, FewerSteps
  <2> QED BY <1>1, <1>3, <2>1, <2>3
<1>6. CASE AttachReturns(c)
  BY <1>1, <1>3, <1>6 DEF AttachReturns
<1>7. CASE InfoReturns(c)
  <2>1. PICK known \in BOOLEAN :
          Dispatch(c, [k EXCEPT !.known = known, !.socket = SocketOf(k.asks, known)])
    BY <1>7 DEF InfoReturns
  <2>2. k.pc = "info"
    BY <1>7 DEF InfoReturns, Ended
  <2> DEFINE h == [k EXCEPT !.known = known, !.socket = SocketOf(k.asks, known)]
  <2>3. h \in Call
    BY <1>1 DEF Call, SocketOf, Sockets
  <2>4. h.asks.mode \in Modes
    BY <2>3 DEF Call, Request
  <2> HIDE DEF h
  <2>5. \/ \E reply : Reply(c, h, reply)
        \/ \E pc \in {"port", "flags", "bcdedit"} : GoOn(c, h, pc)
    BY <2>1, <2>4 DEF Dispatch, Modes, h
  <2>6. ASSUME NEW pc \in {"port", "flags", "bcdedit"}, GoOn(c, h, pc)
        PROVE  StepsLeft(call'[c]) < StepsLeft(k)
    <3>1. call'[c].pc = pc /\ ~call'[c].running
      BY <1>4, <2>3, <2>6
    <3>2. Processes(call'[c]) \in {1, 2} /\ Processes(k) = 3
      BY <2>2, <2>6, <3>1, ProcessesFacts
    <3>3. Processes(call'[c]) < Processes(k)
      BY <3>2
    <3> QED BY <1>2, <3>1, <3>3, FewerSteps
  <2> QED BY <1>3, <2>3, <2>5, <2>6
<1>8. CASE PortReturns(c)
  <2>1. \/ \E reply : Reply(c, k, reply)
        \/ k.asks.mode = "serial" /\ GoOn(c, k, "bcdedit")
    BY <1>8 DEF PortReturns
  <2>2. k.pc = "port"
    BY <1>8 DEF PortReturns, Ended
  <2>3. CASE k.asks.mode = "serial" /\ GoOn(c, k, "bcdedit")
    <3>1. call'[c].pc = "bcdedit" /\ ~call'[c].running
      BY <1>1, <1>4, <2>3
    <3>2. Processes(call'[c]) = 1 /\ Processes(k) = 2
      BY <2>2, <2>3, <3>1, ProcessesFacts
    <3> QED BY <1>2, <3>1, <3>2, FewerSteps
  <2> QED BY <1>1, <1>3, <2>1, <2>3
<1>9. CASE BcdeditReturns(c)
  <2>1. PICK t \in {"applied", "error", "nothing"} : Reply(c, [k EXCEPT !.told = t], "ok")
    BY <1>9 DEF BcdeditReturns
  <2>2. [k EXCEPT !.told = t] \in Call
    BY <1>1 DEF Call
  <2> QED BY <1>3, <2>1, <2>2
<1> QED BY <1>5, <1>6, <1>7, <1>8, <1>9 DEF Returns

LEMMA DebugSpawnLowers ==
  ASSUME DebugInv, NEW c \in Calls, Spawn(c)
  PROVE  StepsLeft(call'[c]) < StepsLeft(call[c])
<1>1. /\ call[c] \in Call /\ Active(call[c]) /\ ~call[c].running
      /\ call'[c] = [call[c] EXCEPT !.running = TRUE]
  BY DEF DebugInv, TypeOK, Spawn
<1>2. call'[c].pc = call[c].pc /\ call'[c].asks = call[c].asks /\ call'[c].running
  BY <1>1 DEF Call
<1>3. Processes(call'[c]) = Processes(call[c]) /\ Active(call'[c])
  BY <1>1, <1>2 DEF Processes, Active
<1>4. /\ StepsLeft(call[c]) = 2 * Processes(call[c])
      /\ StepsLeft(call'[c]) = 2 * Processes(call'[c]) - 1
      /\ Processes(call'[c]) = Processes(call[c]) /\ Processes(call[c]) \in 1..3
  BY <1>1, <1>2, <1>3, StepsLeftFacts, ProcessesFacts
<1> QED BY <1>4

(* Nobody else gives a call more to do. *)
LEMMA DebugOthersLower ==
  ASSUME DebugInv, [Next]_vars, NEW c \in Calls, Active(call[c]), ~(Spawn(c) \/ Returns(c))
  PROVE  StepsLeft(call'[c]) <= StepsLeft(call[c])
<1> DEFINE k == call[c]
<1>0. k \in Call /\ call \in [Calls -> Call] /\ StepsLeft(k) \in 0..6
  BY StepsLeftFacts DEF DebugInv, TypeOK
<1>1. CASE call'[c] = k
  BY <1>0, <1>1
<1>2. ASSUME NEW d \in Calls, Enter(d) \/ Spawn(d) \/ Returns(d) \/ Cancel(d), d # c
      PROVE  call'[c] = k
  <2>1. CASE Enter(d) \/ Spawn(d) \/ Cancel(d)
    <3>1. PICK j : call' = [call EXCEPT ![d] = j]
      BY <2>1 DEF Enter, Spawn, Cancel
    <3> QED BY <1>0, <1>2, <3>1
  <2>2. CASE Returns(d)
    <3>1. PICK j : call' = [call EXCEPT ![d] = j]
      BY <2>2, DebugReturned DEF DebugInv
    <3> QED BY <1>0, <1>2, <3>1
  <2> QED BY <1>2, <2>1, <2>2
<1>3. ~Enter(c)
  BY DEF Enter, Active, Ops
<1>4. CASE Cancel(c)
  <2>1. call'[c] = [k EXCEPT !.cancelled = TRUE]
    BY <1>0, <1>4 DEF Cancel
  <2>2. call'[c].pc = k.pc /\ call'[c].asks = k.asks /\ call'[c].running = k.running
    BY <1>0, <2>1 DEF Call
  <2>3. StepsLeft(call'[c]) = StepsLeft(k)
    BY <2>2 DEF StepsLeft, Processes, Active
  <2> QED BY <1>0, <2>3
<1>5. CASE ServerStops
  <2>1. call'[c] = [k EXCEPT !.pc = "lost"]
    BY <1>5 DEF ServerStops
  <2>2. call'[c].pc = "lost"
    BY <1>0, <2>1 DEF Call
  <2>3. StepsLeft(call'[c]) = 0
    BY <2>2, StepsLeftFacts DEF Active, Ops
  <2> QED BY <1>0, <2>3
<1>6. CASE Power \/ UNCHANGED vars
  BY <1>1, <1>6 DEF Power, vars
<1> QED BY <1>1, <1>2, <1>3, <1>4, <1>5, <1>6 DEF Next

(***************************************************************************)
(* No debugger call starts more than three prlctl processes: each of its   *)
(* steps brings it nearer to its end and nothing else takes it further     *)
(* away, although a step whose error is dropped is followed by the next.   *)
(***************************************************************************)
THEOREM DebugRunsDown ==
  Spec => /\ [](\A c \in Calls : StepsLeft(call[c]) \in 0..6)
          /\ [][\A c \in Calls :
                  /\ Spawn(c) \/ Returns(c) => StepsLeft(call'[c]) < StepsLeft(call[c])
                  /\ Active(call[c]) => StepsLeft(call'[c]) <= StepsLeft(call[c])]_vars
<1>1. DebugInv => \A c \in Calls : StepsLeft(call[c]) \in 0..6
  BY StepsLeftFacts
<1>2. ASSUME DebugInv, [Next]_vars, NEW c \in Calls
      PROVE  /\ Spawn(c) \/ Returns(c) => StepsLeft(call'[c]) < StepsLeft(call[c])
             /\ Active(call[c]) => StepsLeft(call'[c]) <= StepsLeft(call[c])
  <2>1. StepsLeft(call[c]) \in 0..6 /\ StepsLeft(call'[c]) \in 0..6
    BY StepsLeftFacts
  <2> QED BY <1>2, <2>1, DebugReturnLowers, DebugSpawnLowers, DebugOthersLower
<1>3. DebugInv /\ [Next]_vars =>
        [\A c \in Calls :
           /\ Spawn(c) \/ Returns(c) => StepsLeft(call'[c]) < StepsLeft(call[c])
           /\ Active(call[c]) => StepsLeft(call'[c]) <= StepsLeft(call[c])]_vars
  BY <1>2
<1> QED BY <1>1, <1>3, DebugInvAlways, PTL DEF Spec
=============================================================================
