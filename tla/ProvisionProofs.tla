-------------------------- MODULE ProvisionProofs --------------------------
(***************************************************************************)
(* What vm_create and vm_clone guarantee for any number of VMs, names and  *)
(* calls, any time limits and any number of changes from outside.          *)
(***************************************************************************)
EXTENDS Provision, Ranks, TLAPS

(***************************************************************************)
(* Time.                                                                   *)
(***************************************************************************)

(* A wait is a natural number, and the one asked for wherever that fits a  *)
(* Duration.                                                               *)
LEMMA WaitFits ==
  ASSUME NEW r \in Request
  PROVE  /\ IPWait(r) \in Nat
         /\ r.seconds > 0 /\ Fits(r.seconds) => IPWait(r) = r.seconds * Second
         /\ r.seconds <= 0 \/ Seconds(r.seconds) <= 0 => IPWait(r) = DefaultWait
<1> DEFINE n == r.seconds
           m == n * Second
<1>1. n \in Int /\ m \in Int /\ Half \in Nat \ {0} /\ Second \in Nat \ {0}
  BY DurationAssumption DEF Request
<1>2. (m + Half) % (2 * Half) \in Int
  BY <1>1
<1>3. Seconds(n) \in Int
  BY <1>2, <1>1 DEF Seconds
<1>4. IPWait(r) \in Nat
  BY <1>1, <1>3, ProvisionAssumption DEF IPWait
<1>5. ASSUME n > 0, Fits(n) PROVE IPWait(r) = m
  <2>1. m > 0 /\ m < Half
    BY <1>1, <1>5 DEF Fits
  <2>2. (m + Half) % (2 * Half) = m + Half
    <3>1. m + Half \in Nat /\ 2 * Half \in Nat \ {0} /\ m + Half < 2 * Half
      BY <1>1, <2>1
    <3>2. \A a \in Nat, b \in Nat \ {0} : a < b => a % b = a
      OBVIOUS
    <3> QED BY <3>1, <3>2
  <2>3. Seconds(n) = m
    BY <1>1, <2>2 DEF Seconds
  <2> QED BY <1>5, <2>1, <2>3 DEF IPWait
<1>6. n <= 0 \/ Seconds(n) <= 0 => IPWait(r) = DefaultWait
  BY <1>1, <1>3 DEF IPWait
<1> QED BY <1>4, <1>5, <1>6

(***************************************************************************)
(* The types.  A call that is still polling has a turn less behind it than *)
(* one that gave up.                                                       *)
(***************************************************************************)

InTime(k) ==
  /\ k.waited <= IPWait(k.asks) + 2 * Interval
  /\ k.pc \in Ops \cup {"idle"} => k.waited <= IPWait(k.asks) + Interval

Typed == TypeOK /\ \A c \in Creations : InTime(call[c])

(* The initial states have the types of their variables. *)
LEMMA ProvisionTypeInit == Init => Typed
<1> SUFFICES ASSUME Init PROVE Typed OBVIOUS
<1>1. \A r \in Requests : At("idle", r) \in Call /\ InTime(At("idle", r))
  <2>1. ASSUME NEW r \in Requests PROVE At("idle", r) \in Call /\ InTime(At("idle", r))
    <3>1. r \in Request /\ IPWait(r) \in Nat
      BY ProvisionAssumption, WaitFits
    <3> QED BY <3>1, ProvisionAssumption DEF At, Call, InTime
  <2> QED BY <2>1
<1>2. (CHOOSE r \in Requests : TRUE) \in Requests
  BY ProvisionAssumption
<1>3. call \in [Creations -> Call] /\ \A c \in Creations : InTime(call[c])
  BY <1>1, <1>2 DEF Init
<1>4. vm \in [VMs -> VM]
  BY DEF Init, VM
<1>5. \A c \in Creations : call[c].waited <= IPWait(call[c].asks) + 2 * Interval
  BY <1>3 DEF InTime
<1>6. /\ landed = {} /\ failed = {} /\ up = TRUE /\ outside \in 0..MaxOutside
  BY ProvisionAssumption DEF Init
<1>7. TypeOK
  BY <1>3, <1>4, <1>5, <1>6 DEF TypeOK
<1> QED BY <1>3, <1>7 DEF Typed

(* What the end of a process leaves behind. *)
LEMMA ProvisionEnded ==
  ASSUME Typed, NEW c \in Creations, NEW op \in Ops, NEW end \in Ends, Ended(c, op, end)
  PROVE  /\ vm' \in [VMs -> VM]
         /\ landed' \subseteq [call : Creations, op : Ops, vm : VMs]
         /\ failed' \subseteq [call : Creations, op : Ops]
         /\ up' = up /\ outside' = outside
<1>1. ASSUME NEW v \in VMs, Does(c, op, v)
      PROVE  vm' \in [VMs -> VM] /\ landed' \subseteq [call : Creations, op : Ops, vm : VMs]
  <2>1. landed' = landed \cup {[call |-> c, op |-> op, vm |-> v]}
    BY <1>1 DEF Does
  <2>2. CASE op \in {"create", "fallback", "clone"}
    <3>1. vm' = [vm EXCEPT ![v] = [state |-> "stopped", name |-> call[c].asks.name, by |-> c,
                                   template |-> Flagged(op, call[c].asks)]]
      BY <1>1, <2>2 DEF Does
    <3>2. call[c].asks \in Request
      BY DEF Typed, TypeOK, Call
    <3>3. Flagged(op, call[c].asks) \in BOOLEAN
      BY <3>2 DEF Flagged, Request
    <3>4. [state |-> "stopped", name |-> call[c].asks.name, by |-> c,
           template |-> Flagged(op, call[c].asks)] \in VM
      BY <3>2, <3>3 DEF VM, Request
    <3> QED BY <2>1, <3>1, <3>4 DEF Typed, TypeOK
  <2>3. CASE op = "start"
    <3>1. vm' = [vm EXCEPT ![v].state = "running"]
      BY <1>1, <2>3 DEF Does
    <3> QED BY <2>1, <3>1 DEF Typed, TypeOK, VM
  <2>4. CASE op \notin {"create", "fallback", "clone", "start"}
    <3>1. vm' = vm
      BY <1>1, <2>4 DEF Does
    <3> QED BY <2>1, <3>1 DEF Typed, TypeOK
  <2> QED BY <2>2, <2>3, <2>4
<1>2. failed' \subseteq [call : Creations, op : Ops] /\ up' = up /\ outside' = outside
  BY DEF Ended, Typed, TypeOK
<1>3. (\E v \in VMs : Does(c, op, v)) \/ (vm' = vm /\ landed' = landed)
  BY DEF Ended
<1> QED BY <1>1, <1>2, <1>3 DEF Typed, TypeOK

(* Where a call goes and what it becomes on the way.                       *)
LEMMA ProvisionReturned ==
  ASSUME Typed, NEW c \in Creations, Returns(c)
  PROVE  \E op \in Ops, end \in Ends, j \in Call :
           /\ Ended(c, op, end)
           /\ call' = [call EXCEPT ![c] = j]
           /\ j.asks = call[c].asks /\ j.cancelled = call[c].cancelled
           /\ ~j.running /\ j.pc # "idle"
           /\ InTime(j)
<1> DEFINE k == call[c]
           Shape(j) == /\ j \in Call /\ j.asks = k.asks /\ j.cancelled = k.cancelled
                       /\ ~j.running /\ j.pc # "idle" /\ InTime(j)
           Same(h) == h \in Call /\ h.asks = k.asks /\ h.cancelled = k.cancelled
<1>1. k \in Call /\ InTime(k) /\ IPWait(k.asks) \in Nat /\ Interval \in Nat
  BY WaitFits, ProvisionAssumption DEF Typed, TypeOK, Call
<1>2. ASSUME NEW h, Same(h), NEW pc \in Ops, GoOn(c, h, pc),
             h.waited <= IPWait(k.asks) + Interval
      PROVE  \E j \in Call : Shape(j) /\ call' = [call EXCEPT ![c] = j]
  <2> DEFINE j == [h EXCEPT !.pc = pc, !.running = FALSE]
  <2>2. /\ j \in Call /\ j.asks = k.asks /\ j.cancelled = k.cancelled
        /\ j.running = FALSE /\ j.pc = pc /\ j.waited = h.waited /\ j.waited \in Nat
    BY <1>2 DEF Call
  <2> HIDE DEF j
  <2>3. InTime(j)
    BY <1>1, <1>2, <2>2 DEF InTime
  <2>4. pc # "idle"
    BY DEF Ops
  <2>1. Shape(j)
    BY <2>2, <2>3, <2>4
  <2> USE DEF j
  <2> QED BY <1>2, <2>1 DEF GoOn
<1>3. ASSUME NEW h, Same(h), NEW r \in {"ok", "error"}, Reply(c, h, r),
             h.waited <= IPWait(k.asks) + 2 * Interval
      PROVE  \E j \in Call : Shape(j) /\ call' = [call EXCEPT ![c] = j]
  <2> DEFINE j == [h EXCEPT !.pc = "answered", !.running = FALSE, !.reply = r]
  <2>2. /\ j \in Call /\ j.asks = k.asks /\ j.cancelled = k.cancelled
        /\ j.running = FALSE /\ j.pc = "answered" /\ j.waited = h.waited /\ j.waited \in Nat
    BY <1>3 DEF Call
  <2> HIDE DEF j
  <2>3. InTime(j)
    BY <1>1, <1>3, <2>2 DEF InTime, Ops
  <2>1. Shape(j)
    BY <2>2, <2>3
  <2> USE DEF j
  <2> QED BY <1>3, <2>1 DEF Reply
<1>4. \A op \in Ops : \A h \in {k, Done(k, op), Warned(k, op)} :
        Same(h) /\ h.waited = k.waited
  <2>1. ASSUME NEW op \in Ops PROVE Same(Done(k, op)) /\ Done(k, op).waited = k.waited
    BY <1>1 DEF Done, Call
  <2>2. ASSUME NEW op \in Ops PROVE Same(Warned(k, op)) /\ Warned(k, op).waited = k.waited
    BY <1>1 DEF Warned, Call
  <2>3. Same(k)
    BY <1>1
  <2> QED BY <2>1, <2>2, <2>3
<1>5. k.pc \in Ops => /\ k.waited <= IPWait(k.asks) + Interval
                      /\ k.waited <= IPWait(k.asks) + 2 * Interval
  BY <1>1 DEF InTime
<1>6. \A op, end : Ended(c, op, end) => k.pc = op
  BY DEF Ended
<1> HIDE DEF Shape, Same, k
<1>7. CASE CreateReturns(c)
  <2>1. PICK end \in Ends :
          /\ Ended(c, "create", end)
          /\ GoOn(c, Done(k, "create"), "find") \/ GoOn(c, k, "fallback")
    BY <1>7 DEF CreateReturns, k
  <2> QED BY <1>2, <1>4, <1>5, <1>6, <2>1 DEF Ops, Shape, k
<1>8. CASE FallbackReturns(c)
  <2>1. PICK end \in Ends :
          /\ Ended(c, "fallback", end)
          /\ GoOn(c, Done(k, "create"), "find") \/ Reply(c, k, "error")
    BY <1>8 DEF FallbackReturns, k
  <2> QED BY <1>2, <1>3, <1>4, <1>5, <1>6, <2>1 DEF Ops, Shape, k
<1>9. CASE FindReturns(c)
  <2>1. PICK end \in Ends, pc \in {"set", "start"} :
          /\ Ended(c, "find", end)
          /\ GoOn(c, IF RunErr(end, k.cancelled) = "nil"
                     THEN [k EXCEPT !.uuid = CHOOSE v \in Named(k.asks.name) : TRUE]
                     ELSE Warned(k, "find"), pc)
    BY <1>9 DEF FindReturns, k
  <2>2. CASE RunErr(end, k.cancelled) = "nil"
    <3> DEFINE h == [k EXCEPT !.uuid = CHOOSE v \in Named(k.asks.name) : TRUE]
    <3>1. end = "exit0"
      BY <2>2 DEF RunErr, Ends
    <3>2. Named(k.asks.name) # {}
      BY <2>1, <3>1 DEF Ended, Does, k
    <3>3. (CHOOSE v \in Named(k.asks.name) : TRUE) \in VMs
      BY <3>2 DEF Named
    <3>4. Same(h) /\ h.waited = k.waited
      BY <1>1, <3>3 DEF Same, Call, k
    <3> HIDE DEF h
    <3>5. GoOn(c, h, pc)
      BY <2>1, <2>2 DEF h
    <3> QED BY <1>2, <1>5, <1>6, <2>1, <3>4, <3>5 DEF Ops, Shape, k
  <2>3. CASE RunErr(end, k.cancelled) # "nil"
    BY <1>2, <1>4, <1>5, <1>6, <2>1, <2>3 DEF Ops, Shape, k
  <2> QED BY <2>2, <2>3
<1>10. CASE SetReturns(c)
  <2>1. PICK end \in Ends :
          /\ Ended(c, "set", end)
          /\ GoOn(c, Done(k, "set"), "start") \/ GoOn(c, Warned(k, "set"), "start")
    BY <1>10 DEF SetReturns, k
  <2> QED BY <1>2, <1>4, <1>5, <1>6, <2>1 DEF Ops, Shape, k
<1>11. CASE StartReturns(c)
  <2>1. PICK end \in Ends :
          /\ Ended(c, "start", end)
          /\ \/ \E pc \in {"ssh", "poll"} : GoOn(c, Done(k, "start"), pc)
             \/ Reply(c, Warned(k, "start"), "ok")
    BY <1>11 DEF StartReturns, k
  <2> QED BY <1>2, <1>3, <1>4, <1>5, <1>6, <2>1 DEF Ops, Shape, k
<1>12. CASE SshReturns(c)
  <2>1. PICK end \in Ends :
          /\ Ended(c, "ssh", end)
          /\ GoOn(c, Done(k, "ssh"), "poll") \/ GoOn(c, Warned(k, "ssh"), "poll")
    BY <1>12 DEF SshReturns, k
  <2> QED BY <1>2, <1>4, <1>5, <1>6, <2>1 DEF Ops, Shape, k
<1>13. CASE PollReturns(c)
  <2>1. PICK end \in Ends, took \in 0..Interval, found \in BOOLEAN :
          /\ Ended(c, "poll", end)
          /\ IF found \/ k.waited + took > IPWait(k.asks) \/ k.cancelled
             THEN Reply(c, [k EXCEPT !.ips = found, !.waited = k.waited + took], "ok")
             ELSE GoOn(c, [k EXCEPT !.waited = k.waited + took + Interval], "poll")
    BY <1>13 DEF PollReturns, k
  <2>2. k.waited \in Nat /\ k.waited + took \in Nat /\ k.waited + took + Interval \in Nat
    BY <1>1 DEF Call
  <2>3. k.waited + took <= IPWait(k.asks) + 2 * Interval
    BY <1>1, <1>5, <1>6, <2>1, <2>2 DEF Ops
  <2>4. CASE found \/ k.waited + took > IPWait(k.asks) \/ k.cancelled
    <3> DEFINE h == [k EXCEPT !.ips = found, !.waited = k.waited + took]
    <3>1. Same(h) /\ h.waited = k.waited + took
      BY <1>1, <2>2 DEF Same, Call, k
    <3> HIDE DEF h
    <3>2. Reply(c, h, "ok")
      BY <2>1, <2>4 DEF h
    <3> QED BY <1>3, <2>1, <2>3, <3>1, <3>2 DEF Ops, Shape, k
  <2>5. CASE ~(found \/ k.waited + took > IPWait(k.asks) \/ k.cancelled)
    <3> DEFINE h == [k EXCEPT !.waited = k.waited + took + Interval]
    <3>1. Same(h) /\ h.waited = k.waited + took + Interval
      BY <1>1, <2>2 DEF Same, Call, k
    <3>2. k.waited + took + Interval <= IPWait(k.asks) + Interval
      BY <1>1, <2>2, <2>5
    <3> HIDE DEF h
    <3>3. GoOn(c, h, "poll")
      BY <2>1, <2>5 DEF h
    <3> QED BY <1>2, <2>1, <3>1, <3>2, <3>3 DEF Ops, Shape, k
  <2> QED BY <2>4, <2>5
<1>14. CASE CloneReturns(c)
  <2>1. PICK end \in Ends :
          /\ Ended(c, "clone", end)
          /\ Reply(c, Done(k, "clone"), "ok") \/ Reply(c, k, "error")
    BY <1>14 DEF CloneReturns, k
  <2> QED BY <1>3, <1>4, <1>5, <1>6, <2>1 DEF Ops, Shape, k
<1> QED BY <1>7, <1>8, <1>9, <1>10, <1>11, <1>12, <1>13, <1>14 DEF Returns

(* Every step keeps the types. *)
LEMMA ProvisionTypeStep == Typed /\ [Next]_vars => Typed'
<1> SUFFICES ASSUME Typed, [Next]_vars PROVE Typed' OBVIOUS
<1>1. /\ TypeOK /\ vm \in [VMs -> VM] /\ call \in [Creations -> Call]
      /\ \A c \in Creations : InTime(call[c])
  BY DEF Typed, TypeOK
<1>2. ASSUME call' \in [Creations -> Call], \A c \in Creations : InTime(call'[c]),
             vm' \in [VMs -> VM], landed' \subseteq [call : Creations, op : Ops, vm : VMs],
             failed' \subseteq [call : Creations, op : Ops], up' \in BOOLEAN,
             outside' \in 0..MaxOutside
      PROVE  Typed'
  BY <1>2 DEF Typed, TypeOK, InTime
<1>3. ASSUME NEW c \in Creations, NEW j \in Call, InTime(j), call' = [call EXCEPT ![c] = j]
      PROVE  call' \in [Creations -> Call] /\ \A d \in Creations : InTime(call'[d])
  BY <1>1, <1>3
<1>4. ASSUME NEW c \in Creations, Enter(c) PROVE Typed'
  <2>1. PICK r \in Requests : call' = [call EXCEPT ![c] = At(r.tool, r)]
    BY <1>4 DEF Enter
  <2>2. r \in Request /\ IPWait(r) \in Nat
    BY ProvisionAssumption, WaitFits
  <2>3. At(r.tool, r) \in Call /\ InTime(At(r.tool, r))
    BY <2>2, ProvisionAssumption DEF At, Call, Ops, Request, InTime
  <2> QED BY <1>1, <1>2, <1>3, <1>4, <2>1, <2>3 DEF Enter, TypeOK
<1>5. ASSUME NEW c \in Creations, Spawn(c) PROVE Typed'
  <2> DEFINE j == [call[c] EXCEPT !.running = TRUE]
  <2>1. /\ j \in Call /\ j.pc = call[c].pc /\ j.asks = call[c].asks
        /\ j.waited = call[c].waited
    BY <1>1 DEF Call
  <2>2. InTime(j)
    BY <1>1, <2>1 DEF InTime
  <2> QED BY <1>1, <1>2, <1>3, <1>5, <2>1, <2>2 DEF Spawn, TypeOK
<1>6. ASSUME NEW c \in Creations, Cancel(c) PROVE Typed'
  <2> DEFINE j == [call[c] EXCEPT !.cancelled = TRUE]
  <2>1. /\ j \in Call /\ j.pc = call[c].pc /\ j.asks = call[c].asks
        /\ j.waited = call[c].waited
    BY <1>1 DEF Call
  <2>2. InTime(j)
    BY <1>1, <2>1 DEF InTime
  <2> QED BY <1>1, <1>2, <1>3, <1>6, <2>1, <2>2 DEF Cancel, TypeOK
<1>7. ASSUME NEW c \in Creations, Returns(c) PROVE Typed'
  <2>1. PICK op \in Ops, end \in Ends, j \in Call :
          Ended(c, op, end) /\ call' = [call EXCEPT ![c] = j] /\ InTime(j)
    BY <1>7, ProvisionReturned
  <2> QED BY <1>1, <1>2, <1>3, <2>1, ProvisionEnded DEF TypeOK
<1>8. ASSUME NEW v \in VMs, Outside(v) PROVE Typed'
  <2>1. vm' \in [VMs -> VM]
    BY <1>1, <1>8 DEF Outside, VM
  <2>2. outside' \in 0..MaxOutside
    BY <1>1, <1>8, ProvisionAssumption DEF Outside, TypeOK
  <2> QED BY <1>1, <1>2, <1>8, <2>1, <2>2 DEF Outside, TypeOK
<1>9. CASE ServerStops
  <2>1. ASSUME NEW c \in Creations
        PROVE  call'[c] \in Call /\ InTime(call'[c])
    <3>1. call'[c] = IF Active(call[c]) THEN [call[c] EXCEPT !.pc = "lost"] ELSE call[c]
      BY <1>9 DEF ServerStops
    <3> DEFINE j == [call[c] EXCEPT !.pc = "lost"]
    <3>2. j \in Call /\ j.pc = "lost" /\ j.asks = call[c].asks /\ j.waited = call[c].waited
      BY <1>1 DEF Call
    <3>3. InTime(j)
      BY <1>1, <3>2 DEF InTime, Ops
    <3> HIDE DEF j
    <3> QED BY <1>1, <3>1, <3>2, <3>3 DEF j
  <2>2. call' \in [Creations -> Call]
    BY <1>9, <2>1 DEF ServerStops
  <2> QED BY <1>1, <1>2, <1>9, <2>1, <2>2 DEF ServerStops, TypeOK
<1>10. CASE UNCHANGED vars
  BY <1>1, <1>2, <1>10 DEF vars, TypeOK
<1> QED BY <1>4, <1>5, <1>6, <1>7, <1>8, <1>9, <1>10 DEF Next

LEMMA ProvisionTyped == Spec => []Typed
BY ProvisionTypeInit, ProvisionTypeStep, PTL DEF Spec

(* Every reachable state is well typed; no poll outlasts its limit by more *)
(* than two turns.                                                         *)
THEOREM ProvisionTypeCorrect == Spec => []TypeOK
<1>1. Typed => TypeOK
  BY DEF Typed
<1> QED BY <1>1, ProvisionTyped, PTL

(***************************************************************************)
(* The safety properties.  They look at answered calls; the invariant says *)
(* at every command what the ones before it have made, done and warned of. *)
(* That a call makes one VM rests on the fallback: where the first create  *)
(* has made one in spite of its error, the call was cancelled, and its     *)
(* fallback never starts.                                                  *)
(***************************************************************************)

Making == {"create", "fallback", "clone"}
Optional == {"find", "set", "start", "ssh"}

Failed(c, op) == [call |-> c, op |-> op] \in failed
Worked(c, op) == \E v \in VMs : [call |-> c, op |-> op, vm |-> v] \in landed

(* Nobody made what is not born; a registered name is one VM's.            *)
WorldOK ==
  /\ \A v \in VMs : vm[v].state = "unborn" => vm[v].by = Nobody
  /\ \A v, w \in VMs :
       Registered(v) /\ Registered(w) /\ vm[v].name = vm[w].name => v = w

(* What a call has made. *)
MadeOK(c) ==
  LET k == call[c]
  IN  /\ \A v, w \in Created(c) : v = w
      /\ k.pc \in {"idle", "create", "clone"} => Created(c) = {}
      /\ k.pc = "fallback" =>
           Failed(c, "create") /\ (Created(c) = {} \/ (k.cancelled /\ ~k.running))
      /\ k.reply = "error" /\ ~k.cancelled => Created(c) = {}
      /\ k.pc = "clone" => k.asks.tool # "create"
      /\ k.asks.tool = "create" /\ k.asks.distribution /\ ~Failed(c, "create") =>
           \A v \in Created(c) : vm[v].template

(* What it reports. *)
ReportOK(c) ==
  LET k == call[c]
  IN  /\ k.pc = "idle" => k.warned = {}
      /\ k.pc # "answered" => k.reply = "none"
      /\ \A op \in Optional : Failed(c, op) <=> op \in k.warned
      /\ \A op \in k.done : Worked(c, op) \/ (op = "create" /\ Worked(c, "fallback"))
      /\ k.pc \in Optional \cup {"poll"} \/ k.reply = "ok" =>
           k.done \cap {"create", "clone"} # {}
      /\ "ssh" \in k.done \/ k.ips \/ k.pc \in {"ssh", "poll"} => "start" \in k.done
      /\ k.pc \in Making \cup {"idle", "find", "set", "start"} => "start" \notin k.done
      /\ k.uuid # NoVM => [call |-> c, op |-> "find", vm |-> k.uuid] \in landed
      /\ k.reply = "ok" /\ "start" \in k.done /\ ~k.ips /\ ~k.cancelled =>
           k.waited > IPWait(k.asks)

ProvisionInv ==
  /\ Typed
  /\ WorldOK
  /\ \A c \in Creations : MadeOK(c) /\ ReportOK(c)

(* It holds before the first call. *)
LEMMA ProvisionInvInit == Init => ProvisionInv
<1> SUFFICES ASSUME Init PROVE ProvisionInv OBVIOUS
<1>1. Typed
  BY ProvisionTypeInit
<1>2. \A v \in VMs : vm[v].state = "unborn" /\ vm[v].by = Nobody
  BY DEF Init
<1>3. WorldOK
  BY <1>2 DEF WorldOK, Registered
<1>4. ASSUME NEW c \in Creations PROVE MadeOK(c) /\ ReportOK(c)
  <2>1. Created(c) = {}
    BY <1>2, ProvisionAssumption DEF Created
  <2>2. /\ call[c].pc = "idle" /\ call[c].warned = {} /\ call[c].reply = "none"
        /\ call[c].done = {} /\ call[c].ips = FALSE /\ call[c].uuid = NoVM
    BY DEF Init, At
  <2>3. \A op : ~Failed(c, op)
    BY DEF Init, Failed
  <2> QED BY <2>1, <2>2, <2>3 DEF MadeOK, ReportOK, Making, Optional
<1> QED BY <1>1, <1>3, <1>4 DEF ProvisionInv

(* What a command does to the VMs.                                         *)
LEMMA ProvisionDoes ==
  ASSUME Typed, WorldOK, NEW c \in Creations, NEW op \in Ops, NEW v \in VMs, Does(c, op, v)
  PROVE  /\ WorldOK'
         /\ landed' = landed \cup {[call |-> c, op |-> op, vm |-> v]}
         /\ op \in Making => vm[v].by = Nobody
         /\ op \notin Making => v \in Named(call[c].asks.name)
         /\ \A w \in VMs :
              /\ vm'[w].by = IF op \in Making /\ w = v THEN c ELSE vm[w].by
              /\ vm'[w].template = IF op \in Making /\ w = v THEN Flagged(op, call[c].asks)
                                   ELSE vm[w].template
<1> DEFINE k == call[c].asks
<1>1. landed' = landed \cup {[call |-> c, op |-> op, vm |-> v]}
  BY DEF Does
<1>2. vm \in [VMs -> VM]
  BY DEF Typed, TypeOK
<1>3. CASE op \in Making
  <2>1. /\ vm[v].state = "unborn" /\ Named(k.name) = {}
        /\ vm' = [vm EXCEPT ![v] = [state |-> "stopped", name |-> k.name, by |-> c,
                                    template |-> Flagged(op, k)]]
    BY <1>3 DEF Does, Making
  <2>2. /\ vm'[v] = [state |-> "stopped", name |-> k.name, by |-> c, template |-> Flagged(op, k)]
        /\ \A w \in VMs \ {v} : vm'[w] = vm[w]
    BY <1>2, <2>1
  <2>3. \A w \in VMs : Registered(w) => vm[w].name # k.name
    BY <2>1 DEF Named
  <2>4. WorldOK'
    BY <2>2, <2>3 DEF WorldOK, Registered
  <2> QED BY <1>1, <1>3, <2>1, <2>2, <2>4 DEF WorldOK
<1>4. CASE op \notin Making
  <2>1. v \in Named(k.name) /\ (vm' = vm \/ vm' = [vm EXCEPT ![v].state = "running"])
    BY <1>4 DEF Does, Making
  <2>2. /\ \A w \in VMs : /\ vm'[w].by = vm[w].by /\ vm'[w].template = vm[w].template
                          /\ vm'[w].name = vm[w].name
                          /\ vm'[w].state = vm[w].state \/ (w = v /\ vm'[w].state = "running")
    <3>1. CASE vm' = vm
      BY <3>1
    <3>2. CASE vm' = [vm EXCEPT ![v].state = "running"]
      <4>1. vm'[v] = [vm[v] EXCEPT !.state = "running"] /\ \A w \in VMs \ {v} : vm'[w] = vm[w]
        BY <1>2, <3>2
      <4>2. vm[v] \in VM
        BY <1>2
      <4> QED BY <4>1, <4>2 DEF VM
    <3> QED BY <2>1, <3>1, <3>2
  <2>3. Registered(v)
    BY <2>1 DEF Named
  <2>4. WorldOK'
    BY <2>2, <2>3 DEF WorldOK, Registered
  <2> QED BY <1>1, <1>4, <2>1, <2>2, <2>4
<1> QED BY <1>3, <1>4

(***************************************************************************)
(* The end of a process, seen from its call: the VM it made, if any, was   *)
(* the first one.                                                          *)
(***************************************************************************)
LEMMA ProvisionOutcome ==
  ASSUME ProvisionInv, NEW c \in Creations, NEW op \in Ops, NEW end \in Ends, Ended(c, op, end)
  PROVE  /\ call[c].pc = op
         /\ WorldOK'
         /\ RunErr(end, call[c].cancelled) = "nil" <=> end = "exit0"
         /\ failed' = IF end = "exit0" THEN failed ELSE failed \cup {[call |-> c, op |-> op]}
         /\ landed \subseteq landed'
         /\ end = "exit0" => Worked(c, op)'
         /\ \/ /\ Created(c)' = Created(c)
               /\ \A v \in Created(c) : vm'[v].template = vm[v].template
               /\ op \in Making => end # "exit0"
            \/ /\ op \in Making /\ Created(c) = {}
               /\ end = "exit0" \/ call[c].cancelled
               /\ \E v \in VMs : /\ Created(c)' = {v}
                                 /\ vm'[v].template = Flagged(op, call[c].asks)
<1> DEFINE k == call[c]
<1>1. Typed /\ WorldOK /\ MadeOK(c)
  BY DEF ProvisionInv
<1>2. /\ k.pc = op /\ (end = "notStarted" <=> ~k.running) /\ (end = "killed" => k.cancelled)
      /\ \/ end \in {"exit0", "killed"} /\ \E v \in VMs : Does(c, op, v)
         \/ end # "exit0" /\ UNCHANGED <<vm, landed>>
      /\ failed' = IF RunErr(end, k.cancelled) = "nil" THEN failed
                   ELSE failed \cup {[call |-> c, op |-> op]}
  BY DEF Ended
<1>3. RunErr(end, k.cancelled) = "nil" <=> end = "exit0"
  BY DEF RunErr
<1>4. CASE end # "exit0" /\ UNCHANGED <<vm, landed>>
  <2>1. Created(c)' = Created(c) /\ WorldOK'
    BY <1>1, <1>4 DEF Created, WorldOK, Registered
  <2> QED BY <1>2, <1>3, <1>4, <2>1
<1>5. ASSUME end \in {"exit0", "killed"}, NEW v \in VMs, Does(c, op, v)
      PROVE  /\ WorldOK' /\ landed \subseteq landed' /\ Worked(c, op)'
             /\ \/ /\ Created(c)' = Created(c)
                   /\ \A w \in Created(c) : vm'[w].template = vm[w].template
                   /\ op \notin Making
                \/ /\ op \in Making /\ Created(c) = {}
                   /\ end = "exit0" \/ k.cancelled
                   /\ Created(c)' = {v} /\ vm'[v].template = Flagged(op, k.asks)
  <2>1. /\ WorldOK'
        /\ landed' = landed \cup {[call |-> c, op |-> op, vm |-> v]}
        /\ op \in Making => vm[v].by = Nobody
        /\ \A w \in VMs :
              /\ vm'[w].by = IF op \in Making /\ w = v THEN c ELSE vm[w].by
              /\ vm'[w].template = IF op \in Making /\ w = v THEN Flagged(op, k.asks)
                                   ELSE vm[w].template
    BY <1>1, <1>5, ProvisionDoes
  <2>2. Worked(c, op)'
    BY <2>1 DEF Worked
  <2>3. CASE op \notin Making
    BY <2>1, <2>2, <2>3 DEF Created
  <2>4. CASE op \in Making
    <3>1. Created(c) = {}
      BY <1>1, <1>2, <1>5, <2>4 DEF MadeOK, Making
    <3>2. Created(c)' = {v}
      BY <2>1, <2>4, <3>1 DEF Created
    <3> QED BY <1>2, <1>5, <2>1, <2>2, <2>4, <3>1, <3>2
  <2> QED BY <2>3, <2>4
<1> QED BY <1>2, <1>3, <1>4, <1>5

(* A step that is none of a call's leaves what it made and reports.        *)
LEMMA ProvisionOthers ==
  ASSUME NEW d \in Creations, MadeOK(d), ReportOK(d), call'[d] = call[d],
         \A op \in Ops : Failed(d, op)' <=> Failed(d, op),
         landed \subseteq landed', Created(d)' = Created(d),
         \A v \in Created(d) : vm'[v].template = vm[v].template
  PROVE  MadeOK(d)' /\ ReportOK(d)'
<1>1. "create" \in Ops /\ Optional \subseteq Ops
  BY DEF Ops, Optional
<1>2. \A op : Worked(d, op) => Worked(d, op)'
  BY DEF Worked
<1>3. MadeOK(d)'
  BY <1>1 DEF MadeOK
<1>4. ReportOK(d)'
  BY <1>1, <1>2 DEF ReportOK
<1> QED BY <1>3, <1>4

(* The fields of a call that goes on, or that is answered. *)
LEMMA ProvisionGoOn ==
  ASSUME TypeOK, NEW c \in Creations, NEW h \in Call, NEW pc, GoOn(c, h, pc)
  PROVE  LET j == call'[c]
         IN  /\ j.pc = pc /\ ~j.running /\ j.asks = h.asks /\ j.cancelled = h.cancelled
             /\ j.uuid = h.uuid /\ j.done = h.done /\ j.warned = h.warned
             /\ j.waited = h.waited /\ j.ips = h.ips /\ j.reply = h.reply
<1>1. call'[c] = [h EXCEPT !.pc = pc, !.running = FALSE]
  BY DEF GoOn, TypeOK
<1> QED BY <1>1 DEF Call

LEMMA ProvisionReply ==
  ASSUME TypeOK, NEW c \in Creations, NEW h \in Call, NEW r, Reply(c, h, r)
  PROVE  LET j == call'[c]
         IN  /\ j.pc = "answered" /\ ~j.running /\ j.asks = h.asks /\ j.cancelled = h.cancelled
             /\ j.uuid = h.uuid /\ j.done = h.done /\ j.warned = h.warned
             /\ j.waited = h.waited /\ j.ips = h.ips /\ j.reply = r
<1>1. call'[c] = [h EXCEPT !.pc = "answered", !.running = FALSE, !.reply = r]
  BY DEF Reply, TypeOK
<1> QED BY <1>1 DEF Call

(* What a command that worked, or did not, adds to the report. *)
LEMMA ProvisionRecords ==
  ASSUME NEW k \in Call, NEW op \in Ops
  PROVE  /\ Done(k, op) \in Call
         /\ Done(k, op).done = k.done \cup {op} /\ Done(k, op).warned = k.warned
         /\ Warned(k, op) \in Call
         /\ Warned(k, op).warned = k.warned \cup {op} /\ Warned(k, op).done = k.done
         /\ \A h \in {Done(k, op), Warned(k, op)} :
              /\ h.asks = k.asks /\ h.cancelled = k.cancelled /\ h.uuid = k.uuid
              /\ h.waited = k.waited /\ h.ips = k.ips /\ h.reply = k.reply
<1>1. /\ Done(k, op) \in Call /\ Done(k, op).done = k.done \cup {op}
      /\ Done(k, op).warned = k.warned /\ Done(k, op).asks = k.asks
      /\ Done(k, op).cancelled = k.cancelled /\ Done(k, op).uuid = k.uuid
      /\ Done(k, op).waited = k.waited /\ Done(k, op).ips = k.ips /\ Done(k, op).reply = k.reply
  BY DEF Done, Call
<1>2. /\ Warned(k, op) \in Call /\ Warned(k, op).warned = k.warned \cup {op}
      /\ Warned(k, op).done = k.done /\ Warned(k, op).asks = k.asks
      /\ Warned(k, op).cancelled = k.cancelled /\ Warned(k, op).uuid = k.uuid
      /\ Warned(k, op).waited = k.waited /\ Warned(k, op).ips = k.ips
      /\ Warned(k, op).reply = k.reply
  BY DEF Warned, Call
<1> QED BY <1>1, <1>2

(* Step by step: what the call whose process ended has made.               *)
LEMMA ProvisionMakes ==
  ASSUME ProvisionInv, NEW c \in Creations, NEW op \in Ops, NEW end \in Ends, Ended(c, op, end),
         call'[c].asks = call[c].asks, call'[c].cancelled = call[c].cancelled,
         ~call'[c].running,
         call'[c].pc \notin {"idle", "create", "clone"},
         op = "create" /\ end # "exit0" <=> call'[c].pc = "fallback",
         op \in Making /\ end = "exit0" => call'[c].reply # "error",
         op \notin Making => call'[c].reply # "error"
  PROVE  MadeOK(c)'
<1> DEFINE k == call[c]
<1>1. MadeOK(c)
  BY DEF ProvisionInv
<1>2. /\ k.pc = op
      /\ failed' = IF end = "exit0" THEN failed ELSE failed \cup {[call |-> c, op |-> op]}
      /\ \/ /\ Created(c)' = Created(c)
            /\ \A v \in Created(c) : vm'[v].template = vm[v].template
            /\ op \in Making => end # "exit0"
         \/ /\ op \in Making /\ Created(c) = {}
            /\ end = "exit0" \/ k.cancelled
            /\ \E v \in VMs : Created(c)' = {v} /\ vm'[v].template = Flagged(op, k.asks)
  BY ProvisionOutcome
<1>3. Failed(c, "create") => Failed(c, "create")'
  BY <1>2 DEF Failed
<1>4. op = "create" /\ end # "exit0" => Failed(c, "create")'
  BY <1>2 DEF Failed
<1>5. CASE Created(c)' = Created(c) /\ \A v \in Created(c) : vm'[v].template = vm[v].template
  <2>1. (op = "create" /\ Created(c) = {}) \/ op # "create"
    BY <1>1, <1>2 DEF MadeOK
  <2> QED BY <1>1, <1>2, <1>3, <1>4, <1>5, <2>1 DEF MadeOK, Making
<1>6. CASE /\ op \in Making /\ Created(c) = {} /\ (end = "exit0" \/ k.cancelled)
           /\ \E v \in VMs : Created(c)' = {v} /\ vm'[v].template = Flagged(op, k.asks)
  <2>1. PICK v \in VMs : Created(c)' = {v} /\ vm'[v].template = Flagged(op, k.asks)
    BY <1>6
  <2>2. k.asks.tool = "create" /\ k.asks.distribution /\ ~Failed(c, "create")' =>
          \A w \in Created(c)' : vm'[w].template
    BY <1>1, <1>2, <1>3, <1>6, <2>1 DEF MadeOK, Making, Flagged
  <2> QED BY <1>2, <1>4, <1>6, <2>1, <2>2 DEF MadeOK
<1> QED BY <1>2, <1>5, <1>6

(***************************************************************************)
(* What becomes of the record k of a call when the process of op ends:     *)
(* the part of every handler on which the reports rest.                    *)
(***************************************************************************)
Turn(k, j, op, end) ==
  /\ j.asks = k.asks /\ j.cancelled = k.cancelled /\ ~j.running
  /\ j.pc \in {"fallback", "answered"} \cup Optional \cup {"poll"}
  /\ op = "create" /\ end # "exit0" <=> j.pc = "fallback"
  /\ op \in Making /\ end # "exit0" => j.pc = "fallback" \/ j.reply = "error"
  /\ op \notin Making \/ end = "exit0" => j.reply # "error"
  /\ j.pc = "answered" <=> j.reply # "none"
  /\ j.warned = IF op \in Optional /\ end # "exit0" THEN k.warned \cup {op} ELSE k.warned
  /\ j.done = IF end # "exit0" \/ op \in {"find", "poll"} THEN k.done
              ELSE k.done \cup {IF op = "fallback" THEN "create" ELSE op}
  /\ j.pc \in {"find", "set", "start"} => op \in {"create", "fallback", "find", "set"}
  /\ j.pc \in {"ssh", "poll"} => op \in {"ssh", "poll"} \/ (op = "start" /\ end = "exit0")
  /\ j.ips => op = "poll" \/ k.ips
  /\ j.reply = "ok" =>
       \/ op = "clone" \/ (op = "start" /\ end # "exit0")
       \/ op = "poll" /\ (j.ips \/ k.cancelled \/ j.waited > IPWait(k.asks))

(* Such a turn keeps the report true.                                      *)
LEMMA ProvisionReports ==
  ASSUME ProvisionInv, NEW c \in Creations, NEW op \in Ops, NEW end \in Ends, Ended(c, op, end),
         Turn(call[c], call'[c], op, end),
         \/ call'[c].uuid = call[c].uuid
         \/ [call |-> c, op |-> "find", vm |-> call'[c].uuid] \in landed'
  PROVE  MadeOK(c)' /\ ReportOK(c)'
<1> DEFINE k == call[c]
           j == call'[c]
<1>1. /\ k.pc = op /\ landed \subseteq landed'
      /\ failed' = IF end = "exit0" THEN failed ELSE failed \cup {[call |-> c, op |-> op]}
      /\ end = "exit0" => Worked(c, op)'
  BY ProvisionOutcome
<1>2. ReportOK(c)
  BY DEF ProvisionInv
<1>3. k.reply = "none"
  BY <1>1, <1>2 DEF ReportOK, Ops
<1>4. MadeOK(c)'
  <2>1. j.pc \notin {"idle", "create", "clone"}
    BY DEF Turn, Optional
  <2>2. /\ op \in Making /\ end = "exit0" => j.reply # "error"
        /\ op \notin Making => j.reply # "error"
        /\ op = "create" /\ end # "exit0" <=> j.pc = "fallback"
        /\ j.asks = k.asks /\ j.cancelled = k.cancelled /\ ~j.running
    BY DEF Turn
  <2> QED BY <2>1, <2>2, ProvisionMakes
<1>5. \A o \in Optional : Failed(c, o)' <=> o \in j.warned
  BY <1>1, <1>2 DEF ReportOK, Turn, Failed
<1>6. \A o \in j.done : Worked(c, o)' \/ (o = "create" /\ Worked(c, "fallback")')
  <2>1. \A o : Worked(c, o) => Worked(c, o)'
    BY <1>1 DEF Worked
  <2> QED BY <1>1, <1>2, <2>1 DEF ReportOK, Turn
<1>7. j.pc \in Optional \cup {"poll"} \/ j.reply = "ok" => j.done \cap {"create", "clone"} # {}
  BY <1>1, <1>2, <1>3 DEF ReportOK, Turn, Optional, Making, Ops
<1>8. "ssh" \in j.done \/ j.ips \/ j.pc \in {"ssh", "poll"} => "start" \in j.done
  BY <1>1, <1>2 DEF ReportOK, Turn
<1>9. j.pc \in Making \cup {"idle", "find", "set", "start"} => "start" \notin j.done
  BY <1>1, <1>2 DEF ReportOK, Turn, Making, Optional
<1>10. j.uuid # NoVM => [call |-> c, op |-> "find", vm |-> j.uuid] \in landed'
  BY <1>1, <1>2 DEF ReportOK
<1>11. j.reply = "ok" /\ "start" \in j.done /\ ~j.ips /\ ~j.cancelled => j.waited > IPWait(j.asks)
  BY <1>1, <1>2 DEF ReportOK, Turn, Making
<1>12. (j.pc = "idle" => j.warned = {}) /\ (j.pc # "answered" => j.reply = "none")
  BY DEF Turn, Optional
<1> QED BY <1>4, <1>5, <1>6, <1>7, <1>8, <1>9, <1>10, <1>11, <1>12 DEF ReportOK

(* Every handler is such a turn.                                           *)
LEMMA ProvisionTurns ==
  ASSUME ProvisionInv, NEW c \in Creations, Returns(c)
  PROVE  \E op \in Ops, end \in Ends :
           /\ Ended(c, op, end) /\ Turn(call[c], call'[c], op, end)
           /\ \/ call'[c].uuid = call[c].uuid
              \/ [call |-> c, op |-> "find", vm |-> call'[c].uuid] \in landed'
<1> DEFINE k == call[c]
<1>1. TypeOK /\ k \in Call /\ ReportOK(c) /\ WorldOK
  BY DEF ProvisionInv, Typed, TypeOK
<1>2. \A end \in Ends : RunErr(end, k.cancelled) = "nil" <=> end = "exit0"
  BY DEF RunErr
<1>3. \A op \in Ops, end \in Ends : Ended(c, op, end) => k.pc = op /\ k.reply = "none"
  BY <1>1 DEF Ended, ReportOK, Ops
<1>4. CASE CreateReturns(c)
  <2>1. PICK end \in Ends :
          /\ Ended(c, "create", end)
          /\ IF end = "exit0" THEN GoOn(c, Done(k, "create"), "find")
             ELSE GoOn(c, k, "fallback")
    BY <1>2, <1>4 DEF CreateReturns
  <2>2. "create" \in Ops
    BY DEF Ops
  <2>3. CASE end = "exit0"
    <3>1. Turn(k, call'[c], "create", end) /\ call'[c].uuid = k.uuid
      BY <1>1, <1>3, <2>1, <2>2, <2>3, ProvisionRecords, ProvisionGoOn
         DEF Turn, Making, Optional
    <3> QED BY <2>1, <2>2, <3>1
  <2>4. CASE end # "exit0"
    <3>1. Turn(k, call'[c], "create", end) /\ call'[c].uuid = k.uuid
      BY <1>1, <1>3, <2>1, <2>2, <2>4, ProvisionGoOn DEF Turn, Making, Optional
    <3> QED BY <2>1, <2>2, <3>1
  <2> QED BY <2>3, <2>4
<1>5. CASE FallbackReturns(c)
  <2>1. PICK end \in Ends :
          /\ Ended(c, "fallback", end)
          /\ IF end = "exit0" THEN GoOn(c, Done(k, "create"), "find")
             ELSE Reply(c, k, "error")
    BY <1>2, <1>5 DEF FallbackReturns
  <2>2. "fallback" \in Ops /\ "create" \in Ops
    BY DEF Ops
  <2>3. CASE end = "exit0"
    <3> DEFINE h == Done(k, "create")
    <3>0. /\ h \in Call /\ h.reply = k.reply /\ h.done = k.done \cup {"create"}
          /\ h.warned = k.warned /\ h.asks = k.asks /\ h.cancelled = k.cancelled
          /\ h.uuid = k.uuid /\ h.ips = k.ips /\ GoOn(c, h, "find")
      BY <1>1, <2>1, <2>2, <2>3, ProvisionRecords
    <3> HIDE DEF h
    <3>1. /\ call'[c].pc = "find" /\ call'[c].reply = k.reply /\ ~call'[c].running
          /\ call'[c].done = k.done \cup {"create"} /\ call'[c].warned = k.warned
          /\ call'[c].asks = k.asks /\ call'[c].cancelled = k.cancelled
          /\ call'[c].uuid = k.uuid /\ call'[c].ips = k.ips
      BY <1>1, <3>0, ProvisionGoOn
    <3>2. /\ "fallback" \in Making /\ "fallback" \notin Optional
          /\ "fallback" \notin {"create", "find", "poll"}
      BY DEF Making, Optional
    <3>3. "find" \in Optional /\ "find" \notin {"fallback", "answered", "ssh", "poll"}
      BY DEF Optional
    <3>4. Turn(k, call'[c], "fallback", end)
      BY <1>3, <2>1, <2>2, <2>3, <3>1, <3>2, <3>3 DEF Turn
    <3> QED BY <2>1, <2>2, <3>1, <3>4
  <2>4. CASE end # "exit0"
    <3>1. Turn(k, call'[c], "fallback", end) /\ call'[c].uuid = k.uuid
      BY <1>1, <1>3, <2>1, <2>2, <2>4, ProvisionReply DEF Turn, Making, Optional
    <3> QED BY <2>1, <2>2, <3>1
  <2> QED BY <2>3, <2>4
<1>6. CASE FindReturns(c)
  <2>1. PICK end \in Ends, pc \in {"set", "start"} :
          /\ Ended(c, "find", end)
          /\ IF end = "exit0"
             THEN GoOn(c, [k EXCEPT !.uuid = CHOOSE v \in Named(k.asks.name) : TRUE], pc)
             ELSE GoOn(c, Warned(k, "find"), pc)
    BY <1>2, <1>6 DEF FindReturns
  <2>2. "find" \in Ops
    BY DEF Ops
  <2>3. CASE end = "exit0"
    <3> DEFINE h == [k EXCEPT !.uuid = CHOOSE v \in Named(k.asks.name) : TRUE]
    <3>1. PICK v \in VMs : Does(c, "find", v)
      BY <2>1, <2>3 DEF Ended
    <3>2. v \in Named(k.asks.name) /\ landed' = landed \cup {[call |-> c, op |-> "find", vm |-> v]}
      BY <3>1 DEF Does
    <3>3. \A w \in Named(k.asks.name) : w = v
      BY <1>1, <3>2 DEF Named, WorldOK
    <3>4. h \in Call
      BY <1>1, <3>2, <3>3 DEF Call
    <3>5. /\ h.uuid = v /\ h.asks = k.asks /\ h.cancelled = k.cancelled /\ h.done = k.done
          /\ h.warned = k.warned /\ h.ips = k.ips /\ h.reply = k.reply
      BY <1>1, <3>2, <3>3 DEF Call
    <3> HIDE DEF h
    <3>6. GoOn(c, h, pc)
      BY <2>1, <2>3 DEF h
    <3>7. Turn(k, call'[c], "find", end) /\ call'[c].uuid = v
      BY <1>1, <1>3, <2>1, <2>2, <2>3, <3>4, <3>5, <3>6, ProvisionGoOn
         DEF Turn, Making, Optional
    <3> QED BY <2>1, <2>2, <3>2, <3>7
  <2>4. CASE end # "exit0"
    <3>1. Turn(k, call'[c], "find", end) /\ call'[c].uuid = k.uuid
      BY <1>1, <1>3, <2>1, <2>2, <2>4, ProvisionRecords, ProvisionGoOn
         DEF Turn, Making, Optional
    <3> QED BY <2>1, <2>2, <3>1
  <2> QED BY <2>3, <2>4
<1>7. CASE SetReturns(c)
  <2>1. PICK end \in Ends :
          /\ Ended(c, "set", end)
          /\ IF end = "exit0" THEN GoOn(c, Done(k, "set"), "start")
             ELSE GoOn(c, Warned(k, "set"), "start")
    BY <1>2, <1>7 DEF SetReturns
  <2>2. "set" \in Ops
    BY DEF Ops
  <2>3. CASE end = "exit0"
    <3>1. /\ call'[c].pc = "start" /\ call'[c].reply = k.reply /\ ~call'[c].running
          /\ call'[c].done = k.done \cup {"set"} /\ call'[c].warned = k.warned
          /\ call'[c].asks = k.asks /\ call'[c].cancelled = k.cancelled
          /\ call'[c].uuid = k.uuid /\ call'[c].ips = k.ips
      BY <1>1, <2>1, <2>2, <2>3, ProvisionRecords, ProvisionGoOn
    <3>2. Turn(k, call'[c], "set", end)
      BY <1>3, <2>1, <2>2, <2>3, <3>1 DEF Turn, Making, Optional
    <3> QED BY <2>1, <2>2, <3>1, <3>2
  <2>4. CASE end # "exit0"
    <3>1. /\ call'[c].pc = "start" /\ call'[c].reply = k.reply /\ ~call'[c].running
          /\ call'[c].done = k.done /\ call'[c].warned = k.warned \cup {"set"}
          /\ call'[c].asks = k.asks /\ call'[c].cancelled = k.cancelled
          /\ call'[c].uuid = k.uuid /\ call'[c].ips = k.ips
      BY <1>1, <2>1, <2>2, <2>4, ProvisionRecords, ProvisionGoOn
    <3>2. Turn(k, call'[c], "set", end)
      BY <1>3, <2>1, <2>2, <2>4, <3>1 DEF Turn, Making, Optional
    <3> QED BY <2>1, <2>2, <3>1, <3>2
  <2> QED BY <2>3, <2>4
<1>8. CASE StartReturns(c)
  <2>1. PICK end \in Ends :
          /\ Ended(c, "start", end)
          /\ IF end = "exit0" THEN \E pc \in {"ssh", "poll"} : GoOn(c, Done(k, "start"), pc)
             ELSE Reply(c, Warned(k, "start"), "ok")
    BY <1>2, <1>8 DEF StartReturns
  <2>2. "start" \in Ops
    BY DEF Ops
  <2>3. CASE end = "exit0"
    <3>1. PICK pc \in {"ssh", "poll"} : GoOn(c, Done(k, "start"), pc)
      BY <2>1, <2>3
    <3>2. Turn(k, call'[c], "start", end) /\ call'[c].uuid = k.uuid
      BY <1>1, <1>3, <2>1, <2>2, <2>3, <3>1, ProvisionRecords, ProvisionGoOn
         DEF Turn, Making, Optional
    <3> QED BY <2>1, <2>2, <3>2
  <2>4. CASE end # "exit0"
    <3>1. Turn(k, call'[c], "start", end) /\ call'[c].uuid = k.uuid
      BY <1>1, <1>3, <2>1, <2>2, <2>4, ProvisionRecords, ProvisionReply
         DEF Turn, Making, Optional
    <3> QED BY <2>1, <2>2, <3>1
  <2> QED BY <2>3, <2>4
<1>9. CASE SshReturns(c)
  <2>1. PICK end \in Ends :
          /\ Ended(c, "ssh", end)
          /\ IF end = "exit0" THEN GoOn(c, Done(k, "ssh"), "poll")
             ELSE GoOn(c, Warned(k, "ssh"), "poll")
    BY <1>2, <1>9 DEF SshReturns
  <2>2. "ssh" \in Ops
    BY DEF Ops
  <2>3. CASE end = "exit0"
    <3>1. /\ call'[c].pc = "poll" /\ call'[c].reply = k.reply /\ ~call'[c].running
          /\ call'[c].done = k.done \cup {"ssh"} /\ call'[c].warned = k.warned
          /\ call'[c].asks = k.asks /\ call'[c].cancelled = k.cancelled
          /\ call'[c].uuid = k.uuid /\ call'[c].ips = k.ips
      BY <1>1, <2>1, <2>2, <2>3, ProvisionRecords, ProvisionGoOn
    <3>2. Turn(k, call'[c], "ssh", end)
      BY <1>3, <2>1, <2>2, <2>3, <3>1 DEF Turn, Making, Optional
    <3> QED BY <2>1, <2>2, <3>1, <3>2
  <2>4. CASE end # "exit0"
    <3>1. /\ call'[c].pc = "poll" /\ call'[c].reply = k.reply /\ ~call'[c].running
          /\ call'[c].done = k.done /\ call'[c].warned = k.warned \cup {"ssh"}
          /\ call'[c].asks = k.asks /\ call'[c].cancelled = k.cancelled
          /\ call'[c].uuid = k.uuid /\ call'[c].ips = k.ips
      BY <1>1, <2>1, <2>2, <2>4, ProvisionRecords, ProvisionGoOn
    <3>2. Turn(k, call'[c], "ssh", end)
      BY <1>3, <2>1, <2>2, <2>4, <3>1 DEF Turn, Making, Optional
    <3> QED BY <2>1, <2>2, <3>1, <3>2
  <2> QED BY <2>3, <2>4
<1>10. CASE PollReturns(c)
  <2>1. PICK end \in Ends, took \in 0..Interval, found \in BOOLEAN :
          /\ Ended(c, "poll", end)
          /\ IF found \/ k.waited + took > IPWait(k.asks) \/ k.cancelled
             THEN Reply(c, [k EXCEPT !.ips = found, !.waited = k.waited + took], "ok")
             ELSE GoOn(c, [k EXCEPT !.waited = k.waited + took + Interval], "poll")
    BY <1>10 DEF PollReturns
  <2>2. "poll" \in Ops
    BY DEF Ops
  <2>3. k.waited \in Nat /\ k.waited + took \in Nat /\ k.waited + took + Interval \in Nat
    BY <1>1, ProvisionAssumption DEF Call
  <2>4. CASE found \/ k.waited + took > IPWait(k.asks) \/ k.cancelled
    <3> DEFINE h == [k EXCEPT !.ips = found, !.waited = k.waited + took]
    <3>1. /\ h \in Call /\ h.asks = k.asks /\ h.cancelled = k.cancelled /\ h.uuid = k.uuid
          /\ h.done = k.done /\ h.warned = k.warned
          /\ h.ips = found /\ h.waited = k.waited + took
      BY <1>1, <2>3 DEF Call
    <3> HIDE DEF h
    <3>2. Reply(c, h, "ok")
      BY <2>1, <2>4 DEF h
    <3>3. Turn(k, call'[c], "poll", end) /\ call'[c].uuid = k.uuid
      BY <1>1, <1>3, <2>1, <2>2, <2>4, <3>1, <3>2, ProvisionReply DEF Turn, Making, Optional
    <3> QED BY <2>1, <2>2, <3>3
  <2>5. CASE ~(found \/ k.waited + took > IPWait(k.asks) \/ k.cancelled)
    <3> DEFINE h == [k EXCEPT !.waited = k.waited + took + Interval]
    <3>1. /\ h \in Call /\ h.asks = k.asks /\ h.cancelled = k.cancelled /\ h.uuid = k.uuid
          /\ h.done = k.done /\ h.warned = k.warned /\ h.ips = k.ips /\ h.reply = k.reply
      BY <1>1, <2>3 DEF Call
    <3> HIDE DEF h
    <3>2. GoOn(c, h, "poll")
      BY <2>1, <2>5 DEF h
    <3>3. Turn(k, call'[c], "poll", end) /\ call'[c].uuid = k.uuid
      BY <1>1, <1>3, <2>1, <2>2, <3>1, <3>2, ProvisionGoOn DEF Turn, Making, Optional
    <3> QED BY <2>1, <2>2, <3>3
  <2> QED BY <2>4, <2>5
<1>11. CASE CloneReturns(c)
  <2>1. PICK end \in Ends :
          /\ Ended(c, "clone", end)
          /\ IF end = "exit0" THEN Reply(c, Done(k, "clone"), "ok") ELSE Reply(c, k, "error")
    BY <1>2, <1>11 DEF CloneReturns
  <2>2. "clone" \in Ops
    BY DEF Ops
  <2>3. CASE end = "exit0"
    <3>1. /\ call'[c].pc = "answered" /\ call'[c].reply = "ok" /\ ~call'[c].running
          /\ call'[c].done = k.done \cup {"clone"} /\ call'[c].warned = k.warned
          /\ call'[c].asks = k.asks /\ call'[c].cancelled = k.cancelled
          /\ call'[c].uuid = k.uuid /\ call'[c].ips = k.ips
      BY <1>1, <2>1, <2>2, <2>3, ProvisionRecords, ProvisionReply
    <3>2. Turn(k, call'[c], "clone", end)
      BY <1>3, <2>1, <2>2, <2>3, <3>1 DEF Turn, Making, Optional
    <3> QED BY <2>1, <2>2, <3>1, <3>2
  <2>4. CASE end # "exit0"
    <3>1. /\ call'[c].pc = "answered" /\ call'[c].reply = "error" /\ ~call'[c].running
          /\ call'[c].done = k.done /\ call'[c].warned = k.warned
          /\ call'[c].asks = k.asks /\ call'[c].cancelled = k.cancelled
          /\ call'[c].uuid = k.uuid /\ call'[c].ips = k.ips
      BY <1>1, <2>1, <2>2, <2>4, ProvisionReply
    <3>2. Turn(k, call'[c], "clone", end)
      BY <1>3, <2>1, <2>2, <2>4, <3>1 DEF Turn, Making, Optional
    <3> QED BY <2>1, <2>2, <3>1, <3>2
  <2> QED BY <2>3, <2>4
<1> QED BY <1>4, <1>5, <1>6, <1>7, <1>8, <1>9, <1>10, <1>11 DEF Returns

(* Every step keeps what calls have made and say.                          *)
LEMMA ProvisionInvStep == ProvisionInv /\ [Next]_vars => ProvisionInv'
<1> SUFFICES ASSUME ProvisionInv, [Next]_vars PROVE ProvisionInv' OBVIOUS
<1>1. /\ Typed /\ TypeOK /\ WorldOK /\ call \in [Creations -> Call]
      /\ \A c \in Creations : MadeOK(c) /\ ReportOK(c)
  BY DEF ProvisionInv, Typed, TypeOK
<1>2. Typed'
  BY <1>1, ProvisionTypeStep
<1>3. ASSUME WorldOK', \A c \in Creations : MadeOK(c)' /\ ReportOK(c)' PROVE ProvisionInv'
  BY <1>2, <1>3 DEF ProvisionInv
<1>4. ASSUME UNCHANGED <<vm, landed, failed>>,
             NEW c \in Creations, \A d \in Creations \ {c} : call'[d] = call[d],
             MadeOK(c)' /\ ReportOK(c)'
      PROVE  ProvisionInv'
  <2>1. WorldOK'
    BY <1>1, <1>4 DEF WorldOK, Registered
  <2>2. ASSUME NEW d \in Creations \ {c} PROVE MadeOK(d)' /\ ReportOK(d)'
    BY <1>1, <1>4, <2>2, ProvisionOthers DEF Failed, Created
  <2> QED BY <1>3, <1>4, <2>1, <2>2
<1>5. ASSUME NEW c \in Creations, Enter(c) PROVE ProvisionInv'
  <2>1. PICK r \in Requests : call' = [call EXCEPT ![c] = At(r.tool, r)]
    BY <1>5 DEF Enter
  <2>2. r \in Request
    BY ProvisionAssumption
  <2>3. /\ call'[c] = At(r.tool, r) /\ \A d \in Creations \ {c} : call'[d] = call[d]
        /\ call[c].pc = "idle" /\ UNCHANGED <<vm, landed, failed>>
    BY <1>1, <1>5, <2>1 DEF Enter
  <2>4. Created(c)' = {} /\ r.tool \in {"create", "clone"}
    BY <1>1, <2>2, <2>3 DEF MadeOK, Created, Request
  <2>5. \A op \in Optional : ~Failed(c, op)'
    BY <1>1, <2>3 DEF ReportOK, Failed
  <2>6. /\ call'[c].pc = r.tool /\ call'[c].asks = r /\ call'[c].reply = "none"
        /\ call'[c].done = {} /\ call'[c].warned = {} /\ call'[c].uuid = NoVM
        /\ ~call'[c].ips
    BY <2>3 DEF At
  <2>7. MadeOK(c)'
    BY <2>4, <2>6 DEF MadeOK
  <2>8. ReportOK(c)'
    BY <2>4, <2>5, <2>6 DEF ReportOK, Optional
  <2> QED BY <1>4, <2>3, <2>7, <2>8
<1>6. ASSUME NEW c \in Creations, Spawn(c) PROVE ProvisionInv'
  <2>1. /\ call'[c] = [call[c] EXCEPT !.running = TRUE]
        /\ \A d \in Creations \ {c} : call'[d] = call[d]
        /\ ~call[c].cancelled /\ UNCHANGED <<vm, landed, failed>>
    BY <1>1, <1>6 DEF Spawn
  <2>2. /\ call'[c].pc = call[c].pc /\ call'[c].asks = call[c].asks
        /\ call'[c].reply = call[c].reply /\ call'[c].done = call[c].done
        /\ call'[c].warned = call[c].warned /\ call'[c].uuid = call[c].uuid
        /\ call'[c].ips = call[c].ips /\ call'[c].cancelled = call[c].cancelled
        /\ call'[c].waited = call[c].waited
    BY <1>1, <2>1 DEF Call
  <2>3. MadeOK(c)'
    BY <1>1, <2>1, <2>2 DEF MadeOK, Created, Failed
  <2>4. ReportOK(c)'
    BY <1>1, <2>1, <2>2 DEF ReportOK, Worked, Failed
  <2> QED BY <1>4, <2>1, <2>3, <2>4
<1>7. ASSUME NEW c \in Creations, Cancel(c) PROVE ProvisionInv'
  <2>1. /\ call'[c] = [call[c] EXCEPT !.cancelled = TRUE]
        /\ \A d \in Creations \ {c} : call'[d] = call[d]
        /\ call[c].pc \in Ops /\ UNCHANGED <<vm, landed, failed>>
    BY <1>1, <1>7 DEF Cancel, Active
  <2>2. /\ call'[c].pc = call[c].pc /\ call'[c].asks = call[c].asks
        /\ call'[c].reply = call[c].reply /\ call'[c].done = call[c].done
        /\ call'[c].warned = call[c].warned /\ call'[c].uuid = call[c].uuid
        /\ call'[c].ips = call[c].ips /\ call'[c].running = call[c].running
        /\ call'[c].waited = call[c].waited /\ call'[c].cancelled
    BY <1>1, <2>1 DEF Call
  <2>3. MadeOK(c)'
    <3>1. Created(c)' = Created(c) /\ Failed(c, "create")' = Failed(c, "create")
      BY <2>1 DEF Created, Failed
    <3> QED BY <1>1, <2>1, <2>2, <3>1 DEF MadeOK
  <2>4. ReportOK(c)'
    BY <1>1, <2>1, <2>2 DEF ReportOK, Worked, Failed
  <2> QED BY <1>4, <2>1, <2>3, <2>4
<1>8. ASSUME NEW c \in Creations, Returns(c) PROVE ProvisionInv'
  <2>1. PICK op \in Ops, end \in Ends :
          /\ Ended(c, op, end) /\ Turn(call[c], call'[c], op, end)
          /\ \/ call'[c].uuid = call[c].uuid
             \/ [call |-> c, op |-> "find", vm |-> call'[c].uuid] \in landed'
    BY <1>8, ProvisionTurns
  <2>2. MadeOK(c)' /\ ReportOK(c)'
    BY <2>1, ProvisionReports
  <2>3. WorldOK'
    BY <2>1, ProvisionOutcome
  <2>4. ASSUME NEW d \in Creations \ {c} PROVE MadeOK(d)' /\ ReportOK(d)'
    <3>1. call'[d] = call[d]
      BY <1>1, <1>8, ProvisionReturned
    <3>2. \A o \in Ops : Failed(d, o)' <=> Failed(d, o)
      BY <2>1 DEF Ended, Failed
    <3>3. /\ landed \subseteq landed' /\ Created(d)' = Created(d)
          /\ \A v \in Created(d) : vm'[v].template = vm[v].template
      <4>1. CASE UNCHANGED <<vm, landed>>
        BY <4>1 DEF Created
      <4>2. ASSUME NEW v \in VMs, Does(c, op, v)
            PROVE  /\ landed \subseteq landed' /\ Created(d)' = Created(d)
                   /\ \A w \in Created(d) : vm'[w].template = vm[w].template
        <5>1. /\ landed' = landed \cup {[call |-> c, op |-> op, vm |-> v]}
              /\ op \in Making => vm[v].by = Nobody
              /\ \A w \in VMs :
                   /\ vm'[w].by = IF op \in Making /\ w = v THEN c ELSE vm[w].by
                   /\ vm'[w].template = IF op \in Making /\ w = v
                                        THEN Flagged(op, call[c].asks) ELSE vm[w].template
          BY <1>1, <4>2, ProvisionDoes
        <5> QED BY <5>1, ProvisionAssumption DEF Created
      <4> QED BY <2>1, <4>1, <4>2 DEF Ended
    <3> QED BY <1>1, <3>1, <3>2, <3>3, ProvisionOthers
  <2> QED BY <1>3, <2>2, <2>3, <2>4
<1>9. ASSUME NEW v \in VMs, Outside(v) PROVE ProvisionInv'
  <2>1. /\ Registered(v) /\ UNCHANGED <<call, landed, failed>>
        /\ \/ vm' = [vm EXCEPT ![v].state = "deleted"]
           \/ \E n \in Names : Named(n) = {} /\ vm' = [vm EXCEPT ![v].name = n]
    BY <1>9 DEF Outside
  <2>2. vm \in [VMs -> VM]
    BY <1>1 DEF TypeOK
  <2>3. /\ \A w \in VMs : vm'[w].by = vm[w].by /\ vm'[w].template = vm[w].template
        /\ WorldOK'
    <3>1. CASE vm' = [vm EXCEPT ![v].state = "deleted"]
      <4>1. /\ vm'[v].state = "deleted" /\ vm'[v].by = vm[v].by
            /\ vm'[v].template = vm[v].template /\ \A w \in VMs \ {v} : vm'[w] = vm[w]
        BY <2>2, <3>1 DEF VM
      <4> QED BY <1>1, <4>1 DEF WorldOK, Registered
    <3>2. ASSUME NEW n \in Names, Named(n) = {}, vm' = [vm EXCEPT ![v].name = n]
          PROVE  /\ \A w \in VMs : vm'[w].by = vm[w].by /\ vm'[w].template = vm[w].template
                 /\ WorldOK'
      <4>1. /\ vm'[v].state = vm[v].state /\ vm'[v].by = vm[v].by /\ vm'[v].name = n
            /\ vm'[v].template = vm[v].template /\ \A w \in VMs \ {v} : vm'[w] = vm[w]
        BY <2>2, <3>2 DEF VM
      <4>2. \A w \in VMs : Registered(w) => vm[w].name # n
        BY <3>2 DEF Named
      <4> QED BY <1>1, <4>1, <4>2 DEF WorldOK, Registered
    <3> QED BY <2>1, <3>1, <3>2
  <2>4. ASSUME NEW d \in Creations PROVE MadeOK(d)' /\ ReportOK(d)'
    BY <1>1, <2>1, <2>3, ProvisionOthers DEF Created, Failed
  <2> QED BY <1>3, <2>3, <2>4
<1>10. ASSUME ServerStops PROVE ProvisionInv'
  <2>1. UNCHANGED <<vm, landed, failed>>
    BY <1>10 DEF ServerStops
  <2>2. WorldOK'
    BY <1>1, <2>1 DEF WorldOK, Registered
  <2>3. ASSUME NEW d \in Creations PROVE MadeOK(d)' /\ ReportOK(d)'
    <3>1. CASE ~Active(call[d])
      <4>1. call'[d] = call[d]
        BY <1>10, <3>1 DEF ServerStops
      <4> QED BY <1>1, <2>1, <4>1, ProvisionOthers DEF Created, Failed
    <3>2. CASE Active(call[d])
      <4>1. call'[d] = [call[d] EXCEPT !.pc = "lost"]
        BY <1>10, <3>2 DEF ServerStops
      <4>2. /\ call'[d].pc = "lost" /\ call'[d].asks = call[d].asks
            /\ call'[d].reply = call[d].reply /\ call'[d].done = call[d].done
            /\ call'[d].warned = call[d].warned /\ call'[d].uuid = call[d].uuid
            /\ call'[d].ips = call[d].ips /\ call'[d].cancelled = call[d].cancelled
            /\ call'[d].waited = call[d].waited
        BY <1>1, <4>1 DEF Call
      <4>3. call[d].reply = "none"
        BY <1>1, <3>2 DEF ReportOK, Active, Ops
      <4>4. MadeOK(d)'
        BY <1>1, <2>1, <4>2 DEF MadeOK, Created, Failed
      <4>5. ReportOK(d)'
        BY <1>1, <2>1, <4>2, <4>3 DEF ReportOK, Worked, Failed, Optional, Making
      <4> QED BY <4>4, <4>5
    <3> QED BY <3>1, <3>2
  <2> QED BY <1>3, <2>2, <2>3
<1>11. ASSUME UNCHANGED vars PROVE ProvisionInv'
  <2>1. UNCHANGED <<vm, call, landed, failed>>
    BY <1>11 DEF vars
  <2>2. WorldOK'
    BY <1>1, <2>1 DEF WorldOK, Registered
  <2>3. ASSUME NEW d \in Creations PROVE MadeOK(d)' /\ ReportOK(d)'
    BY <1>1, <2>1, ProvisionOthers DEF Created, Failed
  <2> QED BY <1>3, <2>2, <2>3
<1> QED BY <1>5, <1>6, <1>7, <1>8, <1>9, <1>10, <1>11 DEF Next

LEMMA ProvisionInvAlways == Spec => []ProvisionInv
BY ProvisionInvInit, ProvisionInvStep, PTL DEF Spec

(* A VM is made at most once per call, for any number of calls and names:  *)
(* the fallback never makes a second one.                                  *)
THEOREM ProvisionMakesOne == Spec => []OneVMPerCall
<1>1. ProvisionInv => OneVMPerCall
  BY DEF ProvisionInv, MadeOK, OneVMPerCall
<1> QED BY <1>1, ProvisionInvAlways, PTL

(* A call its client did not cancel answers with an error only if it made  *)
(* nothing.                                                                *)
THEOREM ProvisionErrorLeavesNothing == Spec => []ErrorLeavesNothing
<1>1. ProvisionInv => ErrorLeavesNothing
  BY DEF ProvisionInv, MadeOK, ErrorLeavesNothing
<1> QED BY <1>1, ProvisionInvAlways, PTL

(* The warnings of a successful create are exactly its failed commands.    *)
THEOREM ProvisionFailuresAreWarned == Spec => []FailuresAreWarned
<1>1. ProvisionInv => FailuresAreWarned
  BY DEF ProvisionInv, ReportOK, FailuresAreWarned, Failed, Optional
<1> QED BY <1>1, ProvisionInvAlways, PTL

(* What a reply says was done was done by the call that says it.           *)
THEOREM ProvisionReportIsTrue == Spec => []ReportIsTrue
<1>1. ProvisionInv => ReportIsTrue
  <2> SUFFICES ASSUME ProvisionInv, NEW c \in Creations, call[c].reply = "ok"
               PROVE  /\ call[c].done \subseteq
                           LandedOps(c) \cup IF "fallback" \in LandedOps(c) THEN {"create"} ELSE {}
                      /\ call[c].done \cap {"create", "clone"} # {}
                      /\ "ssh" \in call[c].done \/ call[c].ips => "start" \in call[c].done
                      /\ call[c].uuid # NoVM =>
                           [call |-> c, op |-> "find", vm |-> call[c].uuid] \in landed
                      /\ /\ call[c].asks.tool = "create" /\ call[c].asks.distribution
                         /\ [call |-> c, op |-> "create"] \notin failed
                         => \A v \in Created(c) : vm[v].template
    BY DEF ReportIsTrue
  <2>1. MadeOK(c) /\ ReportOK(c)
    BY DEF ProvisionInv
  <2>2. \A op : Worked(c, op) => op \in LandedOps(c)
    BY DEF Worked, LandedOps
  <2>3. call[c].done \subseteq
          LandedOps(c) \cup IF "fallback" \in LandedOps(c) THEN {"create"} ELSE {}
    BY <2>1, <2>2 DEF ReportOK
  <2> QED BY <2>1, <2>3 DEF MadeOK, ReportOK, Failed
<1> QED BY <1>1, ProvisionInvAlways, PTL

(* A VM that was started is reported without an address only when the time *)
(* was up that the client asked for, or the default.                       *)
THEOREM ProvisionAddressWasWaitedFor == Spec => []AddressWasWaitedFor
<1>1. ASSUME ProvisionInv, NEW c \in Creations,
             call[c].reply = "ok", "start" \in call[c].done, ~call[c].ips, ~call[c].cancelled
      PROVE  LET n == call[c].asks.seconds
             IN  /\ n > 0 /\ Fits(n) => call[c].waited > n * Second
                 /\ n <= 0 \/ Seconds(n) <= 0 => call[c].waited > DefaultWait
  <2>1. call[c].waited > IPWait(call[c].asks)
    BY <1>1 DEF ProvisionInv, ReportOK
  <2>2. call[c].asks \in Request
    BY <1>1 DEF ProvisionInv, Typed, TypeOK, Call
  <2> QED BY <2>1, <2>2, WaitFits
<1>2. ProvisionInv => AddressWasWaitedFor
  BY <1>1 DEF AddressWasWaitedFor
<1> QED BY <1>2, ProvisionInvAlways, PTL

(***************************************************************************)
(* Whose VM a command reaches.  Without changes from outside a VM keeps    *)
(* its name, so the name by which a call speaks of its VM stays its own.   *)
(***************************************************************************)

Owns(c) ==
  call[c].pc \in Optional \cup {"poll"} =>
    \E v \in VMs : Registered(v) /\ vm[v].by = c /\ vm[v].name = call[c].asks.name

OwnInv == ActsOnOwnVM /\ \A c \in Creations : Owns(c)

(* A command unregisters and renames nothing.                              *)
LEMMA ProvisionKeeps ==
  ASSUME TypeOK, NEW c \in Creations, NEW op \in Ops, NEW v \in VMs, Does(c, op, v)
  PROVE  /\ \A w \in VMs : Registered(w) => Registered(w)' /\ vm'[w].name = vm[w].name
         /\ op \in Making => Registered(v)' /\ vm'[v].name = call[c].asks.name
<1>1. vm \in [VMs -> VM]
  BY DEF TypeOK
<1>2. CASE op \in Making
  <2>1. /\ vm[v].state = "unborn"
        /\ vm' = [vm EXCEPT ![v] = [state |-> "stopped", name |-> call[c].asks.name, by |-> c,
                                    template |-> Flagged(op, call[c].asks)]]
    BY <1>2 DEF Does, Making
  <2>2. /\ vm'[v].state = "stopped" /\ vm'[v].name = call[c].asks.name
        /\ \A w \in VMs \ {v} : vm'[w] = vm[w]
    BY <1>1, <2>1
  <2> QED BY <2>1, <2>2 DEF Registered
<1>3. CASE op \notin Making
  <2>1. vm' = vm \/ vm' = [vm EXCEPT ![v].state = "running"]
    BY <1>3 DEF Does, Making
  <2>2. CASE vm' = vm
    BY <1>3, <2>2 DEF Registered
  <2>3. CASE vm' = [vm EXCEPT ![v].state = "running"]
    <3>1. /\ vm'[v].state = "running" /\ vm'[v].name = vm[v].name
          /\ \A w \in VMs \ {v} : vm'[w] = vm[w]
      BY <1>1, <2>3 DEF VM
    <3> QED BY <1>3, <3>1 DEF Registered
  <2> QED BY <2>1, <2>2, <2>3
<1> QED BY <1>2, <1>3

(* What a call owns it keeps, as long as its record and the VMs do.        *)
LEMMA ProvisionOwnsKept ==
  ASSUME NEW c \in Creations, Owns(c), call'[c].asks = call[c].asks,
         call'[c].pc \in Optional \cup {"poll"} => call[c].pc \in Optional \cup {"poll"},
         \A w \in VMs : Registered(w) => /\ Registered(w)' /\ vm'[w].name = vm[w].name
                                         /\ vm'[w].by = vm[w].by
  PROVE  Owns(c)'
BY DEF Owns

LEMMA ProvisionOwnStep ==
  ASSUME MaxOutside = 0
  PROVE  ProvisionInv /\ OwnInv /\ [Next]_vars => OwnInv'
<1> SUFFICES ASSUME ProvisionInv, OwnInv, [Next]_vars PROVE OwnInv' OBVIOUS
<1>1. /\ Typed /\ TypeOK /\ WorldOK /\ call \in [Creations -> Call] /\ vm \in [VMs -> VM]
      /\ landed \subseteq [call : Creations, op : Ops, vm : VMs]
      /\ ActsOnOwnVM /\ \A c \in Creations : Owns(c)
  BY DEF ProvisionInv, Typed, TypeOK, OwnInv
<1>2. ASSUME UNCHANGED <<vm, landed>>,
             \A c \in Creations :
               call'[c].pc \in Optional \cup {"poll"} =>
                 call'[c].asks = call[c].asks /\ call[c].pc = call'[c].pc
      PROVE  OwnInv'
  <2>1. ActsOnOwnVM'
    BY <1>1, <1>2 DEF ActsOnOwnVM
  <2>2. ASSUME NEW c \in Creations PROVE Owns(c)'
    BY <1>1, <1>2 DEF Owns, Registered
  <2> QED BY <2>1, <2>2 DEF OwnInv
<1>3. ASSUME NEW c \in Creations, Enter(c) PROVE OwnInv'
  <2>1. PICK r \in Requests : call' = [call EXCEPT ![c] = At(r.tool, r)]
    BY <1>3 DEF Enter
  <2>2. call'[c].pc \in {"create", "clone"} /\ \A d \in Creations \ {c} : call'[d] = call[d]
    BY <1>1, <2>1, ProvisionAssumption DEF At, Request
  <2> QED BY <1>2, <1>3, <2>2 DEF Enter, Optional
<1>4. ASSUME NEW c \in Creations, Spawn(c) \/ Cancel(c) PROVE OwnInv'
  <2>1. call'[c].pc = call[c].pc /\ call'[c].asks = call[c].asks
    BY <1>1, <1>4 DEF Spawn, Cancel, Call
  <2>2. \A d \in Creations \ {c} : call'[d] = call[d]
    BY <1>1, <1>4 DEF Spawn, Cancel
  <2> QED BY <1>2, <1>4, <2>1, <2>2 DEF Spawn, Cancel
<1>5. ASSUME NEW c \in Creations, Returns(c) PROVE OwnInv'
  <2>1. PICK op \in Ops, end \in Ends :
          Ended(c, op, end) /\ Turn(call[c], call'[c], op, end)
    BY <1>5, ProvisionTurns
  <2>2. \A d \in Creations \ {c} : call'[d] = call[d]
    BY <1>1, <1>5, ProvisionReturned
  <2>3. call[c].pc = op
    BY <2>1 DEF Ended
  <2>4. /\ call'[c].asks = call[c].asks
        /\ call'[c].pc \in Optional \cup {"poll"} =>
             op \in Optional \cup {"poll"} \/ (op \in Making /\ end = "exit0")
    BY <2>1 DEF Turn, Making, Optional, Ops
  <2>5. CASE UNCHANGED <<vm, landed>> /\ end # "exit0"
    <3>1. ActsOnOwnVM'
      BY <1>1, <2>5 DEF ActsOnOwnVM
    <3>2. ASSUME NEW d \in Creations PROVE Owns(d)'
      BY <1>1, <2>2, <2>3, <2>4, <2>5, ProvisionOwnsKept DEF Registered
    <3> QED BY <3>1, <3>2 DEF OwnInv
  <2>6. ASSUME NEW v \in VMs, Does(c, op, v) PROVE OwnInv'
    <3>1. /\ landed' = landed \cup {[call |-> c, op |-> op, vm |-> v]}
          /\ op \in Making => vm[v].by = Nobody
          /\ op \notin Making => v \in Named(call[c].asks.name)
          /\ \A w \in VMs : vm'[w].by = IF op \in Making /\ w = v THEN c ELSE vm[w].by
      BY <1>1, <2>6, ProvisionDoes
    <3>2. /\ \A w \in VMs : Registered(w) => Registered(w)' /\ vm'[w].name = vm[w].name
          /\ op \in Making => Registered(v)' /\ vm'[v].name = call[c].asks.name
      BY <1>1, <2>6, ProvisionKeeps
    <3>3. op \in Making => vm[v].state = "unborn"
      BY <2>6 DEF Does, Making
    <3>4. \A w \in VMs : Registered(w) => vm'[w].by = vm[w].by
      BY <3>1, <3>3 DEF Registered
    <3>5. vm'[v].by = c
      <4>1. CASE op \in Making
        BY <3>1, <4>1
      <4>2. CASE op \notin Making
        <5>1. PICK w \in VMs : Registered(w) /\ vm[w].by = c /\ vm[w].name = call[c].asks.name
          BY <1>1, <2>3, <4>2 DEF Owns, Making, Optional, Ops
        <5>2. w = v
          BY <1>1, <3>1, <4>2, <5>1 DEF WorldOK, Named
        <5> QED BY <3>1, <4>2, <5>1, <5>2
      <4> QED BY <4>1, <4>2
    <3>6. ActsOnOwnVM'
      <4>1. ASSUME NEW m \in landed PROVE vm'[m.vm].by = m.call
        <5>1. m.vm \in VMs /\ m.call \in Creations /\ vm[m.vm].by = m.call
          BY <1>1 DEF ActsOnOwnVM
        <5> QED BY <3>1, <5>1, ProvisionAssumption
      <4> QED BY <3>1, <3>5, <4>1 DEF ActsOnOwnVM
    <3>7. ASSUME NEW d \in Creations PROVE Owns(d)'
      <4>1. CASE d # c \/ op \notin Making
        BY <1>1, <2>2, <2>3, <2>4, <3>2, <3>4, <4>1, ProvisionOwnsKept
      <4>2. CASE d = c /\ op \in Making
        BY <2>4, <3>2, <3>5, <4>2 DEF Owns
      <4> QED BY <4>1, <4>2
    <3> QED BY <3>6, <3>7 DEF OwnInv
  <2> QED BY <2>1, <2>5, <2>6 DEF Ended
<1>6. ASSUME NEW v \in VMs, Outside(v) PROVE FALSE
  BY <1>1, <1>6 DEF Outside, TypeOK
<1>7. ASSUME ServerStops PROVE OwnInv'
  <2>1. ASSUME NEW c \in Creations
        PROVE  call'[c] = call[c] \/ call'[c].pc = "lost"
    BY <1>1, <1>7 DEF ServerStops, Call
  <2> QED BY <1>2, <1>7, <2>1 DEF ServerStops, Optional
<1>8. ASSUME UNCHANGED vars PROVE OwnInv'
  BY <1>2, <1>8 DEF vars
<1> QED BY <1>3, <1>4, <1>5, <1>6, <1>7, <1>8 DEF Next

(* Whatever the order in which calls for one name run: unless somebody     *)
(* outside renames or deletes VMs, no call touches the VM of another.      *)
THEOREM ProvisionActsOnOwn ==
  ASSUME MaxOutside = 0
  PROVE  Spec => []ActsOnOwnVM
<1>1. Init => OwnInv
  BY DEF Init, At, OwnInv, ActsOnOwnVM, Owns, Optional
<1>2. ProvisionInv /\ OwnInv /\ [Next]_vars => OwnInv'
  BY ProvisionOwnStep
<1>3. OwnInv => ActsOnOwnVM
  BY DEF OwnInv
<1> QED BY <1>1, <1>2, <1>3, ProvisionInvAlways, PTL DEF Spec
-----------------------------------------------------------------------------
(***************************************************************************)
(* That a call comes to its end.  The chain of Create only goes forward;   *)
(* in its last stage every turn of the poll takes at least the interval    *)
(* away from a wait that is bounded.                                       *)
(***************************************************************************)
Stage(k) ==
  CASE k.pc = "create" -> 7
    [] k.pc = "fallback" -> 6
    [] k.pc = "find" -> 5
    [] k.pc = "set" -> 4
    [] k.pc = "start" -> 3
    [] k.pc = "ssh" -> 2
    [] k.pc \in {"poll", "clone"} -> 1
    [] OTHER -> 0

Rest(k) ==
  2 * (IPWait(k.asks) + 2 * Interval - k.waited) + (IF k.running THEN 0 ELSE 1)

Left(k) == <<Stage(k), Rest(k)>>

LEMMA StageFacts ==
  ASSUME NEW k
  PROVE  /\ k.pc = "create" => Stage(k) = 7
         /\ k.pc = "fallback" => Stage(k) = 6
         /\ k.pc = "find" => Stage(k) = 5
         /\ k.pc = "set" => Stage(k) = 4
         /\ k.pc = "start" => Stage(k) = 3
         /\ k.pc = "ssh" => Stage(k) = 2
         /\ k.pc \in {"poll", "clone"} => Stage(k) = 1
         /\ k.pc \in {"idle", "answered", "lost"} => Stage(k) = 0
         /\ k.pc \in Ops => Stage(k) > 0
         /\ Stage(k) \in Nat
  BY DEF Stage, Ops

LEMMA LeftType ==
  ASSUME TypeOK, NEW c \in Creations PROVE Left(call[c]) \in Rank
<1>1. /\ call[c] \in Call /\ call[c].waited \in Nat /\ IPWait(call[c].asks) \in Nat
      /\ call[c].waited <= IPWait(call[c].asks) + 2 * Interval /\ Interval \in Nat
  BY WaitFits, ProvisionAssumption DEF TypeOK, Call
<1>2. Rest(call[c]) \in Nat
  BY <1>1 DEF Rest
<1> QED BY <1>2, StageFacts DEF Left, Rank

LEMMA LowerStage ==
  ASSUME NEW k, NEW j, Stage(j) < Stage(k)
  PROVE  Below(Left(j), Left(k))
  BY DEF Below, Left

LEMMA LessRest ==
  ASSUME NEW k, NEW j, Stage(j) = Stage(k), Rest(j) < Rest(k)
  PROVE  Below(Left(j), Left(k))
  BY DEF Below, Left

LEMMA OwnStepDescends ==
  ASSUME TypeOK, NEW c \in Creations, Spawn(c) \/ Returns(c)
  PROVE  Below(Left(call'[c]), Left(call[c]))
<1> DEFINE k == call[c]
           j == call'[c]
<1>1. /\ k \in Call /\ k.asks \in Request /\ IPWait(k.asks) \in Nat /\ k.waited \in Nat
      /\ Interval \in Nat \ {0}
  BY WaitFits, ProvisionAssumption DEF TypeOK, Call
<1>2. \A o \in Ops : Done(k, o) \in Call /\ Warned(k, o) \in Call
  BY <1>1, ProvisionRecords
<1>3. \A o, e : Ended(c, o, e) => k.pc = o
  BY DEF Ended
<1>4. ASSUME NEW h \in Call, NEW pc, GoOn(c, h, pc) PROVE j.pc = pc
  BY <1>4, ProvisionGoOn
<1>5. ASSUME NEW h \in Call, NEW r, Reply(c, h, r), k.pc \in Ops
      PROVE  Below(Left(j), Left(k))
  <2>1. j.pc = "answered"
    BY <1>5, ProvisionReply
  <2>2. Stage(j) < Stage(k)
    BY <1>5, <2>1, StageFacts
  <2> QED BY <2>2, LowerStage
<1>6. ASSUME Stage(j) < Stage(k) PROVE Below(Left(j), Left(k))
  BY <1>6, LowerStage
<1>7. CASE Spawn(c)
  <2>1. j = [k EXCEPT !.running = TRUE] /\ ~k.running
    BY <1>7 DEF Spawn, TypeOK
  <2>2. /\ j.pc = k.pc /\ j.asks = k.asks /\ j.waited = k.waited /\ j.running
    BY <1>1, <2>1 DEF Call
  <2>3. Stage(j) = Stage(k)
    BY <2>2 DEF Stage
  <2>4. Rest(j) < Rest(k)
    BY <1>1, <2>1, <2>2 DEF Rest
  <2> QED BY <2>3, <2>4, LessRest
<1>8. CASE CreateReturns(c)
  <2>1. k.pc = "create" /\ "create" \in Ops
    BY <1>3, <1>8 DEF CreateReturns, Ops
  <2>2. j.pc \in {"find", "fallback"}
    BY <1>1, <1>2, <1>4, <1>8, <2>1 DEF CreateReturns
  <2>3. Stage(j) < Stage(k)
    BY <2>1, <2>2, StageFacts
  <2> QED BY <1>6, <2>3
<1>9. CASE FallbackReturns(c)
  <2>1. k.pc = "fallback" /\ "create" \in Ops /\ k.pc \in Ops
    BY <1>3, <1>9 DEF FallbackReturns, Ops
  <2>2. CASE GoOn(c, Done(k, "create"), "find")
    <3>1. j.pc = "find"
      BY <1>2, <1>4, <2>1, <2>2
    <3>2. Stage(j) < Stage(k)
      BY <2>1, <3>1, StageFacts
    <3> QED BY <1>6, <3>2
  <2>3. CASE Reply(c, k, "error")
    BY <1>1, <1>5, <2>1, <2>3
  <2> QED BY <1>9, <2>2, <2>3 DEF FallbackReturns
<1>10. CASE FindReturns(c)
  <2>1. k.pc = "find" /\ "find" \in Ops
    BY <1>3, <1>10 DEF FindReturns, Ops
  <2>2. PICK pc \in {"set", "start"} :
          \/ \E v : GoOn(c, [k EXCEPT !.uuid = v], pc)
          \/ GoOn(c, Warned(k, "find"), pc)
    BY <1>10 DEF FindReturns
  <2>3. j.pc = pc
    <3>1. ASSUME NEW v, GoOn(c, [k EXCEPT !.uuid = v], pc) PROVE j.pc = pc
      <4>1. j = [[k EXCEPT !.uuid = v] EXCEPT !.pc = pc, !.running = FALSE]
        BY <3>1 DEF GoOn, TypeOK
      <4> QED BY <1>1, <4>1 DEF Call
    <3>2. ASSUME GoOn(c, Warned(k, "find"), pc) PROVE j.pc = pc
      BY <1>2, <1>4, <2>1, <3>2
    <3> QED BY <2>2, <3>1, <3>2
  <2>4. Stage(j) < Stage(k)
    BY <2>1, <2>3, StageFacts
  <2> QED BY <1>6, <2>4
<1>11. CASE SetReturns(c)
  <2>1. k.pc = "set" /\ "set" \in Ops
    BY <1>3, <1>11 DEF SetReturns, Ops
  <2>2. j.pc = "start"
    BY <1>2, <1>4, <1>11, <2>1 DEF SetReturns
  <2>3. Stage(j) < Stage(k)
    BY <2>1, <2>2, StageFacts
  <2> QED BY <1>6, <2>3
<1>12. CASE StartReturns(c)
  <2>1. k.pc = "start" /\ "start" \in Ops
    BY <1>3, <1>12 DEF StartReturns, Ops
  <2>2. ASSUME NEW pc \in {"ssh", "poll"}, GoOn(c, Done(k, "start"), pc)
        PROVE  Below(Left(j), Left(k))
    <3>1. j.pc = pc
      BY <1>2, <1>4, <2>1, <2>2
    <3>2. Stage(j) < Stage(k)
      BY <2>1, <3>1, StageFacts
    <3> QED BY <1>6, <3>2
  <2>3. CASE Reply(c, Warned(k, "start"), "ok")
    BY <1>2, <1>5, <2>1, <2>3
  <2> QED BY <1>12, <2>2, <2>3 DEF StartReturns
<1>13. CASE SshReturns(c)
  <2>1. k.pc = "ssh" /\ "ssh" \in Ops
    BY <1>3, <1>13 DEF SshReturns, Ops
  <2>2. j.pc = "poll"
    BY <1>2, <1>4, <1>13, <2>1 DEF SshReturns
  <2>3. Stage(j) < Stage(k)
    BY <2>1, <2>2, StageFacts
  <2> QED BY <1>6, <2>3
<1>14. CASE PollReturns(c)
  <2>1. k.pc = "poll" /\ k.pc \in Ops
    BY <1>3, <1>14 DEF PollReturns, Ops
  <2>2. PICK took \in 0..Interval, found \in BOOLEAN :
          \/ Reply(c, [k EXCEPT !.ips = found, !.waited = k.waited + took], "ok")
          \/ GoOn(c, [k EXCEPT !.waited = k.waited + took + Interval], "poll")
    BY <1>14 DEF PollReturns
  <2>3. CASE Reply(c, [k EXCEPT !.ips = found, !.waited = k.waited + took], "ok")
    <3>1. k.waited + took \in Nat
      BY <1>1
    <3>2. [k EXCEPT !.ips = found, !.waited = k.waited + took] \in Call
      BY <1>1, <3>1 DEF Call
    <3> QED BY <1>5, <2>1, <2>3, <3>2
  <2>4. CASE GoOn(c, [k EXCEPT !.waited = k.waited + took + Interval], "poll")
    <3> DEFINE h == [k EXCEPT !.waited = k.waited + took + Interval]
    <3>1. k.waited + took + Interval \in Nat
      BY <1>1
    <3>2. h \in Call /\ h.waited = k.waited + took + Interval /\ h.asks = k.asks
      BY <1>1, <3>1 DEF Call
    <3> HIDE DEF h
    <3>3. GoOn(c, h, "poll")
      BY <2>4 DEF h
    <3>4. j.pc = "poll" /\ ~j.running /\ j.asks = k.asks
          /\ j.waited = k.waited + took + Interval
      BY <3>2, <3>3, ProvisionGoOn
    <3>5. Stage(j) = Stage(k)
      BY <2>1, <3>4 DEF Stage
    <3>6. /\ Rest(j) = 2 * (IPWait(k.asks) + 2 * Interval - (k.waited + took + Interval)) + 1
          /\ Rest(k) \in {2 * (IPWait(k.asks) + 2 * Interval - k.waited),
                          2 * (IPWait(k.asks) + 2 * Interval - k.waited) + 1}
      BY <1>1, <3>4 DEF Rest
    <3>7. Rest(j) < Rest(k)
      BY <1>1, <3>6
    <3> QED BY <3>5, <3>7, LessRest
  <2> QED BY <2>2, <2>3, <2>4
<1>15. CASE CloneReturns(c)
  <2>1. k.pc = "clone" /\ "clone" \in Ops
    BY <1>3, <1>15 DEF CloneReturns, Ops
  <2> QED BY <1>1, <1>2, <1>5, <1>15, <2>1 DEF CloneReturns
<1> QED BY <1>7, <1>8, <1>9, <1>10, <1>11, <1>12, <1>13, <1>14, <1>15 DEF Returns

(* What anybody else does leaves an active call what it has to do, or ends *)
(* it.                                                                     *)
LEMMA OthersLeaveRank ==
  ASSUME TypeOK, [Next]_vars, NEW c \in Creations, Active(call[c]),
         ~(Spawn(c) \/ Returns(c))
  PROVE  Left(call'[c]) = Left(call[c]) \/ Below(Left(call'[c]), Left(call[c]))
<1> DEFINE k == call[c]
<1>0. k \in Call
  BY DEF TypeOK
<1>1. ASSUME NEW d \in Creations, Enter(d) \/ Spawn(d) \/ Returns(d) \/ Cancel(d), d # c
      PROVE  call'[c] = k
  BY <1>1 DEF Enter, Spawn, Returns, CreateReturns, FallbackReturns, FindReturns,
              SetReturns, StartReturns, SshReturns, PollReturns, CloneReturns, GoOn,
              Reply, Cancel, TypeOK
<1>2. ~Enter(c)
  BY DEF Enter, Active, Ops
<1>3. CASE Cancel(c)
  <2>1. call'[c] = [k EXCEPT !.cancelled = TRUE]
    BY <1>3 DEF Cancel, TypeOK
  <2>2. /\ call'[c].pc = k.pc /\ call'[c].asks = k.asks /\ call'[c].waited = k.waited
        /\ call'[c].running = k.running
    BY <1>0, <2>1 DEF Call
  <2> QED BY <2>2 DEF Left, Stage, Rest
<1>4. CASE ServerStops
  <2>1. call'[c] = [k EXCEPT !.pc = "lost"]
    BY <1>4 DEF ServerStops
  <2>2. call'[c].pc = "lost"
    BY <1>0, <2>1 DEF Call
  <2>3. Stage(call'[c]) < Stage(k)
    BY <2>2, StageFacts DEF Active
  <2> QED BY <2>3, LowerStage
<1>5. ASSUME NEW v \in VMs, Outside(v) PROVE call'[c] = k
  BY <1>5 DEF Outside
<1>6. CASE UNCHANGED vars
  BY <1>6 DEF vars
<1> QED BY <1>1, <1>2, <1>3, <1>4, <1>5, <1>6 DEF Next

(***************************************************************************)
(* The chain of Create and its poll come to an end, for any wait that is   *)
(* asked for, on any width of a Duration: each step of a call lowers its   *)
(* rank and nothing else raises it, nor a VM that never gets an address.   *)
(* What EveryCallIsAnswered adds is that a next step is always possible    *)
(* and taken.                                                              *)
(***************************************************************************)
THEOREM ProvisionRunsDown ==
  Spec => /\ [](\A c \in Creations : Left(call[c]) \in Rank)
          /\ [][\A c \in Creations :
                  /\ Spawn(c) \/ Returns(c) => Below(Left(call'[c]), Left(call[c]))
                  /\ Active(call[c]) => \/ Left(call'[c]) = Left(call[c])
                                        \/ Below(Left(call'[c]), Left(call[c]))]_vars
<1>1. TypeOK => \A c \in Creations : Left(call[c]) \in Rank
  BY LeftType
<1>2. ASSUME TypeOK, [Next]_vars, NEW c \in Creations
      PROVE  /\ Spawn(c) \/ Returns(c) => Below(Left(call'[c]), Left(call[c]))
             /\ Active(call[c]) => \/ Left(call'[c]) = Left(call[c])
                                   \/ Below(Left(call'[c]), Left(call[c]))
  BY <1>2, OwnStepDescends, OthersLeaveRank
<1>3. TypeOK /\ [Next]_vars =>
        [\A c \in Creations :
           /\ Spawn(c) \/ Returns(c) => Below(Left(call'[c]), Left(call[c]))
           /\ Active(call[c]) => \/ Left(call'[c]) = Left(call[c])
                                 \/ Below(Left(call'[c]), Left(call[c]))]_vars
  BY <1>2
<1> QED BY <1>1, <1>3, ProvisionTypeCorrect, PTL DEF Spec
=============================================================================
