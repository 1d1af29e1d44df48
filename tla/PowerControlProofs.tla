------------------------- MODULE PowerControlProofs -------------------------
(***************************************************************************)
(* What PowerControl guarantees for every set of VMs, names and calls and  *)
(* any number of changes from outside.                                     *)
(***************************************************************************)
EXTENDS PowerControl, TLAPS

(* The initial states have the types of their variables. *)
LEMMA PowerTypeInit == Init => TypeOK
<1> SUFFICES ASSUME Init PROVE TypeOK OBVIOUS
<1>1. AnyName \in Names
  BY PowerAssumption DEF AnyName
<1>2. call \in [Calls -> Call]
  BY <1>1 DEF Init, Call, AllTools, Ids, Ops, Errors, PowerStates
<1>3. state \in [VMs -> PowerStates] /\ external \in 0..MaxExternal
  BY PowerAssumption DEF Init, PowerStates
<1> QED
  BY <1>2, <1>3 DEF Init, TypeOK

(* Every step keeps them. *)
LEMMA PowerTypeStep == TypeOK /\ [Next]_vars => TypeOK'
<1> SUFFICES ASSUME TypeOK, [Next]_vars PROVE TypeOK' OBVIOUS
<1> USE DEF TypeOK
<1>1. ASSUME NEW c \in Calls, Invoke(c) PROVE TypeOK'
  <2>1. PICK t \in Tools, i \in Ids, f \in BOOLEAN, y \in BOOLEAN, n \in Names :
          Enter(c, t, i, f, y, n)
    BY <1>1 DEF Invoke
  <2>2. t \in AllTools /\ FirstOp(t, f) \in Ops
    BY PowerAssumption DEF FirstOp, Ops, AllTools
  <2>3. Entered(t, i, f, y, n) \in Call
    BY <2>2 DEF Call, Entered, Errors, PowerStates
  <2>4. [Entered(t, i, f, y, n) EXCEPT !.phase = "answered",
                                       !.reply = "refused"] \in Call
    BY <2>3 DEF Call
  <2>5. call' \in [Calls -> Call]
    BY <2>1, <2>3, <2>4 DEF Enter
  <2> QED BY <2>1, <2>5 DEF Enter
<1>2. ASSUME NEW c \in Calls, Spawn(c) PROVE TypeOK'
  <2>1. Resolve(call[c].id) \in VMs \cup {NoVM}
    BY DEF Resolve
  <2>2. call' \in [Calls -> Call]
    BY <1>2 DEF Spawn, Call
  <2>3. dispatcher' \subseteq Request
    BY <1>2, <2>1 DEF Spawn, Request, Call
  <2> QED BY <1>2, <2>2, <2>3 DEF Spawn
<1>3. ASSUME NEW m \in dispatcher, Perform(m) PROVE TypeOK'
  <2>1. m \in Request /\ state[m.vm] \in PowerStates
    BY DEF Request
  <2>2. \A s \in PowerStates : StateAfter(m.op, s) \in PowerStates
    BY DEF StateAfter, PowerStates
  <2>3. call[m.call].newName \in Names
    BY <2>1 DEF Request, Call
  <2> QED BY <1>3, <2>1, <2>2, <2>3 DEF Perform, WithoutAcpi
<1>4. ASSUME NEW c \in Calls, Returns(c) PROVE TypeOK'
  <2>1. \A end \in Ends : RunErr(end, call[c].cancelled) \in Errors
    BY DEF RunErr, Errors, Ends
  <2>2. \A end \in Ends : Ended(c, end) => dispatcher' \subseteq Request
    BY DEF Ended, Mine
  <2>3. \A op \in Ops, err \in Errors :
          GoOn(c, op, err) => call' \in [Calls -> Call]
    <3>1. \A op \in Ops, err \in Errors :
            [call[c] EXCEPT !.op = op, !.err = err, !.phase = "ready"] \in Call
      BY DEF Call
    <3> QED BY <3>1 DEF GoOn
  <2>4. \A err \in Errors : Reply(c, err) => call' \in [Calls -> Call]
    <3>1. \A err \in Errors :
            [call[c] EXCEPT !.phase = "answered", !.reply = err] \in Call
      BY DEF Call
    <3> QED BY <3>1 DEF Reply
  <2>5. call[c] \in Call /\ call[c].err \in Errors
    BY DEF Call
  <2>6. "kill" \in Ops /\ "start" \in Ops /\ "delete" \in Ops
    BY DEF Ops
  <2>7. CASE StopReturns(c)
    BY <2>1, <2>2, <2>3, <2>4, <2>6, <2>7 DEF StopReturns
  <2>8. CASE RestartReturns(c)
    BY <2>1, <2>2, <2>3, <2>4, <2>6, <2>8 DEF RestartReturns
  <2>9. CASE KillReturns(c)
    <3>1. call' \in [Calls -> Call]
      BY <2>1, <2>3, <2>4, <2>5, <2>6, <2>9 DEF KillReturns
    <3> QED BY <2>2, <2>9, <3>1 DEF KillReturns
  <2>10. CASE FindReturns(c)
    <3>1. Resolve(call[c].id) \in VMs \cup {NoVM}
      BY DEF Resolve
    <3>2. PICK saw \in PowerStates :
            call' = [call EXCEPT ![c] =
                       [@ EXCEPT !.saw = saw, !.phase = "ready",
                                 !.op = IF saw \in {"running", "paused"}
                                        THEN "kill" ELSE "delete"]]
      BY <2>10, <3>1 DEF FindReturns, PowerStates
    <3>3. call' \in [Calls -> Call]
      BY <2>5, <2>6, <3>2 DEF Call
    <3> QED BY <2>2, <2>10, <3>3 DEF FindReturns
  <2>11. CASE LastReturns(c)
    BY <2>1, <2>2, <2>4, <2>11 DEF LastReturns
  <2> QED BY <1>4, <2>7, <2>8, <2>9, <2>10, <2>11 DEF Returns
<1>5. ASSUME NEW c \in Calls, Cancel(c) PROVE TypeOK'
  <2>1. [call[c] EXCEPT !.cancelled = TRUE] \in Call
    BY DEF Call
  <2>2. call' \in [Calls -> Call]
    BY <1>5, <2>1 DEF Cancel
  <2> QED BY <1>5, <2>2 DEF Cancel
<1>6. ASSUME NEW v \in VMs, OutsidePower(v) PROVE TypeOK'
  BY <1>6, PowerAssumption DEF OutsidePower, PowerStates, WithoutAcpi
<1>7. ASSUME NEW v \in VMs, OutsideRegister(v) PROVE TypeOK'
  BY <1>7, PowerAssumption DEF OutsideRegister, PowerStates
<1>8. ASSUME NEW v \in VMs, OutsideRename(v) PROVE TypeOK'
  BY <1>8, PowerAssumption DEF OutsideRename
<1>9. CASE ServerStops
  <2>1. call' \in [Calls -> Call]
    BY <1>9 DEF ServerStops, Call
  <2> QED BY <1>9, <2>1 DEF ServerStops
<1>10. CASE UNCHANGED vars
  BY <1>10 DEF vars
<1> QED
  BY <1>1, <1>2, <1>3, <1>4, <1>5, <1>6, <1>7, <1>8, <1>9, <1>10 DEF Next

(* In every reachable state the variables have their types. *)
THEOREM PowerTypeCorrect == Spec => []TypeOK
  BY PowerTypeInit, PowerTypeStep, PTL DEF Spec

-----------------------------------------------------------------------------
(***************************************************************************)
(* The inductive invariant of the safety properties.  OkMeansDone and      *)
(* DestructionIsEarned speak of the end of a call; what carries them there *)
(* is which command can follow which (CallOK), and that the fields that    *)
(* justified a request do not change after it was handed over (RequestOK). *)
(***************************************************************************)
CallOK(k) ==
  /\ k.phase # "idle" =>
       /\ k.op = "stop" => k.tool = "stop"
       /\ k.op = "restart" => k.tool = "restart"
       /\ k.op = "start" => k.tool \in {"start", "restart"}
       /\ k.op = "kill" => k.tool \in {"stop", "restart", "delete"}
       /\ k.op = "rename" => k.tool = "configure"
       /\ k.op = "find" => k.tool = "delete"
       /\ k.op \in {"suspend", "resume", "delete"} => k.tool = k.op
  /\ k.err = "ctx" => k.cancelled
  /\ k.tool = "stop" /\ k.op = "kill" => k.force \/ k.err # "nil"
  /\ k.tool = "restart" /\ k.op \in {"kill", "start"} => k.err # "nil"
  /\ k.tool = "delete" /\ k.op = "kill" => k.saw \in {"running", "paused"}
  /\ k.tool = "delete" /\ k.reply # "refused" => k.confirm
  /\ k.reply # "none" => k.phase = "answered"

RequestOK(m, k) ==
  /\ Earned(m, k)
  /\ m.op = "kill" => k.op \in {"kill", "start", "delete"}
  /\ k.phase # "idle"
  /\ k.reply # "refused"
  /\ k.id \in VMs => m.vm = k.id

PowerInv ==
  /\ TypeOK
  /\ \A c \in Calls : CallOK(call[c])
  /\ \A m \in dispatcher \cup landed : RequestOK(m, call[m.call])
  /\ OkMeansDone

(* A step that rewrites one call record and hands nothing new over keeps   *)
(* the invariant if the new record does.                                   *)
LEMMA OneCallStep ==
  ASSUME PowerInv, TypeOK', NEW c \in Calls, NEW k \in Call,
         call' = [call EXCEPT ![c] = k],
         dispatcher' \subseteq dispatcher, landed' = landed,
         CallOK(k),
         \A m \in dispatcher \cup landed :
           m.call = c /\ RequestOK(m, call[c]) => RequestOK(m, k),
         k.reply = "nil" => \E m \in landed : m.call = c /\ m.op \in Claimed(k)
  PROVE  PowerInv'
<1>1. \A d \in Calls : call'[d] = IF d = c THEN k ELSE call[d]
  BY DEF PowerInv, TypeOK
<1>2. \A d \in Calls : CallOK(call'[d])
  BY <1>1 DEF PowerInv
<1>3. \A m \in dispatcher' \cup landed' : RequestOK(m, call'[m.call])
  <2> SUFFICES ASSUME NEW m \in dispatcher \cup landed
               PROVE  RequestOK(m, call'[m.call])
    OBVIOUS
  <2>1. m.call \in Calls /\ RequestOK(m, call[m.call])
    BY DEF PowerInv, TypeOK, Request
  <2> QED BY <1>1, <2>1
<1>4. OkMeansDone'
  BY <1>1 DEF PowerInv, OkMeansDone
<1> QED BY <1>2, <1>3, <1>4 DEF PowerInv

(* The five continuations of a finished process keep the invariant. *)
LEMMA ReturnsStep ==
  ASSUME PowerInv, TypeOK', NEW c \in Calls, Returns(c)
  PROVE  PowerInv'
<1> DEFINE k == call'[c]
<1>1. PICK end \in Ends : Ended(c, end)
  BY DEF Returns, StopReturns, RestartReturns, KillReturns, FindReturns, LastReturns
<1>2. /\ call[c] \in Call /\ CallOK(call[c]) /\ k \in Call
      /\ call[c].phase \in {"ready", "running"}
      /\ dispatcher' \subseteq dispatcher
  BY <1>1 DEF PowerInv, TypeOK, Ended, MayEnd, Mine, Ends
<1>3. landed' = landed
  BY DEF Returns, StopReturns, RestartReturns, KillReturns, FindReturns, LastReturns
<1>4. ASSUME NEW e \in Ends, Ended(c, e), call[c].op # "find",
             RunErr(e, call[c].cancelled) = "nil"
      PROVE  \E m \in landed : m.call = c /\ m.op = call[c].op
  BY <1>4 DEF Ended, MayEnd, RunErr, Landed
<1>5. ASSUME NEW e \in Ends PROVE RunErr(e, call[c].cancelled) = "ctx" => call[c].cancelled
  BY DEF RunErr
<1>6. /\ call' = [call EXCEPT ![c] = k]
      /\ CallOK(k)
      /\ \A m \in dispatcher \cup landed :
           m.call = c /\ RequestOK(m, call[c]) => RequestOK(m, k)
      /\ k.reply = "nil" => \E m \in landed : m.call = c /\ m.op \in Claimed(k)
  <2>1. CASE StopReturns(c) \/ RestartReturns(c)
    <3>1. PICK e \in Ends : LET r == RunErr(e, call[c].cancelled) IN
            /\ call[c].op \in {"stop", "restart"} /\ Ended(c, e)
            /\ IF r # "nil" THEN GoOn(c, "kill", r) ELSE Reply(c, r)
      BY <2>1 DEF StopReturns, RestartReturns
    <3>2. CASE RunErr(e, call[c].cancelled) = "nil"
      <4>1. /\ call' = [call EXCEPT ![c] = k]
            /\ k = [call[c] EXCEPT !.phase = "answered", !.reply = "nil"]
        BY <3>1, <3>2 DEF Reply, PowerInv, TypeOK
      <4> HIDE DEF k
      <4>2. CallOK(k)
        BY <1>2, <3>1, <4>1 DEF CallOK, Call
      <4>3. \E m \in landed : m.call = c /\ m.op \in Claimed(k)
        BY <1>2, <1>4, <3>1, <3>2, <4>1 DEF Claimed, CallOK, Call
      <4>4. \A m \in dispatcher \cup landed : RequestOK(m, call[c]) => RequestOK(m, k)
        BY <1>2, <4>1 DEF RequestOK, Earned, Call
      <4> QED BY <4>1, <4>2, <4>3, <4>4
    <3>3. CASE RunErr(e, call[c].cancelled) # "nil"
      <4> DEFINE r == RunErr(e, call[c].cancelled)
      <4>1. /\ call' = [call EXCEPT ![c] = k]
            /\ k = [call[c] EXCEPT !.op = "kill", !.err = r, !.phase = "ready"]
        BY <3>1, <3>3 DEF GoOn, PowerInv, TypeOK
      <4>2. r # "nil" /\ (r = "ctx" => call[c].cancelled)
        BY <1>5, <3>3
      <4> HIDE DEF k, r
      <4>3. CallOK(k) /\ k.reply # "nil"
        BY <1>2, <3>1, <4>1, <4>2 DEF CallOK, Call
      <4>4. \A m \in dispatcher \cup landed : RequestOK(m, call[c]) => RequestOK(m, k)
        BY <1>2, <3>1, <4>1 DEF RequestOK, Earned, Call, CallOK
      <4> QED BY <4>1, <4>3, <4>4
    <3> QED BY <3>2, <3>3
  <2>2. CASE KillReturns(c)
    <3>1. PICK e \in Ends : LET r == RunErr(e, call[c].cancelled) IN
            /\ call[c].op = "kill" /\ Ended(c, e)
            /\ CASE call[c].tool = "restart" ->
                      IF r = "nil" THEN GoOn(c, "start", call[c].err)
                      ELSE Reply(c, call[c].err)
                 [] call[c].tool = "delete" -> GoOn(c, "delete", call[c].err)
                 [] OTHER -> Reply(c, r)
      BY <2>2 DEF KillReturns
    <3> DEFINE r == RunErr(e, call[c].cancelled)
    <3>2. CASE call[c].tool \in {"restart", "delete"} /\ k.reply = "none"
      <4>1. PICK op \in {"start", "delete"} :
              /\ GoOn(c, op, call[c].err)
              /\ op = "start" <=> call[c].tool = "restart"
        <5>1. ASSUME Reply(c, call[c].err) PROVE k.reply # "none"
          BY <5>1, <1>2 DEF Reply, PowerInv, TypeOK, Call, Errors
        <5> QED BY <3>1, <3>2, <5>1
      <4>2. /\ call' = [call EXCEPT ![c] = k]
            /\ k = [call[c] EXCEPT !.op = op, !.err = call[c].err, !.phase = "ready"]
        BY <4>1 DEF GoOn, PowerInv, TypeOK
      <4> HIDE DEF k
      <4>3. CallOK(k)
        BY <1>2, <3>1, <3>2, <4>1, <4>2 DEF CallOK, Call
      <4>4. \A m \in dispatcher \cup landed : RequestOK(m, call[c]) => RequestOK(m, k)
        BY <1>2, <4>1, <4>2 DEF RequestOK, Earned, Call
      <4> QED BY <3>2, <4>2, <4>3, <4>4
    <3>3. CASE ~(call[c].tool \in {"restart", "delete"} /\ k.reply = "none")
      <4>1. PICK err \in Errors :
              /\ Reply(c, err)
              /\ call[c].tool = "restart" => err = call[c].err
              /\ call[c].tool # "restart" => call[c].tool = "stop" /\ err = r
        <5>1. ASSUME NEW op, NEW err, GoOn(c, op, err) PROVE k.reply = call[c].reply
          BY <5>1, <1>2 DEF GoOn, PowerInv, TypeOK, Call
        <5>2. call[c].reply = "none"
          BY <1>2 DEF CallOK, Call
        <5>3. r \in Errors /\ call[c].err \in Errors
          BY <1>2 DEF RunErr, Errors, Call
        <5>4. call[c].tool \in {"stop", "restart", "delete"}
          BY <1>2, <3>1 DEF CallOK
        <5> QED BY <3>1, <3>3, <5>1, <5>2, <5>3, <5>4
      <4>2. /\ call' = [call EXCEPT ![c] = k]
            /\ k = [call[c] EXCEPT !.phase = "answered", !.reply = err]
        BY <4>1 DEF Reply, PowerInv, TypeOK
      <4> HIDE DEF k, r
      <4>3. CallOK(k)
        BY <1>2, <3>1, <4>1, <4>2 DEF CallOK, Call
      <4>4. \A m \in dispatcher \cup landed : RequestOK(m, call[c]) => RequestOK(m, k)
        BY <1>2, <4>1, <4>2 DEF RequestOK, Earned, Call, Errors
      <4>5. k.reply = "nil" => \E m \in landed : m.call = c /\ m.op \in Claimed(k)
        <5> SUFFICES ASSUME k.reply = "nil"
                     PROVE  \E m \in landed : m.call = c /\ m.op \in Claimed(k)
          OBVIOUS
        <5>1. err = "nil" /\ k.tool = call[c].tool
          BY <1>2, <4>2 DEF Call
        <5>2. call[c].tool = "stop" /\ r = "nil"
          BY <1>2, <3>1, <4>1, <5>1 DEF CallOK
        <5>3. \E m \in landed : m.call = c /\ m.op = "kill"
          BY <1>4, <3>1, <5>2 DEF r
        <5> QED BY <5>1, <5>2, <5>3 DEF Claimed
      <4> QED BY <4>2, <4>3, <4>4, <4>5
    <3> QED BY <3>2, <3>3
  <2>3. CASE FindReturns(c)
    <3>1. PICK saw \in PowerStates :
            /\ call[c].op = "find"
            /\ call' = [call EXCEPT ![c] =
                 [@ EXCEPT !.saw = saw, !.phase = "ready",
                           !.op = IF saw \in {"running", "paused"} THEN "kill"
                                  ELSE "delete"]]
      <4>1. Resolve(call[c].id) \in VMs \cup {NoVM}
        BY DEF Resolve
      <4> QED BY <2>3, <4>1 DEF FindReturns, PowerInv, TypeOK, PowerStates
    <3>2. /\ call' = [call EXCEPT ![c] = k]
          /\ k = [call[c] EXCEPT !.saw = saw, !.phase = "ready",
                    !.op = IF saw \in {"running", "paused"} THEN "kill" ELSE "delete"]
      BY <3>1 DEF PowerInv, TypeOK
    <3> HIDE DEF k
    <3>3. CallOK(k) /\ k.reply # "nil"
      BY <1>2, <3>1, <3>2 DEF CallOK, Call
    <3>4. \A m \in dispatcher \cup landed : RequestOK(m, call[c]) => RequestOK(m, k)
      BY <1>2, <3>1, <3>2 DEF RequestOK, Earned, Call
    <3> QED BY <3>2, <3>3, <3>4
  <2>4. CASE LastReturns(c)
    <3>1. PICK e \in Ends :
            /\ call[c].op \in {"start", "suspend", "resume", "delete", "rename"}
            /\ Ended(c, e)
            /\ Reply(c, RunErr(e, call[c].cancelled))
      BY <2>4 DEF LastReturns
    <3> DEFINE r == RunErr(e, call[c].cancelled)
    <3>2. /\ call' = [call EXCEPT ![c] = k]
          /\ k = [call[c] EXCEPT !.phase = "answered", !.reply = r]
      BY <3>1 DEF Reply, PowerInv, TypeOK
    <3>3. r \in Errors
      BY DEF RunErr, Errors
    <3>4. r = "nil" => \E m \in landed : m.call = c /\ m.op = call[c].op
      BY <1>4, <3>1
    <3> HIDE DEF k, r
    <3>5. CallOK(k)
      BY <1>2, <3>1, <3>2, <3>3 DEF CallOK, Call, Errors
    <3>6. \A m \in dispatcher \cup landed : RequestOK(m, call[c]) => RequestOK(m, k)
      BY <1>2, <3>2, <3>3 DEF RequestOK, Earned, Call, Errors
    <3>7. call[c].op \in Claimed(k) /\ (k.reply = "nil" => r = "nil")
      <4>1. k.tool = call[c].tool /\ k.reply = r
        BY <1>2, <3>2 DEF Call
      <4> QED BY <1>2, <3>1, <4>1 DEF Claimed, CallOK
    <3> QED BY <3>2, <3>4, <3>5, <3>6, <3>7
  <2> QED BY <2>1, <2>2, <2>3, <2>4 DEF Returns
<1> HIDE DEF k
<1> QED BY <1>2, <1>3, <1>6, OneCallStep

(* PowerInv holds initially and is preserved by every action. *)
LEMMA PowerInvInit == Init => PowerInv
<1> SUFFICES ASSUME Init PROVE PowerInv OBVIOUS
<1>1. TypeOK
  BY PowerTypeInit
<1>2. \A c \in Calls : CallOK(call[c]) /\ call[c].reply = "none"
  BY DEF Init, CallOK
<1>3. OkMeansDone
  BY <1>2 DEF OkMeansDone
<1> QED BY <1>1, <1>2, <1>3 DEF PowerInv, Init

LEMMA PowerInvStep == PowerInv /\ [Next]_vars => PowerInv'
<1> SUFFICES ASSUME PowerInv, [Next]_vars PROVE PowerInv' OBVIOUS
<1> TypeOK /\ TypeOK'
  BY PowerTypeStep DEF PowerInv
<1>1. ASSUME NEW c \in Calls, Invoke(c) PROVE PowerInv'
  <2>1. PICK t \in Tools, i \in Ids, f \in BOOLEAN, y \in BOOLEAN, n \in Names :
          Enter(c, t, i, f, y, n)
    BY <1>1 DEF Invoke
  <2> DEFINE k == call'[c]
  <2>2. k \in Call /\ call' = [call EXCEPT ![c] = k]
    BY <2>1 DEF Enter, TypeOK
  <2>3. k = IF t = "delete" /\ ~y
            THEN [Entered(t, i, f, y, n) EXCEPT !.phase = "answered",
                                                !.reply = "refused"]
            ELSE Entered(t, i, f, y, n)
    BY <2>1 DEF Enter, TypeOK
  <2>4. t \in AllTools
    BY PowerAssumption
  <2>5. CallOK(k) /\ k.reply # "nil"
    <3>1. CASE t = "delete" /\ ~y
      BY <2>3, <3>1 DEF CallOK, Entered, FirstOp
    <3>2. CASE ~(t = "delete" /\ ~y)
      <4>1. k = Entered(t, i, f, y, n)
        BY <2>3, <3>2
      <4>2. CASE t = "stop"
        BY <4>1, <4>2 DEF CallOK, Entered, FirstOp
      <4>3. CASE t = "delete"
        BY <3>2, <4>1, <4>3 DEF CallOK, Entered, FirstOp
      <4>4. CASE t \notin {"stop", "delete"}
        BY <2>4, <4>1, <4>4 DEF CallOK, Entered, FirstOp, AllTools
      <4> QED BY <4>2, <4>3, <4>4
    <3> QED BY <3>1, <3>2
  <2>6. \A m \in dispatcher \cup landed : m.call # c
    BY <2>1 DEF Enter, PowerInv, RequestOK
  <2>7. dispatcher' = dispatcher /\ landed' = landed
    BY <2>1 DEF Enter
  <2> HIDE DEF k
  <2> QED BY <2>2, <2>5, <2>6, <2>7, OneCallStep
<1>2. ASSUME NEW c \in Calls, Spawn(c) PROVE PowerInv'
  <2> DEFINE k == [call[c] EXCEPT !.phase = "running"]
             m == [call |-> c, op |-> call[c].op, vm |-> Resolve(call[c].id)]
  <2>1. /\ call[c] \in Call /\ call[c].phase = "ready" /\ CallOK(call[c])
        /\ call' = [call EXCEPT ![c] = k] /\ landed' = landed
        /\ k \in Call /\ call[c].cancelled = FALSE
    BY <1>2 DEF Spawn, PowerInv, TypeOK, Call
  <2>2. CallOK(k) /\ k.reply = "none"
    BY <2>1 DEF CallOK, Call
  <2>3. \A d \in Calls : call'[d] = IF d = c THEN k ELSE call[d]
    BY <2>1 DEF TypeOK
  <2>4. \A d \in Calls : CallOK(call'[d])
    BY <2>2, <2>3 DEF PowerInv
  <2>5. OkMeansDone'
    BY <2>1, <2>2, <2>3 DEF PowerInv, OkMeansDone
  <2>6. ASSUME NEW r \in dispatcher \cup landed PROVE RequestOK(r, call'[r.call])
    <3>1. r.call \in Calls /\ RequestOK(r, call[r.call])
      BY DEF PowerInv, TypeOK, Request
    <3>2. CASE r.call = c
      BY <2>1, <2>3, <3>1, <3>2 DEF RequestOK, Earned, Call
    <3> QED BY <2>3, <3>1, <3>2
  <2>7. ASSUME call[c].op # "find", Resolve(call[c].id) # NoVM
        PROVE  RequestOK(m, call'[m.call])
    <3>1. Earned(m, k)
      BY <2>1, <2>2 DEF Earned, CallOK, Call, Errors
    <3>2. call[c].id \in VMs => Resolve(call[c].id) = call[c].id
      BY <2>7, PowerAssumption DEF Resolve, TypeOK
    <3>3. k.op = call[c].op /\ k.id = call[c].id /\ k.phase = "running"
      BY <2>1 DEF Call
    <3> QED BY <2>2, <2>3, <3>1, <3>2, <3>3 DEF RequestOK
  <2>8. \A r \in dispatcher' \cup landed' :
          \/ r \in dispatcher \cup landed
          \/ r = m /\ call[c].op # "find" /\ Resolve(call[c].id) # NoVM
    BY <1>2 DEF Spawn
  <2>9. \A r \in dispatcher' \cup landed' : RequestOK(r, call'[r.call])
    BY <2>6, <2>7, <2>8
  <2> QED BY <2>4, <2>5, <2>9 DEF PowerInv
<1>3. ASSUME NEW m \in dispatcher, Perform(m) PROVE PowerInv'
  <2>1. call' = call /\ dispatcher' \cup landed' \subseteq dispatcher \cup landed
        /\ landed \subseteq landed'
    BY <1>3 DEF Perform, WithoutAcpi
  <2>2. OkMeansDone'
    BY <2>1 DEF PowerInv, OkMeansDone
  <2> QED BY <2>1, <2>2 DEF PowerInv
<1>4. ASSUME NEW c \in Calls, Cancel(c) PROVE PowerInv'
  <2> DEFINE k == [call[c] EXCEPT !.cancelled = TRUE]
  <2>1. /\ call[c] \in Call /\ CallOK(call[c]) /\ k \in Call
        /\ call' = [call EXCEPT ![c] = k]
        /\ dispatcher' = dispatcher /\ landed' = landed
        /\ call[c].phase \in {"ready", "running"}
    BY <1>4 DEF Cancel, PowerInv, TypeOK, Call
  <2>2. CallOK(k) /\ k.reply = "none"
    BY <2>1 DEF CallOK, Call
  <2>3. \A m \in dispatcher \cup landed : RequestOK(m, call[c]) => RequestOK(m, k)
    BY <2>1 DEF RequestOK, Earned, Call
  <2> HIDE DEF k
  <2> QED BY <2>1, <2>2, <2>3, OneCallStep
<1>5. ASSUME NEW c \in Calls, Returns(c) PROVE PowerInv'
  BY <1>5, ReturnsStep
<1>6. ASSUME NEW v \in VMs,
             OutsidePower(v) \/ OutsideRegister(v) \/ OutsideRename(v)
      PROVE  PowerInv'
  <2>1. call' = call /\ landed' = landed /\ dispatcher' \subseteq dispatcher
    BY <1>6 DEF OutsidePower, OutsideRegister, OutsideRename, WithoutAcpi
  <2>2. OkMeansDone'
    BY <2>1 DEF PowerInv, OkMeansDone
  <2> QED BY <2>1, <2>2 DEF PowerInv
<1>7. CASE ServerStops
  <2>1. /\ dispatcher' = dispatcher /\ landed' = landed
        /\ \A c \in Calls : call'[c] = call[c]
             \/ /\ call'[c] = [call[c] EXCEPT !.phase = "lost"]
                /\ call[c].phase \in {"ready", "running"}
    BY <1>7 DEF ServerStops
  <2>2. \A c \in Calls : CallOK(call'[c])
    <3> SUFFICES ASSUME NEW c \in Calls PROVE CallOK(call'[c]) OBVIOUS
    <3>1. call[c] \in Call /\ CallOK(call[c])
      BY DEF PowerInv, TypeOK
    <3>2. CASE call'[c] = call[c]
      BY <3>1, <3>2
    <3>3. CASE call'[c] = [call[c] EXCEPT !.phase = "lost"]
                 /\ call[c].phase \in {"ready", "running"}
      <4> DEFINE k == [call[c] EXCEPT !.phase = "lost"]
      <4>1. /\ k.tool = call[c].tool /\ k.op = call[c].op /\ k.err = call[c].err
            /\ k.saw = call[c].saw /\ k.force = call[c].force
            /\ k.confirm = call[c].confirm /\ k.cancelled = call[c].cancelled
            /\ k.reply = call[c].reply /\ k.phase = "lost"
        BY <3>1 DEF Call
      <4> HIDE DEF k
      <4>2. CallOK(k)
        BY <3>1, <3>3, <4>1 DEF CallOK
      <4> QED BY <3>3, <4>2 DEF k
    <3> QED BY <2>1, <3>2, <3>3
  <2>3. \A m \in dispatcher \cup landed : RequestOK(m, call'[m.call])
    <3> SUFFICES ASSUME NEW m \in dispatcher \cup landed
                 PROVE  RequestOK(m, call'[m.call])
      OBVIOUS
    <3>1. m.call \in Calls /\ RequestOK(m, call[m.call]) /\ call[m.call] \in Call
      BY DEF PowerInv, TypeOK, Request
    <3> QED BY <2>1, <3>1 DEF RequestOK, Earned, Call
  <2>4. OkMeansDone'
    <3> SUFFICES ASSUME NEW c \in Calls, call'[c].reply = "nil"
                 PROVE  \E m \in landed : m.call = c /\ m.op \in Claimed(call'[c])
      BY <2>1 DEF OkMeansDone
    <3>1. call[c] \in Call /\ CallOK(call[c])
      BY DEF PowerInv, TypeOK
    <3>2. call[c].reply = "nil" /\ call'[c].tool = call[c].tool
      BY <2>1, <3>1 DEF Call
    <3> QED BY <3>2 DEF PowerInv, OkMeansDone, Claimed
  <2> QED BY <2>1, <2>2, <2>3, <2>4 DEF PowerInv
<1>8. CASE UNCHANGED vars
  BY <1>8 DEF vars, PowerInv, OkMeansDone
<1> QED BY <1>1, <1>2, <1>3, <1>4, <1>5, <1>6, <1>7, <1>8 DEF Next

(* Whatever the interleaving of calls, cancellations, outside changes and  *)
(* the end of the server, the strengthened invariant holds.                *)
LEMMA PowerInvAlways == Spec => []PowerInv
BY PowerInvInit, PowerInvStep, PTL DEF Spec

(* A reply of success is backed by a performed command it speaks of.       *)
THEOREM PowerRepliesAreTrue == Spec => []OkMeansDone
<1>1. PowerInv => OkMeansDone
  BY DEF PowerInv
<1> QED BY <1>1, PowerInvAlways, PTL

(* No kill and no delete comes unearned.                                   *)
THEOREM PowerDestructionEarned == Spec => []DestructionIsEarned
<1>1. PowerInv => DestructionIsEarned
  BY DEF PowerInv, RequestOK, DestructionIsEarned
<1> QED BY <1>1, PowerInvAlways, PTL

(* A call addressed by UUID touches that VM alone.                         *)
THEOREM PowerUuidPins == Spec => []UuidPinsTarget
<1>1. PowerInv => UuidPinsTarget
  BY DEF PowerInv, RequestOK, UuidPinsTarget
<1> QED BY <1>1, PowerInvAlways, PTL

(* A cancelled call, or a stopped server, hands nothing more to Parallels. *)
THEOREM PowerCancelFinal == Spec => CancelledActsNoMore
<1>1. TypeOK /\ [Next]_vars =>
        [\A c \in Calls :
           call[c].cancelled \/ ~up =>
             {m \in dispatcher' \cup landed' : m.call = c}
               \subseteq dispatcher \cup landed]_vars
  <2> SUFFICES ASSUME TypeOK, Next, NEW c \in Calls, call[c].cancelled \/ ~up,
                      NEW m \in dispatcher' \cup landed', m.call = c
               PROVE  m \in dispatcher \cup landed
    OBVIOUS
  <2>1. ASSUME NEW d \in Calls, Spawn(d) PROVE m \in dispatcher \cup landed
    BY <2>1 DEF Spawn
  <2>2. ASSUME NEW r \in dispatcher, Perform(r) PROVE m \in dispatcher \cup landed
    BY <2>2 DEF Perform, WithoutAcpi
  <2>3. ASSUME NEW d \in Calls, Returns(d) PROVE m \in dispatcher \cup landed
    BY <2>3 DEF Returns, StopReturns, RestartReturns, KillReturns, FindReturns,
                LastReturns, Ended, Mine
  <2>4. ASSUME NEW d \in Calls, Invoke(d) \/ Cancel(d) PROVE m \in dispatcher \cup landed
    BY <2>4 DEF Invoke, Enter, Cancel
  <2>5. ASSUME NEW v \in VMs,
               OutsidePower(v) \/ OutsideRegister(v) \/ OutsideRename(v)
        PROVE  m \in dispatcher \cup landed
    BY <2>5 DEF OutsidePower, OutsideRegister, OutsideRename, WithoutAcpi
  <2>6. CASE ServerStops
    BY <2>6 DEF ServerStops
  <2> QED BY <2>1, <2>2, <2>3, <2>4, <2>5, <2>6 DEF Next
<1> QED BY <1>1, PowerTypeCorrect, PTL DEF Spec, CancelledActsNoMore

-----------------------------------------------------------------------------
(***************************************************************************)
(* That a call comes to its end: how many prlctl processes it can still    *)
(* need, and from that how many of its own steps are ahead at most.        *)
(***************************************************************************)
Processes(op) ==
  CASE op \in {"find", "stop", "restart"} -> 3
    [] op = "kill" -> 2
    [] OTHER -> 1

StepsLeft(k) ==
  CASE k.phase = "ready" -> 2 * Processes(k.op)
    [] k.phase = "running" -> 2 * Processes(k.op) - 1
    [] OTHER -> 0

LEMMA ProcessesFacts ==
  ASSUME NEW op
  PROVE  /\ op \in {"find", "stop", "restart"} => Processes(op) = 3
         /\ op = "kill" => Processes(op) = 2
         /\ op \in {"start", "suspend", "resume", "delete", "rename"} => Processes(op) = 1
         /\ Processes(op) \in 1..3
  BY DEF Processes

LEMMA StepsLeftFacts ==
  ASSUME NEW k
  PROVE  /\ k.phase = "ready" => StepsLeft(k) = 2 * Processes(k.op)
         /\ k.phase = "running" => StepsLeft(k) = 2 * Processes(k.op) - 1
         /\ k.phase \in {"idle", "answered", "lost"} => StepsLeft(k) = 0
         /\ StepsLeft(k) \in 0..6
  BY ProcessesFacts DEF StepsLeft

(* Every command a call goes on with is nearer to its end. *)
LEMMA OwnStepLowers ==
  ASSUME TypeOK, NEW c \in Calls, Spawn(c) \/ Returns(c)
  PROVE  StepsLeft(call'[c]) < StepsLeft(call[c])
<1> DEFINE k == call[c]
<1>0. k \in Call
  BY DEF TypeOK
<1>1. CASE Spawn(c)
  <2>1. call'[c] = [k EXCEPT !.phase = "running"] /\ k.phase = "ready"
    BY <1>1 DEF Spawn, TypeOK
  <2>2. call'[c].phase = "running" /\ call'[c].op = k.op
    BY <1>0, <2>1 DEF Call
  <2>3. StepsLeft(call'[c]) = 2 * Processes(k.op) - 1 /\ StepsLeft(k) = 2 * Processes(k.op)
    BY <2>1, <2>2, StepsLeftFacts
  <2> QED BY <2>3, ProcessesFacts
<1>2. CASE Returns(c)
  <2>1. k.phase \in {"ready", "running"}
    BY <1>2 DEF Returns, StopReturns, RestartReturns, KillReturns, FindReturns,
                LastReturns, Ended, MayEnd, Ends
  <2>2. StepsLeft(k) \in {2 * Processes(k.op), 2 * Processes(k.op) - 1}
    BY <2>1, StepsLeftFacts
  <2>3. ASSUME NEW err, Reply(c, err) PROVE StepsLeft(call'[c]) < StepsLeft(k)
    <3>1. call'[c].phase = "answered"
      BY <1>0, <2>3 DEF Reply, Call, TypeOK
    <3>2. StepsLeft(call'[c]) = 0
      BY <3>1, StepsLeftFacts
    <3> QED BY <2>2, <3>2, ProcessesFacts
  <2>4. ASSUME NEW op, Processes(op) < Processes(k.op),
               call'[c].op = op, call'[c].phase = "ready"
        PROVE  StepsLeft(call'[c]) < StepsLeft(k)
    <3>1. StepsLeft(call'[c]) = 2 * Processes(op)
      BY <2>4, StepsLeftFacts
    <3> QED BY <2>2, <2>4, <3>1, ProcessesFacts
  <2>5. ASSUME NEW op, NEW err, GoOn(c, op, err), Processes(op) < Processes(k.op)
        PROVE  StepsLeft(call'[c]) < StepsLeft(k)
    <3>1. call'[c].op = op /\ call'[c].phase = "ready"
      BY <1>0, <2>5 DEF GoOn, Call, TypeOK
    <3> QED BY <2>4, <2>5, <3>1
  <2>6. CASE StopReturns(c) \/ RestartReturns(c)
    <3>1. k.op \in {"stop", "restart"}
      BY <2>6 DEF StopReturns, RestartReturns
    <3>2. Processes("kill") < Processes(k.op)
      BY <3>1, ProcessesFacts
    <3> QED BY <2>3, <2>5, <2>6, <3>2 DEF StopReturns, RestartReturns
  <2>7. CASE KillReturns(c)
    <3>1. k.op = "kill"
      BY <2>7 DEF KillReturns
    <3>2. Processes("start") < Processes(k.op) /\ Processes("delete") < Processes(k.op)
      BY <3>1, ProcessesFacts
    <3>3. \/ \E err : Reply(c, err)
          \/ \E err : GoOn(c, "start", err) \/ GoOn(c, "delete", err)
      BY <2>7 DEF KillReturns
    <3> QED BY <2>3, <2>5, <3>2, <3>3
  <2>8. CASE FindReturns(c)
    <3>1. k.op = "find"
      BY <2>8 DEF FindReturns
    <3>2. Processes("kill") < Processes(k.op) /\ Processes("delete") < Processes(k.op)
      BY <3>1, ProcessesFacts
    <3>3. PICK saw :
            call' = [call EXCEPT ![c] =
                       [@ EXCEPT !.saw = saw, !.phase = "ready",
                                 !.op = IF saw \in {"running", "paused"}
                                        THEN "kill" ELSE "delete"]]
      BY <2>8 DEF FindReturns
    <3>4. call'[c].phase = "ready" /\ call'[c].op \in {"kill", "delete"}
      BY <1>0, <3>3 DEF Call, TypeOK
    <3> QED BY <2>4, <3>2, <3>4
  <2>9. CASE LastReturns(c)
    BY <2>3, <2>9 DEF LastReturns
  <2> QED BY <1>2, <2>6, <2>7, <2>8, <2>9 DEF Returns
<1> QED BY <1>1, <1>2

(* Nobody else gives a call more to do. *)
LEMMA OthersLowerNothing ==
  ASSUME TypeOK, [Next]_vars, NEW c \in Calls, call[c].phase \in {"ready", "running"},
         ~(Spawn(c) \/ Returns(c))
  PROVE  StepsLeft(call'[c]) <= StepsLeft(call[c])
<1> DEFINE k == call[c]
<1>0. k \in Call /\ StepsLeft(k) \in 0..6
  BY StepsLeftFacts DEF TypeOK
<1>1. CASE call'[c] = k
  BY <1>0, <1>1
<1>2. ASSUME NEW d \in Calls, Invoke(d) \/ Spawn(d) \/ Returns(d) \/ Cancel(d), d # c
      PROVE  call'[c] = k
  BY <1>2 DEF Invoke, Enter, Spawn, Returns, StopReturns, RestartReturns, KillReturns,
              FindReturns, LastReturns, GoOn, Reply, Cancel, TypeOK
<1>3. ~Invoke(c)
  BY DEF Invoke, Enter
<1>4. CASE Cancel(c)
  <2>1. call'[c] = [k EXCEPT !.cancelled = TRUE]
    BY <1>4 DEF Cancel, TypeOK
  <2>2. call'[c].phase = k.phase /\ call'[c].op = k.op
    BY <1>0, <2>1 DEF Call
  <2>3. StepsLeft(call'[c]) = StepsLeft(k)
    BY <2>2 DEF StepsLeft
  <2> QED BY <1>0, <2>3
<1>5. CASE ServerStops
  <2>1. call'[c] = [k EXCEPT !.phase = "lost"]
    BY <1>5 DEF ServerStops
  <2>2. call'[c].phase = "lost"
    BY <1>0, <2>1 DEF Call
  <2>3. StepsLeft(call'[c]) = 0
    BY <2>2, StepsLeftFacts
  <2> QED BY <1>0, <2>3
<1>6. ASSUME NEW m \in dispatcher, Perform(m) PROVE call'[c] = k
  BY <1>6 DEF Perform
<1>7. ASSUME NEW v \in VMs, OutsidePower(v) \/ OutsideRegister(v) \/ OutsideRename(v)
      PROVE  call'[c] = k
  BY <1>7 DEF OutsidePower, OutsideRegister, OutsideRename
<1>8. CASE UNCHANGED vars
  BY <1>1, <1>8 DEF vars
<1> QED BY <1>1, <1>2, <1>3, <1>4, <1>5, <1>6, <1>7, <1>8 DEF Next

(***************************************************************************)
(* No fallback loops: a call needs at most three prlctl processes, each of *)
(* its steps brings it nearer to its end and nothing else takes it further *)
(* away, whatever fails, is cancelled or changes outside.  That a next     *)
(* step is possible, and taken, is left to EveryCallIsAnswered.            *)
(***************************************************************************)
THEOREM PowerRunsDown ==
  Spec => /\ [](\A c \in Calls : StepsLeft(call[c]) \in 0..6)
          /\ [][\A c \in Calls :
                  /\ Spawn(c) \/ Returns(c) => StepsLeft(call'[c]) < StepsLeft(call[c])
                  /\ call[c].phase \in {"ready", "running"} =>
                       StepsLeft(call'[c]) <= StepsLeft(call[c])]_vars
<1>1. TypeOK => \A c \in Calls : StepsLeft(call[c]) \in 0..6
  BY StepsLeftFacts
<1>2. ASSUME TypeOK, [Next]_vars, NEW c \in Calls
      PROVE  /\ Spawn(c) \/ Returns(c) => StepsLeft(call'[c]) < StepsLeft(call[c])
             /\ call[c].phase \in {"ready", "running"} =>
                  StepsLeft(call'[c]) <= StepsLeft(call[c])
  <2>1. StepsLeft(call[c]) \in 0..6 /\ StepsLeft(call'[c]) \in 0..6
    BY StepsLeftFacts
  <2> QED BY <1>2, <2>1, OwnStepLowers, OthersLowerNothing
<1>3. TypeOK /\ [Next]_vars =>
        [\A c \in Calls :
           /\ Spawn(c) \/ Returns(c) => StepsLeft(call'[c]) < StepsLeft(call[c])
           /\ call[c].phase \in {"ready", "running"} =>
                StepsLeft(call'[c]) <= StepsLeft(call[c])]_vars
  BY <1>2
<1> QED BY <1>1, <1>3, PowerTypeCorrect, PTL DEF Spec
=============================================================================
