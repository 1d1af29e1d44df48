------------------------- MODULE PowerServiceProofs -------------------------
(***************************************************************************)
(* The lifecycle calls implement PowerService: whatever happens between    *)
(* the processes of a call, what its client sees is a call that takes      *)
(* effect in commands performed at most once each.                         *)
(***************************************************************************)
EXTENDS PowerControlProofs

(***************************************************************************)
(* The argument.  The commands of a call come in an order, and a command   *)
(* is not repeated, so a request that is performed was not performed       *)
(* before.  And a request that outlived its process never outlives a later *)
(* success: a kill that was performed discarded the graceful requests of   *)
(* the VM, a kill that was not performed is gone unless the context was    *)
(* cancelled, and then no later process runs.                              *)
(***************************************************************************)
Rank(op) == CASE op \in {"stop", "restart", "find"} -> 0
              [] op = "kill" -> 1
              [] OTHER -> 2

Of(c, S) == {m \in S : m.call = c}

(* What a call has handed over so far. *)
HandedOK(c) ==
  \A m \in Of(c, dispatcher \cup landed) :
    /\ m.op \in Service!Commands(call[c].tool)
    /\ Rank(m.op) <= Rank(call[c].op)
    /\ Rank(m.op) = Rank(call[c].op) => m.op = call[c].op /\ call[c].phase # "ready"

Killed(c) == \E m \in landed : m.call = c /\ m.op = "kill"

(* What of it Parallels may still hold. *)
LeftOK(c) ==
  LET k == call[c]
  IN  /\ k.tool = "restart" /\ k.op = "start" => Killed(c)
      /\ k.id \in VMs /\ Killed(c) => \A m \in Of(c, dispatcher) : m.op \notin Graceful
      /\ k.op = "delete" /\ (k.phase = "running" \/ ~k.cancelled) =>
           \A m \in Of(c, dispatcher) : m.op # "kill"
      /\ k.id \in VMs /\ k.reply = "nil" => Of(c, dispatcher) = {}

OnceOK ==
  /\ dispatcher \cap landed = {}
  /\ \A m, l \in dispatcher \cup landed : m.call = l.call /\ m.op = l.op => m = l

ServiceInv ==
  /\ OnceOK
  /\ \A c \in Calls : HandedOK(c) /\ LeftOK(c)

LEMMA ServiceInvInit == Init => ServiceInv
BY DEF Init, ServiceInv, OnceOK, HandedOK, LeftOK, Of, Killed

(* Fewer requests and the same call: nothing is lost.                      *)
LEMMA ServiceOthers ==
  ASSUME NEW d \in Calls, HandedOK(d), LeftOK(d), call'[d] = call[d],
         Of(d, dispatcher') \subseteq Of(d, dispatcher), Of(d, landed') = Of(d, landed)
  PROVE  HandedOK(d)' /\ LeftOK(d)'
<1>1. HandedOK(d)'
  BY DEF HandedOK, Of
<1>2. Killed(d)' <=> Killed(d)
  BY DEF Killed, Of
<1>3. LeftOK(d)'
  BY <1>2 DEF LeftOK, Of
<1> QED BY <1>1, <1>3

(* Fewer requests stay unique.                                             *)
LEMMA ServiceOnce ==
  ASSUME OnceOK, dispatcher' \subseteq dispatcher, landed' = landed
  PROVE  OnceOK'
BY DEF OnceOK

(* A process ends.                                                         *)
LEMMA ServiceReturns ==
  ASSUME PowerInv, TypeOK', ServiceInv, NEW c \in Calls, Returns(c)
  PROVE  ServiceInv'
<1> DEFINE k == call[c]
           j == call'[c]
<1>1. /\ TypeOK /\ k \in Call /\ j \in Call /\ CallOK(k) /\ HandedOK(c) /\ LeftOK(c) /\ OnceOK
      /\ \A m \in dispatcher \cup landed : RequestOK(m, call[m.call])
  BY DEF PowerInv, TypeOK, ServiceInv
<1>2. /\ landed' = landed /\ k.phase \in {"ready", "running"} /\ k.reply = "none"
      /\ \A d \in Calls \ {c} : call'[d] = call[d]
  <2>1. landed' = landed
    BY DEF Returns, StopReturns, RestartReturns, KillReturns, FindReturns, LastReturns
  <2>2. \A d \in Calls \ {c} : call'[d] = call[d]
    BY <1>1 DEF Returns, StopReturns, RestartReturns, KillReturns, FindReturns, LastReturns,
                GoOn, Reply, TypeOK
  <2>3. k.phase \in {"ready", "running"}
    BY DEF Returns, StopReturns, RestartReturns, KillReturns, FindReturns, LastReturns,
           Ended, MayEnd
  <2> QED BY <1>1, <2>1, <2>2, <2>3 DEF CallOK
<1>3. PICK end \in Ends :
        /\ Ended(c, end)
        /\ \/ \E op \in Ops :
                /\ /\ j.op = op /\ j.phase = "ready" /\ j.reply = k.reply
                   /\ j.tool = k.tool /\ j.id = k.id /\ j.cancelled = k.cancelled
                /\ Rank(k.op) < Rank(op)
                /\ op = "start" => k.op = "kill" /\ end = "exit0"
                /\ op = "delete" => k.op \in {"kill", "find"}
           \/ /\ /\ j.op = k.op /\ j.phase = "answered"
                 /\ j.tool = k.tool /\ j.id = k.id /\ j.cancelled = k.cancelled
              /\ k.op # "find"
              /\ j.reply = "nil" => end = "exit0"
  <2>1. ASSUME NEW op \in Ops, NEW err, GoOn(c, op, err)
        PROVE  /\ j.op = op /\ j.phase = "ready" /\ j.reply = k.reply
               /\ j.tool = k.tool /\ j.id = k.id /\ j.cancelled = k.cancelled
    <3>1. j = [k EXCEPT !.op = op, !.err = err, !.phase = "ready"]
      BY <1>1, <2>1 DEF GoOn, TypeOK
    <3> QED BY <1>1, <3>1 DEF Call
  <2>2. ASSUME NEW err, Reply(c, err)
        PROVE  /\ j.op = k.op /\ j.phase = "answered" /\ j.reply = err
               /\ j.tool = k.tool /\ j.id = k.id /\ j.cancelled = k.cancelled
    <3>1. j = [k EXCEPT !.phase = "answered", !.reply = err]
      BY <1>1, <2>2 DEF Reply, TypeOK
    <3> QED BY <1>1, <3>1 DEF Call
  <2>3. \A end \in Ends : RunErr(end, k.cancelled) = "nil" <=> end = "exit0"
    BY DEF RunErr
  <2>4. {"kill", "start", "delete"} \subseteq Ops
    BY DEF Ops
  <2> HIDE DEF j
  <2>5. CASE StopReturns(c) \/ RestartReturns(c)
    <3>1. PICK end \in Ends :
            /\ k.op \in {"stop", "restart"} /\ Ended(c, end)
            /\ IF end = "exit0" THEN Reply(c, "nil")
               ELSE GoOn(c, "kill", RunErr(end, k.cancelled))
      BY <2>3, <2>5 DEF StopReturns, RestartReturns
    <3>2. Rank(k.op) < Rank("kill")
      BY <3>1 DEF Rank
    <3> QED BY <2>1, <2>2, <2>4, <3>1, <3>2
  <2>6. CASE KillReturns(c)
    <3>1. PICK end \in Ends :
            /\ k.op = "kill" /\ Ended(c, end)
            /\ \/ end = "exit0" /\ GoOn(c, "start", k.err)
               \/ GoOn(c, "delete", k.err)
               \/ k.tool = "restart" /\ Reply(c, k.err)
               \/ Reply(c, RunErr(end, k.cancelled))
      BY <2>3, <2>6 DEF KillReturns
    <3>2. Rank(k.op) < Rank("start") /\ Rank(k.op) < Rank("delete")
      BY <3>1 DEF Rank
    <3>3. k.tool = "restart" => k.err # "nil"
      BY <1>1, <3>1 DEF CallOK
    <3> QED BY <2>1, <2>2, <2>3, <2>4, <3>1, <3>2, <3>3
  <2>7. CASE FindReturns(c)
    <3>1. PICK end \in Ends, saw \in PowerStates :
            /\ k.op = "find" /\ Ended(c, end)
            /\ call' = [call EXCEPT ![c] =
                 [@ EXCEPT !.saw = saw, !.phase = "ready",
                           !.op = IF saw \in {"running", "paused"} THEN "kill"
                                  ELSE "delete"]]
      <4>1. Resolve(call[c].id) \in VMs \cup {NoVM}
        BY DEF Resolve
      <4> QED BY <1>1, <2>7, <4>1 DEF FindReturns, TypeOK, PowerStates
    <3>2. j = [k EXCEPT !.saw = saw, !.phase = "ready",
                        !.op = IF saw \in {"running", "paused"} THEN "kill" ELSE "delete"]
      BY <1>1, <3>1 DEF TypeOK, j
    <3>3. /\ j.op \in {"kill", "delete"} /\ j.phase = "ready" /\ j.reply = k.reply
          /\ j.tool = k.tool /\ j.id = k.id /\ j.cancelled = k.cancelled
      BY <1>1, <3>2 DEF Call
    <3>4. Rank(k.op) < Rank("kill") /\ Rank(k.op) < Rank("delete")
      BY <3>1 DEF Rank
    <3> QED BY <2>4, <3>1, <3>3, <3>4
  <2>8. CASE LastReturns(c)
    BY <2>2, <2>3, <2>8 DEF LastReturns
  <2> QED BY <2>5, <2>6, <2>7, <2>8 DEF Returns
<1>4. /\ dispatcher' \subseteq dispatcher
      /\ end = "failed" /\ k.op \notin Graceful => dispatcher' = dispatcher \ Mine(c)
      /\ end = "exit0" /\ k.op # "find" =>
           k.phase = "running" /\ \E l \in landed : l.call = c /\ l.op = k.op
      /\ end = "notStarted" => k.phase = "ready"
      /\ end = "killed" => k.cancelled
      /\ end # "notExecuted"
  BY <1>3 DEF Ended, MayEnd, Landed, Mine, Ends
<1>5. \A m \in dispatcher, l \in landed : ~(m.call = l.call /\ m.op = l.op)
  BY <1>1 DEF OnceOK
<1>6. \A op : Rank(op) \in {0, 1, 2}
  BY DEF Rank
<1>7. Killed(c)' <=> Killed(c)
  BY <1>2 DEF Killed
<1> HIDE DEF j
<1>8. OnceOK'
  BY <1>1, <1>2, <1>4, ServiceOnce
<1>9. ASSUME NEW d \in Calls \ {c} PROVE HandedOK(d)' /\ LeftOK(d)'
  BY <1>2, <1>4, <1>9, ServiceOthers DEF ServiceInv, Of
<1>10. CASE j.phase = "ready"
  <2>1. /\ /\ j.reply = "none" /\ j.tool = k.tool /\ j.id = k.id /\ j.cancelled = k.cancelled
        /\ Rank(k.op) < Rank(j.op)
        /\ j.op = "start" => k.op = "kill" /\ end = "exit0"
        /\ j.op = "delete" => k.op \in {"kill", "find"}
    BY <1>2, <1>3, <1>10
  <2>2. HandedOK(c)'
    <3>1. ASSUME NEW m \in Of(c, dispatcher \cup landed)
          PROVE  m.op \in Service!Commands(j.tool) /\ Rank(m.op) < Rank(j.op)
      <4>1. m.op \in Service!Commands(k.tool) /\ Rank(m.op) <= Rank(k.op)
        BY <1>1, <3>1 DEF HandedOK
      <4> QED BY <1>6, <2>1, <4>1
    <3>2. Of(c, dispatcher \cup landed)' \subseteq Of(c, dispatcher \cup landed)
      BY <1>2, <1>4 DEF Of
    <3> QED BY <1>6, <3>1, <3>2 DEF HandedOK, j
  <2>3. j.tool = "restart" /\ j.op = "start" => Killed(c)
    BY <1>4, <2>1 DEF Killed
  <2>4. j.op = "delete" /\ ~j.cancelled => \A m \in Of(c, dispatcher') : m.op # "kill"
    <3> SUFFICES ASSUME j.op = "delete", ~j.cancelled,
                        NEW m \in dispatcher', m.call = c, m.op = "kill"
                 PROVE  FALSE
      BY DEF Of
    <3>1. m \in dispatcher /\ m \in Of(c, dispatcher \cup landed)
      BY <1>4 DEF Of
    <3>2. Rank("kill") <= Rank(k.op) /\ (Rank("kill") = Rank(k.op) => k.phase # "ready")
      BY <1>1, <3>1 DEF HandedOK
    <3>3. k.op = "kill"
      BY <2>1, <3>2 DEF Rank
    <3>4. k.phase # "ready"
      BY <3>2, <3>3
    <3>5. end \in {"exit0", "failed"}
      BY <1>4, <2>1, <3>4 DEF Ends
    <3>6. m \notin Mine(c) => end = "exit0"
      BY <3>1, <3>3 DEF Mine
    <3>7. end # "exit0"
      BY <1>4, <1>5, <3>1, <3>3
    <3> QED BY <1>4, <3>3, <3>5, <3>6, <3>7 DEF Graceful
  <2>5. j.id \in VMs /\ Killed(c) => \A m \in Of(c, dispatcher') : m.op \notin Graceful
    BY <1>1, <1>4, <2>1 DEF LeftOK, Of
  <2>6. LeftOK(c)'
    BY <1>7, <1>10, <2>1, <2>3, <2>4, <2>5 DEF LeftOK, Of, j
  <2> QED BY <1>8, <1>9, <2>2, <2>6 DEF ServiceInv
<1>11. CASE j.phase # "ready"
  <2>1. /\ j.op = k.op /\ j.phase = "answered" /\ j.tool = k.tool /\ j.id = k.id
        /\ j.cancelled = k.cancelled /\ k.op # "find"
        /\ j.reply = "nil" => end = "exit0"
    BY <1>3, <1>11
  <2>2. Of(c, dispatcher') \subseteq Of(c, dispatcher)
    BY <1>4 DEF Of
  <2>3. HandedOK(c)'
    BY <1>1, <1>2, <1>4, <2>1 DEF HandedOK, Of, j
  <2>4. j.id \in VMs /\ j.reply = "nil" => Of(c, dispatcher') = {}
    <3> SUFFICES ASSUME k.id \in VMs, end = "exit0", NEW m \in dispatcher, m.call = c
                 PROVE  FALSE
      BY <2>1, <2>2 DEF Of
    <3>1. PICK l \in landed : l.call = c /\ l.op = k.op
      BY <1>4, <2>1
    <3>2. m.op # k.op
      BY <1>5, <3>1
    <3>3. /\ m.op \in Service!Commands(k.tool) /\ Rank(m.op) <= Rank(k.op)
          /\ Rank(m.op) # Rank(k.op)
      BY <1>1, <3>2 DEF HandedOK, Of
    <3>4. Killed(c) => m.op \notin Graceful /\ m.op # "kill"
      BY <1>1, <1>5 DEF LeftOK, Of, Killed
    <3>5. k.op \notin {"stop", "restart", "find"}
      BY <3>3 DEF Rank
    <3>6. CASE k.op = "kill"
      <4>1. m.op \in {"stop", "restart", "find"}
        BY <3>3, <3>6 DEF Rank
      <4>2. k.tool \in {"stop", "restart", "delete"}
        BY <1>1, <1>2, <3>6 DEF CallOK
      <4>3. Killed(c)
        BY <3>1, <3>6 DEF Killed
      <4> QED BY <3>3, <3>4, <4>1, <4>2, <4>3 DEF Service!Commands, Graceful
    <3>7. CASE k.op = "start"
      <4>1. k.tool \in {"start", "restart"}
        BY <1>1, <1>2, <3>7 DEF CallOK
      <4>2. CASE k.tool = "start"
        BY <3>2, <3>3, <3>7, <4>2 DEF Service!Commands
      <4>3. CASE k.tool = "restart"
        <5>1. Killed(c)
          BY <1>1, <3>7, <4>3 DEF LeftOK
        <5> QED BY <3>2, <3>3, <3>4, <3>7, <4>3, <5>1 DEF Service!Commands, Graceful
      <4> QED BY <4>1, <4>2, <4>3
    <3>8. CASE k.op = "delete"
      <4>1. k.tool = "delete"
        BY <1>1, <1>2, <3>8 DEF CallOK
      <4>2. m.op # "kill"
        BY <1>1, <1>4, <3>8 DEF LeftOK, Of
      <4> QED BY <3>2, <3>3, <3>8, <4>1, <4>2 DEF Service!Commands
    <3>9. CASE k.op \in {"suspend", "resume"}
      <4>1. k.tool = k.op
        BY <1>1, <1>2, <3>9 DEF CallOK
      <4> QED BY <3>2, <3>3, <3>9, <4>1 DEF Service!Commands
    <3>10. CASE k.op = "rename"
      <4>1. k.tool = "configure"
        BY <1>1, <1>2, <3>10 DEF CallOK
      <4> QED BY <3>2, <3>3, <3>10, <4>1 DEF Service!Commands
    <3> QED BY <1>1, <3>5, <3>6, <3>7, <3>8, <3>9, <3>10 DEF Call, Ops
  <2>5. LeftOK(c)'
    <3>1. j.tool = "restart" /\ j.op = "start" => Killed(c)
      BY <1>1, <2>1 DEF LeftOK
    <3>2. j.id \in VMs /\ Killed(c) => \A m \in Of(c, dispatcher') : m.op \notin Graceful
      BY <1>1, <2>1, <2>2 DEF LeftOK
    <3>3. j.op = "delete" /\ ~j.cancelled => \A m \in Of(c, dispatcher') : m.op # "kill"
      BY <1>1, <2>1, <2>2 DEF LeftOK
    <3> QED BY <1>7, <2>1, <2>4, <3>1, <3>2, <3>3 DEF LeftOK, Of, j
  <2> QED BY <1>8, <1>9, <2>3, <2>5 DEF ServiceInv
<1> QED BY <1>10, <1>11

(* A request is handed over.                                               *)
LEMMA ServiceSpawn ==
  ASSUME PowerInv, ServiceInv, NEW c \in Calls, Spawn(c)
  PROVE  ServiceInv'
<1> DEFINE k == call[c]
           j == call'[c]
           r == [call |-> c, op |-> k.op, vm |-> Resolve(k.id)]
<1>1. /\ TypeOK /\ k \in Call /\ CallOK(k) /\ HandedOK(c) /\ LeftOK(c) /\ OnceOK
  BY DEF PowerInv, TypeOK, ServiceInv
<1>2. /\ k.phase = "ready" /\ ~k.cancelled /\ landed' = landed
      /\ dispatcher' = dispatcher \/ (k.op # "find" /\ dispatcher' = dispatcher \cup {r})
      /\ j = [k EXCEPT !.phase = "running"] /\ \A d \in Calls \ {c} : call'[d] = call[d]
  BY <1>1 DEF Spawn, TypeOK
<1>3. /\ j.phase = "running" /\ j.op = k.op /\ j.tool = k.tool /\ j.id = k.id
      /\ j.reply = k.reply /\ j.cancelled = k.cancelled /\ k.reply = "none"
  BY <1>1, <1>2 DEF Call, CallOK
<1>4. \A m \in Of(c, dispatcher \cup landed) : m.op # k.op /\ Rank(m.op) < Rank(k.op)
  BY <1>1, <1>2 DEF HandedOK, Rank
<1>5. \A m \in dispatcher' : m \in dispatcher \/ (m = r /\ k.op # "find")
  BY <1>2
<1>6. r.call = c /\ r.op = k.op
  OBVIOUS
<1> HIDE DEF r, j
<1>7. OnceOK'
  <2>1. \A m \in dispatcher \cup landed : ~(m.call = r.call /\ m.op = r.op)
    BY <1>4, <1>6 DEF Of
  <2> QED BY <1>1, <1>2, <2>1 DEF OnceOK
<1>8. k.op # "find" => k.op \in Service!Commands(k.tool)
  BY <1>1, <1>2 DEF CallOK, Call, Ops, Service!Commands
<1>9. HandedOK(c)'
  <2>1. ASSUME NEW m \in Of(c, dispatcher \cup landed)
        PROVE  m.op \in Service!Commands(j.tool) /\ Rank(m.op) < Rank(j.op)
    BY <1>1, <1>3, <1>4 DEF HandedOK
  <2>2. \A op : Rank(op) \in {0, 1, 2}
    BY DEF Rank
  <2>3. ASSUME NEW m \in Of(c, dispatcher' \cup landed')
        PROVE  /\ m.op \in Service!Commands(j.tool) /\ Rank(m.op) <= Rank(j.op)
               /\ Rank(m.op) = Rank(j.op) => m.op = j.op
    <3>1. CASE m \in Of(c, dispatcher \cup landed)
      BY <2>1, <2>2, <3>1
    <3>2. CASE m = r /\ k.op # "find"
      BY <1>3, <1>6, <1>8, <2>2, <3>2
    <3> QED BY <1>2, <1>5, <2>3, <3>1, <3>2 DEF Of
  <2> QED BY <1>3, <2>3 DEF HandedOK, j, Of
<1>10. Killed(c)' <=> Killed(c)
  BY <1>2 DEF Killed
<1>11. LeftOK(c)'
  <2>1. Killed(c) => Rank(k.op) = 2
    BY <1>4 DEF Killed, Of, Rank
  <2>2. Rank(k.op) = 2 => k.op \notin Graceful /\ k.op # "kill"
    BY DEF Rank, Graceful
  <2>3. j.id \in VMs /\ Killed(c) => \A m \in Of(c, dispatcher') : m.op \notin Graceful
    BY <1>1, <1>3, <1>5, <1>6, <2>1, <2>2 DEF LeftOK, Of
  <2>4. j.op = "delete" => \A m \in Of(c, dispatcher') : m.op # "kill"
    BY <1>1, <1>2, <1>3, <1>5, <1>6 DEF LeftOK, Of
  <2>5. j.tool = "restart" /\ j.op = "start" => Killed(c)
    BY <1>1, <1>3 DEF LeftOK
  <2> QED BY <1>3, <1>10, <2>3, <2>4, <2>5 DEF LeftOK, Of, j
<1>12. ASSUME NEW d \in Calls \ {c} PROVE HandedOK(d)' /\ LeftOK(d)'
  <2>1. Of(d, dispatcher') \subseteq Of(d, dispatcher)
    BY <1>5, <1>6, <1>12 DEF Of
  <2> QED BY <1>2, <1>12, <2>1, ServiceOthers DEF ServiceInv, Of
<1> QED BY <1>7, <1>9, <1>11, <1>12 DEF ServiceInv

(* A request is performed: it is not left, and a kill leaves no graceful   *)
(* one of its VM.                                                          *)
LEMMA ServicePerform ==
  ASSUME PowerInv, ServiceInv, NEW m \in dispatcher, Perform(m)
  PROVE  ServiceInv'
<1>1. /\ OnceOK /\ m.call \in Calls /\ call' = call /\ landed' = landed \cup {m}
      /\ dispatcher' \subseteq dispatcher \ {m}
      /\ m.op # "rename" => \A l \in dispatcher' : ~(l.vm = m.vm /\ l.op \in Graceful)
      /\ \A l \in dispatcher \cup landed : RequestOK(l, call[l.call])
  BY DEF ServiceInv, PowerInv, TypeOK, Request, Perform, WithoutAcpi
<1>2. OnceOK'
  BY <1>1 DEF OnceOK
<1>3. ASSUME NEW c \in Calls PROVE HandedOK(c)' /\ LeftOK(c)'
  <2>1. HandedOK(c) /\ LeftOK(c)
    BY DEF ServiceInv
  <2>2. HandedOK(c)'
    BY <1>1, <2>1 DEF HandedOK, Of
  <2>3. Killed(c) => Killed(c)'
    BY <1>1 DEF Killed
  <2>4. Of(c, dispatcher') \subseteq Of(c, dispatcher)
    BY <1>1 DEF Of
  <2>5. call[c].id \in VMs /\ Killed(c)' => \A l \in Of(c, dispatcher') : l.op \notin Graceful
    <3>1. CASE Killed(c)
      BY <2>1, <2>4, <3>1 DEF LeftOK
    <3>2. CASE ~Killed(c)
      <4> SUFFICES ASSUME call[c].id \in VMs, Killed(c)', NEW l \in dispatcher', l.call = c
                   PROVE  l.op \notin Graceful
        BY DEF Of
      <4>1. m.call = c /\ m.op = "kill"
        BY <1>1, <3>2 DEF Killed
      <4>2. m.vm = call[c].id /\ l.vm = call[c].id
        BY <1>1, <4>1 DEF RequestOK
      <4> QED BY <1>1, <4>1, <4>2
    <3> QED BY <3>1, <3>2
  <2>6. LeftOK(c)'
    BY <1>1, <2>1, <2>3, <2>4, <2>5 DEF LeftOK
  <2> QED BY <2>2, <2>6
<1> QED BY <1>2, <1>3 DEF ServiceInv

(* Every step keeps the order of the commands.                             *)
LEMMA ServiceInvStep == PowerInv /\ ServiceInv /\ [Next]_vars => ServiceInv'
<1> SUFFICES ASSUME PowerInv, ServiceInv, [Next]_vars PROVE ServiceInv' OBVIOUS
<1>1. /\ TypeOK /\ TypeOK' /\ OnceOK /\ call \in [Calls -> Call]
      /\ \A c \in Calls : CallOK(call[c]) /\ HandedOK(c) /\ LeftOK(c)
  BY PowerTypeStep DEF PowerInv, ServiceInv, TypeOK
<1>2. ASSUME landed' = landed, dispatcher' \subseteq dispatcher,
             \A c \in Calls :
               LET k == call[c]
                   j == call'[c]
               IN  \/ j = k
                   \/ /\ j.tool = k.tool /\ j.id = k.id /\ j.op = k.op /\ j.reply = k.reply
                      /\ k.cancelled => j.cancelled
                      /\ j.phase = k.phase \/ j.phase = "lost"
                      /\ j.phase = "running" => k.phase = "running"
      PROVE  ServiceInv'
  <2>1. OnceOK'
    BY <1>1, <1>2, ServiceOnce
  <2>2. ASSUME NEW c \in Calls PROVE HandedOK(c)' /\ LeftOK(c)'
    <3>1. CASE call'[c] = call[c]
      BY <1>1, <1>2, <3>1, ServiceOthers DEF Of
    <3>2. CASE call'[c] # call[c]
      <4> DEFINE k == call[c]
                 j == call'[c]
      <4>1. /\ j.tool = k.tool /\ j.id = k.id /\ j.op = k.op /\ j.reply = k.reply
            /\ k.cancelled => j.cancelled
            /\ j.phase = k.phase \/ j.phase = "lost"
            /\ j.phase = "running" => k.phase = "running"
        BY <1>2, <3>2
      <4>2. /\ Of(c, dispatcher') \subseteq Of(c, dispatcher) /\ (Killed(c)' <=> Killed(c))
            /\ Of(c, dispatcher' \cup landed') \subseteq Of(c, dispatcher \cup landed)
        BY <1>2 DEF Of, Killed
      <4> HIDE DEF j
      <4>3. HandedOK(c)'
        BY <1>1, <4>1, <4>2 DEF HandedOK, Of, j
      <4>4. LeftOK(c)'
        BY <1>1, <4>1, <4>2 DEF LeftOK, Of, j
      <4> QED BY <4>3, <4>4
    <3> QED BY <3>1, <3>2
  <2> QED BY <2>1, <2>2 DEF ServiceInv
<1>3. ASSUME NEW c \in Calls, Invoke(c) PROVE ServiceInv'
  <2>1. PICK t \in Tools, i \in Ids, f \in BOOLEAN, y \in BOOLEAN, n \in Names :
          Enter(c, t, i, f, y, n)
    BY <1>3 DEF Invoke
  <2>2. /\ call[c].phase = "idle" /\ UNCHANGED <<dispatcher, landed>>
        /\ \A d \in Calls \ {c} : call'[d] = call[d]
        /\ call'[c] = Entered(t, i, f, y, n)
            \/ call'[c] = [Entered(t, i, f, y, n) EXCEPT !.phase = "answered",
                                                          !.reply = "refused"]
    BY <1>1, <2>1 DEF Enter
  <2>3. /\ call'[c].op = FirstOp(t, f) /\ call'[c].tool = t
        /\ call'[c].reply # "nil"
    <3> DEFINE e == Entered(t, i, f, y, n)
               a == [e EXCEPT !.phase = "answered", !.reply = "refused"]
    <3>1. e.op = FirstOp(t, f) /\ e.tool = t /\ e.reply = "none"
      BY DEF Entered
    <3>2. a.op = e.op /\ a.tool = e.tool /\ a.reply = "refused"
      BY DEF Entered
    <3> HIDE DEF e
    <3> QED BY <2>2, <3>1, <3>2 DEF e
  <2>4. Of(c, dispatcher \cup landed) = {}
    BY <2>2 DEF PowerInv, RequestOK, Of
  <2>5. OnceOK'
    BY <1>1, <2>2, ServiceOnce
  <2>6. HandedOK(c)' /\ LeftOK(c)'
    <3>1. Of(c, dispatcher')= {} /\ Of(c, dispatcher' \cup landed') = {}
      BY <2>2, <2>4 DEF Of
    <3>2. ~(call'[c].tool = "restart" /\ call'[c].op = "start")
      BY <2>3 DEF FirstOp
    <3> QED BY <2>3, <3>1, <3>2 DEF HandedOK, LeftOK, Of
  <2>7. ASSUME NEW d \in Calls \ {c} PROVE HandedOK(d)' /\ LeftOK(d)'
    BY <1>1, <2>2, ServiceOthers DEF Of
  <2> QED BY <2>5, <2>6, <2>7 DEF ServiceInv
<1>4. ASSUME NEW c \in Calls, Cancel(c) PROVE ServiceInv'
  <2>1. /\ call'[c] = [call[c] EXCEPT !.cancelled = TRUE]
        /\ \A d \in Calls \ {c} : call'[d] = call[d] /\ UNCHANGED <<dispatcher, landed>>
    BY <1>1, <1>4 DEF Cancel
  <2>2. UNCHANGED <<dispatcher, landed>>
    BY <1>4 DEF Cancel
  <2>3. /\ call'[c].tool = call[c].tool /\ call'[c].id = call[c].id
        /\ call'[c].op = call[c].op /\ call'[c].reply = call[c].reply
        /\ call'[c].cancelled /\ call'[c].phase = call[c].phase
    BY <1>1, <2>1 DEF Call
  <2> QED BY <1>2, <2>1, <2>2, <2>3
<1>5. ASSUME ServerStops PROVE ServiceInv'
  <2>1. ASSUME NEW c \in Calls, call'[c] # call[c]
        PROVE  /\ call'[c].tool = call[c].tool /\ call'[c].id = call[c].id
               /\ call'[c].op = call[c].op /\ call'[c].reply = call[c].reply
               /\ call'[c].cancelled = call[c].cancelled /\ call'[c].phase = "lost"
    <3>1. call'[c] = [call[c] EXCEPT !.phase = "lost"]
      BY <1>5, <2>1 DEF ServerStops
    <3> QED BY <1>1, <3>1 DEF Call
  <2> QED BY <1>2, <1>5, <2>1 DEF ServerStops
<1>6. ASSUME NEW v \in VMs,
             OutsidePower(v) \/ OutsideRegister(v) \/ OutsideRename(v)
      PROVE  ServiceInv'
  BY <1>2, <1>6 DEF OutsidePower, OutsideRegister, OutsideRename, WithoutAcpi
<1>7. ASSUME UNCHANGED vars PROVE ServiceInv'
  BY <1>2, <1>7 DEF vars
<1> QED BY <1>1, <1>3, <1>4, <1>5, <1>6, <1>7, ServiceReturns, ServiceSpawn, ServicePerform
        DEF Next

LEMMA ServiceInvAlways == Spec => [](PowerInv /\ ServiceInv)
BY PowerInvAlways, ServiceInvInit, ServiceInvStep, PTL DEF Spec

(* A reply comes from the end of the call's own process.                   *)
LEMMA RepliesReturn ==
  ASSUME PowerInv, Next, NEW c \in Calls, call[c].phase # "idle",
         call[c].reply = "none", call'[c].reply # "none"
  PROVE  Returns(c)
<1>1. call \in [Calls -> Call]
  BY DEF PowerInv, TypeOK
<1>2. ASSUME NEW d \in Calls, d # c PROVE ~(Returns(d) \/ Invoke(d) \/ Spawn(d) \/ Cancel(d))
  <2>1. ASSUME Returns(d) PROVE call'[c] = call[c]
    BY <1>1, <1>2, <2>1 DEF Returns, StopReturns, RestartReturns, KillReturns, FindReturns,
                            LastReturns, GoOn, Reply
  <2>2. ASSUME Spawn(d) \/ Cancel(d) PROVE call'[c] = call[c]
    BY <1>1, <1>2, <2>2 DEF Spawn, Cancel
  <2>3. ASSUME Invoke(d) PROVE call'[c] = call[c]
    BY <1>1, <1>2, <2>3 DEF Invoke, Enter
  <2> QED BY <2>1, <2>2, <2>3
<1>3. ~Invoke(c)
  BY DEF Invoke, Enter
<1>4. ~Spawn(c)
  <2>1. ASSUME Spawn(c) PROVE call'[c].reply = "none"
    <3>1. call'[c] = [call[c] EXCEPT !.phase = "running"]
      BY <1>1, <2>1 DEF Spawn
    <3> QED BY <1>1, <3>1 DEF Call
  <2> QED BY <2>1
<1>5. ~Cancel(c)
  <2>1. ASSUME Cancel(c) PROVE call'[c].reply = "none"
    <3>1. call'[c] = [call[c] EXCEPT !.cancelled = TRUE]
      BY <1>1, <2>1 DEF Cancel
    <3> QED BY <1>1, <3>1 DEF Call
  <2> QED BY <2>1
<1>6. ~ServerStops
  <2>1. ASSUME ServerStops PROVE call'[c].reply = "none"
    <3>1. call'[c] = call[c] \/ call'[c] = [call[c] EXCEPT !.phase = "lost"]
      BY <2>1 DEF ServerStops
    <3> QED BY <1>1, <3>1 DEF Call
  <2> QED BY <2>1
<1>7. call' # call
  OBVIOUS
<1> QED BY <1>2, <1>3, <1>4, <1>5, <1>6, <1>7
        DEF Next, Perform, OutsidePower, OutsideRegister, OutsideRename

(* A restart answers from its kill in error only, and not once the kill    *)
(* was performed, unless it was cancelled: it goes on to the start.        *)
LEMMA KillAnswers ==
  ASSUME PowerInv, ServiceInv, NEW c \in Calls, KillReturns(c), call[c].tool = "restart",
         call[c].reply = "none", call'[c].reply # "none"
  PROVE  /\ call'[c].reply # "nil"
         /\ Performed(c, "kill") => call[c].cancelled
<1>1. /\ TypeOK /\ call[c] \in Call /\ CallOK(call[c]) /\ call[c].op = "kill"
  BY DEF PowerInv, TypeOK, KillReturns
<1>2. ~GoOn(c, "start", call[c].err)
  <2>1. ASSUME GoOn(c, "start", call[c].err) PROVE call'[c].reply = "none"
    <3>1. call'[c] = [call[c] EXCEPT !.op = "start", !.err = call[c].err, !.phase = "ready"]
      BY <1>1, <2>1 DEF GoOn, TypeOK
    <3> QED BY <1>1, <3>1 DEF Call
  <2> QED BY <2>1
<1>3. PICK end \in Ends :
        /\ Ended(c, end) /\ RunErr(end, call[c].cancelled) # "nil"
        /\ Reply(c, call[c].err)
  BY <1>2 DEF KillReturns
<1>4. call'[c].reply # "nil"
  <2>1. call'[c] = [call[c] EXCEPT !.phase = "answered", !.reply = call[c].err]
    BY <1>1, <1>3 DEF Reply, TypeOK
  <2>2. call[c].err # "nil"
    BY <1>1 DEF CallOK
  <2> QED BY <1>1, <2>1, <2>2 DEF Call
<1>5. ASSUME Performed(c, "kill"), ~call[c].cancelled PROVE FALSE
  <2>1. PICK m \in landed : m.call = c /\ m.op = "kill"
    BY <1>5 DEF Performed
  <2>2. m \in Of(c, dispatcher \cup landed) /\ HandedOK(c)
    BY <2>1 DEF ServiceInv, Of
  <2>3. call[c].phase # "ready"
    BY <1>1, <2>1, <2>2 DEF HandedOK
  <2>4. Landed(c)
    BY <1>1, <2>1 DEF Landed
  <2>5. end \in {"notStarted", "failed"}
    BY <1>3, <1>5 DEF Ended, MayEnd, RunErr, Ends
  <2> QED BY <1>3, <2>3, <2>4, <2>5 DEF Ended, MayEnd
<1> QED BY <1>4, <1>5

(* A restart that killed the VM is answered with success only after its    *)
(* start was performed, and that after the kill; and with an error of its  *)
(* own, not the client's cancellation, only after it tried the start       *)
(* (lifecycle.go Restart).                                                 *)
THEOREM PowerKillThenStart == Spec => KillThenStart
<1>1. ASSUME PowerInv, ServiceInv, Next, NEW c \in Calls, call[c].tool = "restart"
      PROVE  /\ ~Performed(c, "start") /\ Performed(c, "start")' => Performed(c, "kill")
             /\ call[c].reply = "none" /\ Performed(c, "kill") =>
                  /\ call'[c].reply = "nil" => Performed(c, "start")
                  /\ call'[c].reply \notin {"none", "nil"} =>
                       call[c].cancelled \/ call[c].op = "start"
  <2>1. /\ TypeOK /\ call[c] \in Call /\ CallOK(call[c]) /\ HandedOK(c) /\ LeftOK(c)
    BY <1>1 DEF PowerInv, ServiceInv, TypeOK
  <2>2. ASSUME ~Performed(c, "start"), Performed(c, "start")' PROVE Performed(c, "kill")
    <3>1. landed' # landed
      BY <2>2 DEF Performed
    <3>2. PICK m \in dispatcher : Perform(m)
      <4>1. ASSUME NEW d \in Calls PROVE ~Invoke(d) /\ ~Spawn(d) /\ ~Cancel(d)
        BY <3>1 DEF Invoke, Enter, Spawn, Cancel
      <4>2. ASSUME NEW d \in Calls PROVE ~Returns(d)
        BY <3>1 DEF Returns, StopReturns, RestartReturns, KillReturns, FindReturns, LastReturns
      <4>3. ~ServerStops
        BY <3>1 DEF ServerStops
      <4>4. ASSUME NEW v \in VMs
            PROVE  ~OutsidePower(v) /\ ~OutsideRegister(v) /\ ~OutsideRename(v)
        BY <3>1 DEF OutsidePower, OutsideRegister, OutsideRename
      <4> QED BY <1>1, <4>1, <4>2, <4>3, <4>4 DEF Next
    <3>3. m.call = c /\ m.op = "start"
      BY <2>2, <3>2 DEF Performed, Perform
    <3>4. m \in Of(c, dispatcher \cup landed)
      BY <3>2, <3>3 DEF Of
    <3>5. call[c].phase # "idle"
      BY <1>1, <3>2, <3>3 DEF PowerInv, RequestOK
    <3>6. call[c].op \in {"restart", "kill", "start"}
      BY <1>1, <2>1, <3>5 DEF CallOK, Call, Ops
    <3>7. call[c].op = "start"
      BY <2>1, <3>3, <3>4, <3>6 DEF HandedOK, Rank
    <3> QED BY <1>1, <2>1, <3>7 DEF LeftOK, Killed, Performed
  <2>3. ASSUME call[c].reply = "none", Performed(c, "kill"), call'[c].reply # "none"
        PROVE  /\ call'[c].reply = "nil" => Performed(c, "start")
               /\ call'[c].reply # "nil" => call[c].cancelled \/ call[c].op = "start"
    <3>1. PICK m \in landed : m.call = c /\ m.op = "kill"
      BY <2>3 DEF Performed
    <3>2. m \in Of(c, dispatcher \cup landed) /\ call[c].phase # "idle"
      BY <1>1, <3>1 DEF PowerInv, RequestOK, Of
    <3>3. call[c].op \in {"kill", "start"}
      <4>1. call[c].op \in {"restart", "kill", "start"}
        BY <1>1, <2>1, <3>2 DEF CallOK, Call, Ops
      <4> QED BY <2>1, <3>1, <3>2, <4>1 DEF HandedOK, Rank
    <3>4. Returns(c)
      BY <1>1, <2>3, <3>2, RepliesReturn
    <3>5. CASE call[c].op = "kill"
      <4>1. KillReturns(c)
        BY <3>4, <3>5 DEF Returns, StopReturns, RestartReturns, FindReturns, LastReturns
      <4> QED BY <1>1, <2>3, <4>1, KillAnswers
    <3>6. CASE call[c].op = "start"
      <4>1. LastReturns(c)
        BY <3>4, <3>6 DEF Returns, StopReturns, RestartReturns, FindReturns, KillReturns
      <4>2. PICK end \in Ends : Ended(c, end) /\ Reply(c, RunErr(end, call[c].cancelled))
        BY <4>1 DEF LastReturns
      <4>3. call'[c] = [call[c] EXCEPT !.phase = "answered",
                                       !.reply = RunErr(end, call[c].cancelled)]
        BY <2>1, <4>2 DEF Reply, TypeOK
      <4>4. call'[c].reply = RunErr(end, call[c].cancelled)
        BY <2>1, <4>3 DEF Call
      <4>5. ASSUME call'[c].reply = "nil" PROVE Performed(c, "start")
        <5>1. end = "exit0"
          BY <4>4, <4>5 DEF RunErr
        <5> QED BY <3>6, <4>2, <5>1 DEF Ended, MayEnd, Landed, Performed
      <4> QED BY <3>6, <4>5
    <3> QED BY <3>3, <3>5, <3>6
  <2> QED BY <2>2, <2>3
<1>2. PowerInv /\ ServiceInv /\ [Next]_vars =>
        [\A c \in Calls :
           call[c].tool = "restart" =>
             /\ ~Performed(c, "start") /\ Performed(c, "start")' => Performed(c, "kill")
             /\ call[c].reply = "none" /\ Performed(c, "kill") =>
                  /\ call'[c].reply = "nil" => Performed(c, "start")
                  /\ call'[c].reply \notin {"none", "nil"} =>
                       call[c].cancelled \/ call[c].op = "start"]_vars
  BY <1>1
<1> QED BY <1>2, ServiceInvAlways, PTL DEF Spec, KillThenStart

-----------------------------------------------------------------------------
(* What the client sees of a call.                                         *)
Seen(k) == [tool |-> k.tool, id |-> k.id, status |-> Status(k)]

(* The initial states are initial states of PowerService.                  *)
LEMMA ServiceInitRefines == Init => Service!Init
BY DEF Init, Service!Init, Status

(* A call whose status, tool and id stay is not seen to move.              *)
LEMMA ServiceSame ==
  ASSUME \A c \in Calls : Seen(call'[c]) = Seen(call[c])
  PROVE  [c \in Calls |-> Seen(call'[c])] = [c \in Calls |-> Seen(call[c])]
OBVIOUS

(* Calls that are settled, all with one status.                            *)
LEMMA ServiceSettles ==
  ASSUME NEW C \in SUBSET Calls, NEW status, UNCHANGED <<state, landed>>,
         \A c \in C : Status(call[c]) = "pending" /\ Status(call'[c]) = status,
         \A c \in C : call'[c].tool = call[c].tool /\ call'[c].id = call[c].id,
         \A c \in Calls \ C : call'[c] = call[c]
  PROVE  Service!Settle(C, status)
<1>1. \A c \in Calls :
        [tool |-> call'[c].tool, id |-> call'[c].id, status |-> Status(call'[c])]
          = IF c \in C
            THEN [[tool |-> call[c].tool, id |-> call[c].id, status |-> Status(call[c])]
                    EXCEPT !.status = status]
            ELSE [tool |-> call[c].tool, id |-> call[c].id, status |-> Status(call[c])]
  OBVIOUS
<1> QED BY <1>1 DEF Service!Settle, Status

(* The status, case by case.                                               *)
LEMMA ServiceStatus ==
  ASSUME NEW k
  PROVE  /\ k.phase = "idle" => Status(k) = "idle"
         /\ k.phase \in {"ready", "running"} => Status(k) = "pending"
         /\ k.phase \in {"answered", "lost"} => Status(k) = IF k.reply = "nil" THEN "ok" ELSE "over"
BY DEF Status

(* A call comes in, or a delete that is not confirmed is refused.          *)
LEMMA ServiceInvokes ==
  ASSUME TypeOK, NEW c \in Calls, Invoke(c)
  PROVE  Service!Invoke(c)
<1>1. PICK t \in Tools, i \in Ids, f \in BOOLEAN, y \in BOOLEAN, n \in Names :
        Enter(c, t, i, f, y, n)
  BY DEF Invoke
<1>2. /\ call[c].phase = "idle" /\ UNCHANGED <<state, landed>>
      /\ \A d \in Calls \ {c} : call'[d] = call[d]
      /\ call'[c] = IF t = "delete" /\ ~y
                    THEN [Entered(t, i, f, y, n) EXCEPT !.phase = "answered", !.reply = "refused"]
                    ELSE Entered(t, i, f, y, n)
  BY <1>1 DEF Enter, TypeOK
<1>3. /\ Status(call[c]) = "idle" /\ Status(call'[c]) \in {"pending", "over"}
      /\ Status(call'[c]) = "over" => call'[c].tool = "delete"
  <2> DEFINE e == Entered(t, i, f, y, n)
             a == [e EXCEPT !.phase = "answered", !.reply = "refused"]
  <2>1. e.phase = "ready" /\ e.tool = t
    BY DEF Entered
  <2>2. a.phase = "answered" /\ a.reply = "refused" /\ a.tool = t
    BY DEF Entered
  <2> HIDE DEF e, a
  <2>3. Status(e) = "pending" /\ Status(a) = "over" /\ Status(call[c]) = "idle"
    BY <1>2, <2>1, <2>2, ServiceStatus
  <2>4. call'[c] = IF t = "delete" /\ ~y THEN a ELSE e
    BY <1>2 DEF e, a
  <2> QED BY <2>1, <2>2, <2>3, <2>4
<1> QED BY <1>2, <1>3 DEF Service!Invoke

(* A request is performed: one command of its call, for the first time.    *)
LEMMA ServicePerforms ==
  ASSUME PowerInv, ServiceInv, NEW m \in dispatcher, Perform(m)
  PROVE  /\ m.call \in Calls /\ m.vm \in VMs
         /\ m.op \in Service!Commands(call[m.call].tool)
         /\ Service!Perform(m.call, m.op, m.vm)
<1> DEFINE c == m.call
           k == call[c]
<1>1. /\ m \in Request /\ c \in Calls /\ m.vm \in VMs /\ k \in Call /\ state \in [VMs -> PowerStates]
      /\ call' = call /\ landed' = landed \cup {m}
      /\ state' = [state EXCEPT ![m.vm] = StateAfter(m.op, @)]
  BY DEF PowerInv, TypeOK, Perform, Request
<1>2. RequestOK(m, k) /\ HandedOK(c) /\ LeftOK(c) /\ OnceOK
  BY <1>1 DEF PowerInv, ServiceInv
<1>3. m.op \in Service!Commands(k.tool)
  BY <1>1, <1>2 DEF HandedOK, Of
<1>4. Status(k) # "idle"
  BY <1>2 DEF Status, RequestOK
<1>5. \A l \in landed : ~(l.call = c /\ l.op = m.op)
  BY <1>2 DEF OnceOK
<1>6. k.id \in VMs => m.vm = k.id /\ Status(k) # "ok"
  <2>1. m \in Of(c, dispatcher)
    BY DEF Of
  <2> QED BY <1>2, <2>1 DEF RequestOK, LeftOK, Status
<1>7. state' = [state EXCEPT ![m.vm] = Service!Outcome(m.op, @)]
  BY <1>1 DEF StateAfter, Service!Outcome
<1>8. landed' = landed \cup {[call |-> c, op |-> m.op, vm |-> m.vm]}
  BY <1>1 DEF Request
<1>9. Service!Perform(c, m.op, m.vm)
  BY <1>1, <1>3, <1>4, <1>5, <1>6, <1>7, <1>8 DEF Service!Perform, Status
<1> QED BY <1>1, <1>3, <1>9

(* A process ends: the call goes on unseen, succeeds, or gives up.         *)
LEMMA ServiceAnswers ==
  ASSUME PowerInv, PowerInv', NEW c \in Calls, Returns(c)
  PROVE  Service!Succeed(c) \/ Service!GiveUp \/ UNCHANGED Service!vars
<1> DEFINE k == call[c]
           j == call'[c]
<1>1. /\ TypeOK /\ k \in Call /\ UNCHANGED <<state, landed>>
      /\ \A d \in Calls \ {c} : call'[d] = call[d]
      /\ k.phase \in {"ready", "running"}
  <2>1. TypeOK /\ k \in Call
    BY DEF PowerInv, TypeOK
  <2>2. UNCHANGED <<state, landed>> /\ \A d \in Calls \ {c} : call'[d] = call[d]
    BY <2>1 DEF Returns, StopReturns, RestartReturns, KillReturns, FindReturns, LastReturns,
                GoOn, Reply, TypeOK
  <2>3. k.phase \in {"ready", "running"}
    BY DEF Returns, StopReturns, RestartReturns, KillReturns, FindReturns, LastReturns,
           Ended, MayEnd
  <2> QED BY <2>1, <2>2, <2>3
<1>2. /\ j.tool = k.tool /\ j.id = k.id /\ j.phase \in {"ready", "answered"}
  <2>1. \/ \E op, err : GoOn(c, op, err)
        \/ \E err : Reply(c, err)
        \/ \E saw, op : call' = [call EXCEPT ![c] = [@ EXCEPT !.saw = saw, !.phase = "ready",
                                                              !.op = op]]
    BY DEF Returns, StopReturns, RestartReturns, KillReturns, FindReturns, LastReturns
  <2>2. \/ \E op, err : j = [k EXCEPT !.op = op, !.err = err, !.phase = "ready"]
        \/ \E err : j = [k EXCEPT !.phase = "answered", !.reply = err]
        \/ \E saw, op : j = [k EXCEPT !.saw = saw, !.phase = "ready", !.op = op]
    <3>1. \A h : call' = [call EXCEPT ![c] = h] => j = h
      BY <1>1 DEF TypeOK
    <3> HIDE DEF j
    <3>2. \A op, err : GoOn(c, op, err) => j = [k EXCEPT !.op = op, !.err = err, !.phase = "ready"]
      BY <3>1 DEF GoOn
    <3>3. \A err : Reply(c, err) => j = [k EXCEPT !.phase = "answered", !.reply = err]
      BY <3>1 DEF Reply
    <3>4. \A saw, op :
            call' = [call EXCEPT ![c] = [@ EXCEPT !.saw = saw, !.phase = "ready", !.op = op]]
              => j = [k EXCEPT !.saw = saw, !.phase = "ready", !.op = op]
      BY <3>1
    <3>5. CASE \E op, err : GoOn(c, op, err)
      <4>1. PICK op, err : GoOn(c, op, err)
        BY <3>5
      <4>2. j = [k EXCEPT !.op = op, !.err = err, !.phase = "ready"]
        BY <3>2, <4>1
      <4> QED BY <4>2
    <3>6. CASE \E err : Reply(c, err)
      <4>1. PICK err : Reply(c, err)
        BY <3>6
      <4>2. j = [k EXCEPT !.phase = "answered", !.reply = err]
        BY <3>3, <4>1
      <4> QED BY <4>2
    <3>7. CASE \E saw, op :
                 call' = [call EXCEPT ![c] = [@ EXCEPT !.saw = saw, !.phase = "ready", !.op = op]]
      <4>1. PICK saw, op :
              call' = [call EXCEPT ![c] = [@ EXCEPT !.saw = saw, !.phase = "ready", !.op = op]]
        BY <3>7
      <4>2. j = [k EXCEPT !.saw = saw, !.phase = "ready", !.op = op]
        BY <3>4, <4>1
      <4> QED BY <4>2
    <3> QED BY <2>1, <3>5, <3>6, <3>7
  <2> HIDE DEF j
  <2>3. CASE \E op, err : j = [k EXCEPT !.op = op, !.err = err, !.phase = "ready"]
    BY <1>1, <2>3 DEF Call
  <2>4. CASE \E err : j = [k EXCEPT !.phase = "answered", !.reply = err]
    BY <1>1, <2>4 DEF Call
  <2>5. CASE \E saw, op : j = [k EXCEPT !.saw = saw, !.phase = "ready", !.op = op]
    BY <1>1, <2>5 DEF Call
  <2> QED BY <2>2, <2>3, <2>4, <2>5
<1>3. Status(k) = "pending"
  BY <1>1, ServiceStatus
<1> HIDE DEF j
<1>4. CASE j.phase = "ready"
  <2>1. \A d \in Calls : Seen(call'[d]) = Seen(call[d])
    <3>1. Status(j) = "pending"
      BY <1>4, ServiceStatus
    <3> QED BY <1>1, <1>2, <1>3, <3>1 DEF Seen, j
  <2> QED BY <1>1, <2>1, ServiceSame DEF Service!vars, Seen, Status
<1>5. CASE j.phase = "answered" /\ j.reply = "nil"
  <2>1. Status(j) = "ok"
    BY <1>5 DEF Status
  <2>2. Service!Settle({c}, "ok")
    BY <1>1, <1>2, <1>3, <2>1, ServiceSettles DEF j
  <2>3. \E m \in landed : m.call = c /\ m.op \in Claimed(j)
    BY <1>1, <1>5 DEF PowerInv, OkMeansDone, j
  <2>4. Claimed(j) = Service!Promised(k.tool)
    BY <1>2 DEF Claimed, Service!Promised
  <2> QED BY <2>2, <2>3, <2>4 DEF Service!Succeed
<1>6. CASE j.phase = "answered" /\ j.reply # "nil"
  <2>1. Status(j) = "over"
    BY <1>6 DEF Status
  <2>2. Service!Settle({c}, "over")
    BY <1>1, <1>2, <1>3, <2>1, ServiceSettles DEF j
  <2> QED BY <2>2 DEF Service!GiveUp
<1> QED BY <1>2, <1>4, <1>5, <1>6

(* Every step is one of PowerService, or is not seen.                      *)
LEMMA ServiceStepRefines ==
  PowerInv /\ PowerInv' /\ ServiceInv /\ [Next]_vars => [Service!Next]_(Service!vars)
<1> SUFFICES ASSUME PowerInv, PowerInv', ServiceInv, [Next]_vars
             PROVE  Service!Next \/ UNCHANGED Service!vars
  OBVIOUS
<1>1. TypeOK /\ call \in [Calls -> Call] /\ \A c \in Calls : CallOK(call[c])
  BY DEF PowerInv, TypeOK
<1>2. ASSUME UNCHANGED <<state, landed>>, \A c \in Calls : Seen(call'[c]) = Seen(call[c])
      PROVE  UNCHANGED Service!vars
  BY <1>2, ServiceSame DEF Service!vars, Seen, Status
<1>3. ASSUME NEW c \in Calls, Invoke(c) PROVE Service!Next
  BY <1>1, <1>3, ServiceInvokes DEF Service!Next
<1>4. ASSUME NEW c \in Calls, Spawn(c) \/ Cancel(c) PROVE UNCHANGED Service!vars
  <2>1. /\ UNCHANGED <<state, landed>> /\ \A d \in Calls \ {c} : call'[d] = call[d]
        /\ call[c].phase \in {"ready", "running"} /\ call'[c].phase \in {"ready", "running"}
        /\ call'[c].tool = call[c].tool /\ call'[c].id = call[c].id
    BY <1>1, <1>4 DEF Spawn, Cancel, Call
  <2>2. \A d \in Calls : Seen(call'[d]) = Seen(call[d])
    <3>1. Status(call[c]) = "pending" /\ Status(call'[c]) = "pending"
      BY <2>1, ServiceStatus
    <3> QED BY <2>1, <3>1 DEF Seen
  <2> QED BY <1>2, <2>1, <2>2
<1>5. ASSUME NEW m \in dispatcher, Perform(m) PROVE Service!Next
  <2>1. /\ m.call \in Calls /\ m.vm \in VMs /\ m.op \in Service!Commands(call[m.call].tool)
        /\ Service!Perform(m.call, m.op, m.vm)
    BY <1>5, ServicePerforms
  <2> QED BY <2>1 DEF Service!Next
<1>6. ASSUME NEW c \in Calls, Returns(c) PROVE Service!Next \/ UNCHANGED Service!vars
  BY <1>6, ServiceAnswers DEF Service!Next
<1>7. ASSUME NEW v \in VMs, OutsidePower(v) \/ OutsideRegister(v) \/ OutsideRename(v)
      PROVE  Service!Next \/ UNCHANGED Service!vars
  <2>1. call' = call /\ landed' = landed
    BY <1>7 DEF OutsidePower, OutsideRegister, OutsideRename
  <2>2. state' = state \/ \E s \in {"stopped", "running", "paused"} : state' = [state EXCEPT ![v] = s]
    BY <1>7 DEF OutsidePower, OutsideRegister, OutsideRename
  <2>3. CASE state' = state
    BY <1>2, <2>1, <2>3
  <2>4. CASE \E s \in {"stopped", "running", "paused"} : state' = [state EXCEPT ![v] = s]
    BY <2>1, <2>4 DEF Service!Next, Service!Outside
  <2> QED BY <2>2, <2>3, <2>4
<1>8. ASSUME ServerStops PROVE Service!Next
  <2> DEFINE C == {c \in Calls : call[c].phase \in {"ready", "running"}}
  <2>1. UNCHANGED <<state, landed>> /\ \A c \in Calls \ C : call'[c] = call[c]
    BY <1>8 DEF ServerStops
  <2>2. ASSUME NEW c \in C
        PROVE  /\ Status(call[c]) = "pending" /\ Status(call'[c]) = "over"
               /\ call'[c].tool = call[c].tool /\ call'[c].id = call[c].id
    <3>1. call'[c] = [call[c] EXCEPT !.phase = "lost"] /\ call[c] \in Call
      BY <1>1, <1>8 DEF ServerStops
    <3>2. /\ call'[c].phase = "lost" /\ call'[c].reply = call[c].reply
          /\ call'[c].tool = call[c].tool /\ call'[c].id = call[c].id
      BY <3>1 DEF Call
    <3>3. call[c].reply = "none"
      BY <1>1 DEF CallOK
    <3> QED BY <3>2, <3>3 DEF Status
  <2>3. Service!Settle(C, "over")
    BY <2>1, <2>2, ServiceSettles
  <2> QED BY <2>3 DEF Service!Next, Service!GiveUp
<1>9. ASSUME UNCHANGED vars PROVE UNCHANGED Service!vars
  BY <1>9 DEF vars, Service!vars, Status
<1> QED BY <1>3, <1>4, <1>5, <1>6, <1>7, <1>8, <1>9 DEF Next

(* For every set of VMs, names and calls: the seven tools do what          *)
(* PowerService promises, in spite of fallbacks, time-outs, cancelled      *)
(* contexts and the end of the server.                                     *)
THEOREM PowerImplementsService == Spec => ImplementsService
<1>1. Init => Service!Init
  BY ServiceInitRefines
<1>2. PowerInv /\ PowerInv' /\ ServiceInv /\ [Next]_vars => [Service!Next]_(Service!vars)
  BY ServiceStepRefines
<1> QED BY <1>1, <1>2, ServiceInvAlways, PTL DEF Spec, ImplementsService, Service!Spec

=============================================================================
