------------------------- MODULE DebugSessionProofs -------------------------
(***************************************************************************)
(* What the tools that talk to a debugged guest guarantee for any number   *)
(* of calls, code locations and restarts of the VM, and any width of a     *)
(* Duration.                                                               *)
(***************************************************************************)
EXTENDS DebugSession, Ranks, SequenceTheorems, TLAPS

(***************************************************************************)
(* Time.                                                                   *)
(***************************************************************************)

(* A deadline lies ahead, as far as asked wherever that fits a Duration.   *)
LEMMA TimeoutFits ==
  ASSUME NEW n \in Int
  PROVE  /\ Timeout(n) \in 1..Half
         /\ n > 0 /\ Fits(n) => Timeout(n) = n * Second
<1> DEFINE m == n * Second
           q == (m + Half) % (2 * Half)
<1>1. m \in Int /\ Half \in Nat \ {0} /\ Second \in Nat \ {0} /\ 2 * Second < Half
  BY DurationAssumption, SessionAssumption DEF Fits
<1>2. q \in 0..2 * Half - 1
  <2>1. m + Half \in Int /\ 2 * Half \in Nat \ {0}
    BY <1>1
  <2>2. \A a \in Int, b \in Nat \ {0} : a % b \in 0..b - 1
    OBVIOUS
  <2> QED BY <2>1, <2>2
<1>3. Seconds(n) = q - Half
  BY DEF Seconds
<1>4. Timeout(n) \in 1..Half
  BY <1>1, <1>2, <1>3 DEF Timeout
<1>5. ASSUME n > 0, Fits(n) PROVE Timeout(n) = m
  <2>1. m > 0 /\ m < Half
    BY <1>1, <1>5 DEF Fits
  <2>2. q = m + Half
    <3>1. m + Half \in Nat /\ 2 * Half \in Nat \ {0} /\ m + Half < 2 * Half
      BY <1>1, <2>1
    <3>2. \A a \in Nat, b \in Nat \ {0} : a < b => a % b = a
      OBVIOUS
    <3> QED BY <3>1, <3>2
  <2> QED BY <1>1, <1>3, <2>1, <2>2 DEF Timeout
<1> QED BY <1>4, <1>5

(***************************************************************************)
(* Scripts.                                                                *)
(***************************************************************************)

(* Only a breakpoint_set sets one, and only a continue lets the guest go:  *)
(* no gdb does both.                                                       *)
Allowed(r) ==
  Commands \ ((IF r.tool = "breakpoint_set" THEN {} ELSE {"break"})
              \cup (IF r.tool = "continue" THEN {} ELSE {"continue"}))

LEMMA ScriptAllowed ==
  ASSUME NEW r \in Request, r.tool # "serial"
  PROVE  Script(r) \in Seq(Allowed(r))
<1> DEFINE S == Seq(Allowed(r))
<1>1. <<"set architecture", "target remote">> \in S
  BY DEF Allowed, Commands
<1>2. [i \in 1..r.steps |-> "stepi"] \in S
  <2>1. r.steps \in Nat /\ "stepi" \in Allowed(r)
    BY DEF Allowed, Commands, Request
  <2>2. [i \in 1..r.steps |-> "stepi"] \in [1..r.steps -> Allowed(r)]
    BY <2>1
  <2> QED BY <2>1, <2>2
<1>3. /\ <<"info registers">> \in S /\ <<"disassemble", "info registers">> \in S
      /\ <<"disassemble">> \in S /\ <<"info breakpoints">> \in S
      /\ <<"delete", "info breakpoints">> \in S
      /\ r.tool = "breakpoint_set" => <<"break", "info breakpoints">> \in S
      /\ r.tool = "continue" => <<"continue", "info registers">> \in S
  BY DEF Allowed, Commands
<1>4. \A s, t \in S : s \o t \in S
  BY ConcatProperties
<1>5. r.tool \in GdbTools
  BY DEF Request
<1> QED BY <1>1, <1>2, <1>3, <1>4, <1>5 DEF Script, GdbTools

(***************************************************************************)
(* The types, and what they leave out: todo only holds what the tool may   *)
(* send, so a gdb with a breakpoint in its table never resumes the guest,  *)
(* and the guest's code is never written to; and on a line, the time       *)
(* waited and the time left make up the time-out.                          *)
(***************************************************************************)
Session ==
  [asks : Request, phase : Phases, gdb : BOOLEAN, todo : Seq(Commands),
   resumed : BOOLEAN, table : SUBSET Locations, listed : SUBSET Locations,
   worked : BOOLEAN, left : Nat, waited : Nat, due : SUBSET Locations,
   cancelled : BOOLEAN,
   reply : {"none", "ok", "error", "data", "closed", "silent"}]

Lives(k) == k.gdb => k.phase \in {"gdb", "lost"}

SetsOrGoes(k) ==
  /\ k.asks.tool # "serial" => k.todo \in Seq(Allowed(k.asks))
  /\ k.asks.tool = "serial" => k.todo = <<>>
  /\ k.table # {} => k.asks.tool = "breakpoint_set"
  /\ k.resumed => k.todo # <<>>

OnTime(k) ==
  LET limit == Timeout(k.asks.timeout)
  IN  /\ k.left + k.waited \in 0..limit
      /\ k.phase \in {"dial", "write", "read"} =>
           k.left + k.waited = limit /\ k.reply = "none"
      /\ k.reply = "silent" => k.waited = limit

Good(k) == k \in Session /\ Lives(k) /\ SetsOrGoes(k) /\ OnTime(k)

SessionInv ==
  /\ guest \in [on : BOOLEAN, halted : BOOLEAN, patched : {{}}]
  /\ stub \in Calls \cup {Free}
  /\ call \in [Calls -> Session]
  /\ \A c \in Calls : Good(call[c])
  /\ killed \in BOOLEAN /\ up \in BOOLEAN
  /\ outside \in 0..MaxOutside

(* A call that has just come in. *)
LEMMA FreshGood ==
  ASSUME NEW r \in Request
  PROVE  /\ Good(At("idle", r))
         /\ Good([At("answered", r) EXCEPT !.reply = "error"])
         /\ r.tool = "serial" => Good([At("dial", r) EXCEPT !.left = Timeout(r.timeout)])
         /\ \A S \in SUBSET Locations :
              r.tool # "serial" =>
                Good([At("spawn", r) EXCEPT !.todo = Script(r), !.due = S])
<1> DEFINE limit == Timeout(r.timeout)
<1>1. limit \in 1..Half /\ limit \in Nat
  <2>1. r.timeout \in Int
    BY DEF Request
  <2> QED BY <2>1, TimeoutFits, DurationAssumption
<1>2. \A S : <<>> \in Seq(S)
  OBVIOUS
<1>3. ASSUME NEW p \in Phases
      PROVE  /\ At(p, r) \in Session
             /\ At(p, r).asks = r /\ At(p, r).phase = p /\ ~At(p, r).gdb
             /\ At(p, r).todo = <<>> /\ At(p, r).table = {} /\ At(p, r).left = 0
             /\ At(p, r).waited = 0 /\ At(p, r).reply = "none" /\ ~At(p, r).resumed
  <2>1. <<>> \in Seq(Commands) /\ {} \in SUBSET Locations
    BY <1>2
  <2>2. 0 \in Nat
    OBVIOUS
  <2> QED BY <2>1, <2>2 DEF At, Session
<1> HIDE DEF limit
<1>4. Good(At("idle", r))
  <2>1. "idle" \in Phases
    BY DEF Phases
  <2>2. PICK k \in Session : k = At("idle", r)
    BY <1>3, <2>1
  <2>3. k.todo \in Seq(Allowed(r)) /\ k.left + k.waited \in 0..limit
    <3>1. k.todo = <<>> /\ k.left = 0 /\ k.waited = 0
      BY <1>3, <2>1, <2>2
    <3>2. 0 + 0 \in 0..limit
      BY <1>1
    <3> QED BY <1>2, <3>1, <3>2
  <2>4. Lives(k) /\ SetsOrGoes(k)
    BY <1>3, <2>1, <2>2, <2>3 DEF Lives, SetsOrGoes
  <2>5. OnTime(k)
    BY <1>3, <2>1, <2>2, <2>3 DEF OnTime, limit
  <2> QED BY <2>2, <2>4, <2>5 DEF Good
<1>5. ASSUME r.tool = "serial" PROVE Good([At("dial", r) EXCEPT !.left = limit])
  <2>1. "dial" \in Phases
    BY DEF Phases
  <2>2. PICK k \in Session : k = At("dial", r)
    BY <1>3, <2>1
  <2>3. [k EXCEPT !.left = limit] \in Session
    BY <1>1 DEF Session
  <2> QED BY <1>1, <1>3, <1>5, <2>1, <2>2, <2>3
          DEF Good, Lives, SetsOrGoes, OnTime, Session, limit
<1>6. ASSUME r.tool # "serial", NEW S \in SUBSET Locations
      PROVE  Good([At("spawn", r) EXCEPT !.todo = Script(r), !.due = S])
  <2>1. Script(r) \in Seq(Allowed(r)) /\ Script(r) \in Seq(Commands)
    <3>1. Script(r) \in Seq(Allowed(r)) /\ Allowed(r) \subseteq Commands
      BY <1>6, ScriptAllowed DEF Allowed
    <3> QED BY <3>1
  <2>2. "spawn" \in Phases
    BY DEF Phases
  <2>3. PICK k \in Session : k = At("spawn", r)
    BY <1>3, <2>2
  <2>4. [k EXCEPT !.todo = Script(r), !.due = S] \in Session
    BY <2>1 DEF Session
  <2> QED BY <1>1, <1>3, <1>6, <2>1, <2>2, <2>3, <2>4
          DEF Good, Lives, SetsOrGoes, OnTime, Session, limit
<1>7. Good([At("answered", r) EXCEPT !.reply = "error"])
  <2>1. "answered" \in Phases
    BY DEF Phases
  <2>2. PICK k \in Session : k = At("answered", r)
    BY <1>3, <2>1
  <2> DEFINE j == [k EXCEPT !.reply = "error"]
  <2>3. /\ j \in Session /\ j.asks = r /\ j.phase = "answered" /\ ~j.gdb /\ j.todo = <<>>
        /\ j.table = {} /\ j.left = 0 /\ j.waited = 0 /\ j.reply = "error" /\ ~j.resumed
    BY <1>3, <2>1, <2>2 DEF Session
  <2> HIDE DEF j
  <2>4. j.todo \in Seq(Allowed(r)) /\ j.left + j.waited \in 0..limit
    <3>1. 0 + 0 \in 0..limit
      BY <1>1
    <3> QED BY <1>2, <2>3, <3>1
  <2>5. Lives(j) /\ SetsOrGoes(j)
    BY <2>3, <2>4 DEF Lives, SetsOrGoes
  <2>6. OnTime(j)
    BY <2>3, <2>4 DEF OnTime, limit
  <2>7. Good(j)
    BY <2>3, <2>5, <2>6 DEF Good
  <2> QED BY <2>2, <2>7 DEF j
<1> QED BY <1>4, <1>5, <1>6, <1>7 DEF limit

(* The initial states satisfy the invariant. *)
LEMMA SessionInit == Init => SessionInv
<1> SUFFICES ASSUME Init PROVE SessionInv OBVIOUS
<1>1. (CHOOSE r \in Requests : TRUE) \in Request
  BY SessionAssumption
<1>2. call \in [Calls -> Session] /\ \A c \in Calls : Good(call[c])
  BY <1>1, FreshGood DEF Init, Good
<1>3. guest \in [on : BOOLEAN, halted : BOOLEAN, patched : {{}}]
  BY DEF Init
<1>4. outside \in 0..MaxOutside
  BY SessionAssumption DEF Init
<1> QED BY <1>2, <1>3, <1>4 DEF Init, SessionInv

(***************************************************************************)
(* The steps of one call.                                                  *)
(***************************************************************************)

(* The time-out of a call. *)
LEMMA LimitIsNat ==
  ASSUME NEW k \in Session
  PROVE  Timeout(k.asks.timeout) \in 1..Half /\ Timeout(k.asks.timeout) \in Nat
<1>1. k.asks.timeout \in Int
  BY DEF Session, Request
<1> QED BY <1>1, TimeoutFits, DurationAssumption

(* A process or a socket that is over leaves a good record behind.        *)
LEMMA OverGood ==
  ASSUME NEW k \in Session, Good(k)
  PROVE  /\ k.phase = "lost" => Good(Over(k))
         /\ \A reply \in {"ok", "error", "data", "closed"} :
              Good([Over(k) EXCEPT !.phase = "answered", !.reply = reply])
         /\ k.phase = "read" /\ k.left <= 0 =>
              Good([Over(k) EXCEPT !.phase = "answered", !.reply = "silent"])
<1> DEFINE limit == Timeout(k.asks.timeout)
<1>1. limit \in 1..Half /\ limit \in Nat
  BY LimitIsNat
<1> HIDE DEF limit
<1>2. \A S : <<>> \in Seq(S)
  OBVIOUS
<1>3. /\ Over(k) \in Session
      /\ Over(k).asks = k.asks /\ Over(k).phase = k.phase /\ ~Over(k).gdb
      /\ Over(k).todo = <<>> /\ Over(k).table = {} /\ Over(k).left = 0
      /\ Over(k).waited = k.waited /\ Over(k).reply = k.reply /\ ~Over(k).resumed
  <2>1. <<>> \in Seq(Commands) /\ {} \in SUBSET Locations
    BY <1>2
  <2>2. 0 \in Nat
    OBVIOUS
  <2> QED BY <2>1, <2>2 DEF Over, Session
<1>4. k.left \in Nat /\ k.waited \in Nat /\ k.left + k.waited \in 0..limit
  BY DEF Good, OnTime, Session, limit
<1>5. ASSUME k.phase = "lost" PROVE Good(Over(k))
  BY <1>1, <1>2, <1>3, <1>4, <1>5 DEF Good, Lives, SetsOrGoes, OnTime, limit
<1>6. ASSUME NEW reply \in {"ok", "error", "data", "closed", "silent"},
             reply = "silent" => k.waited = limit
      PROVE  Good([Over(k) EXCEPT !.phase = "answered", !.reply = reply])
  <2>1. PICK j \in Session : j = Over(k)
    BY <1>3
  <2>2. [j EXCEPT !.phase = "answered", !.reply = reply] \in Session
    BY DEF Session, Phases
  <2> QED BY <1>1, <1>2, <1>3, <1>4, <1>6, <2>1, <2>2
          DEF Good, Lives, SetsOrGoes, OnTime, Session, limit
<1>7. k.phase = "read" /\ k.left <= 0 => k.waited = limit
  BY <1>1, <1>4 DEF Good, OnTime, limit
<1> QED BY <1>5, <1>6, <1>7

(***************************************************************************)
(* A step that puts a good record in the place of one call.                *)
(***************************************************************************)
LEMMA OneGood ==
  ASSUME SessionInv, NEW c \in Calls, NEW k, Good(k),
         call' = [call EXCEPT ![c] = k]
  PROVE  call' \in [Calls -> Session] /\ \A d \in Calls : Good(call'[d])
<1>1. k \in Session
  BY DEF Good
<1> QED BY <1>1 DEF SessionInv

(* The end of a call or of its gdb. *)
LEMMA RepliesGood ==
  ASSUME SessionInv, NEW c \in Calls,
         \/ \E reply \in {"ok", "error", "data", "closed"} : Replies(c, call[c], reply)
         \/ /\ call[c].phase = "read" /\ call[c].left <= 0
            /\ Replies(c, call[c], "silent")
         \/ call[c].gdb /\ \E end \in Ends : Ended(c, end)
  PROVE  call' \in [Calls -> Session] /\ \A d \in Calls : Good(call'[d])
<1> DEFINE k == call[c]
<1>1. k \in Session /\ Good(k)
  BY DEF SessionInv
<1>2. ASSUME NEW reply \in {"ok", "error", "data", "closed"}, Replies(c, k, reply)
      PROVE  call' \in [Calls -> Session] /\ \A d \in Calls : Good(call'[d])
  <2>1. Good([Over(k) EXCEPT !.phase = "answered", !.reply = reply])
    BY <1>1, <1>2, OverGood
  <2> QED BY <1>2, <2>1, OneGood DEF Replies
<1>3. ASSUME k.phase = "read", k.left <= 0, Replies(c, k, "silent")
      PROVE  call' \in [Calls -> Session] /\ \A d \in Calls : Good(call'[d])
  <2>1. Good([Over(k) EXCEPT !.phase = "answered", !.reply = "silent"])
    BY <1>1, <1>3, OverGood
  <2> QED BY <1>3, <2>1, OneGood DEF Replies
<1>4. ASSUME k.gdb, NEW end \in Ends, Ended(c, end)
      PROVE  call' \in [Calls -> Session] /\ \A d \in Calls : Good(call'[d])
  <2>1. CASE k.phase = "gdb"
    BY <1>2, <1>4, <2>1 DEF Ended
  <2>2. CASE k.phase # "gdb"
    <3>1. Good(Over(k))
      BY <1>1, <1>4, <2>2, OverGood DEF Good, Lives
    <3>2. call' = [call EXCEPT ![c] = Over(k)]
      BY <1>4, <2>2 DEF Ended
    <3> QED BY <3>1, <3>2, OneGood
  <2> QED BY <2>1, <2>2
<1> QED BY <1>2, <1>3, <1>4

(***************************************************************************)
(* One command of a gdb: what is to come gets shorter.                     *)
(***************************************************************************)
LEMMA RanGood ==
  ASSUME SessionInv, NEW c \in Calls, NEW k, NEW worked \in BOOLEAN,
         Good(k), k.todo # <<>>, ~k.resumed, Ran(c, k, worked)
  PROVE  call' \in [Calls -> Session] /\ \A d \in Calls : Good(call'[d])
<1> DEFINE j == [k EXCEPT !.todo = Tail(k.todo), !.worked = worked]
<1>1. k \in Session /\ k.todo \in Seq(Commands)
  BY DEF Good, Session
<1>2. Tail(k.todo) \in Seq(Commands)
  BY <1>1
<1>3. k.asks.tool # "serial" /\ Tail(k.todo) \in Seq(Allowed(k.asks))
  <2>1. k.asks.tool # "serial" /\ k.todo \in Seq(Allowed(k.asks))
    BY DEF Good, SetsOrGoes
  <2> QED BY <2>1, HeadTailProperties
<1>4. j \in Session
  BY <1>1, <1>2 DEF Session
<1>5. /\ j.asks = k.asks /\ j.phase = k.phase /\ j.gdb = k.gdb
      /\ j.todo = Tail(k.todo) /\ j.table = k.table /\ j.left = k.left
      /\ j.waited = k.waited /\ j.reply = k.reply /\ j.resumed = k.resumed
  BY <1>1 DEF Session
<1> HIDE DEF j
<1>6. Good(j)
  BY <1>3, <1>4, <1>5 DEF Good, Lives, SetsOrGoes, OnTime
<1> QED BY <1>6, OneGood DEF Ran, j

(* What a gdb runs is one of the commands its tool may send.               *)
LEMMA RunsAllowed ==
  ASSUME SessionInv, NEW c \in Calls, NEW cmd, Runs(c, cmd)
  PROVE  /\ Good(call[c]) /\ call[c].todo # <<>> /\ ~call[c].resumed
         /\ call[c].asks.tool # "serial" /\ cmd \in Allowed(call[c].asks)
<1>1. /\ Good(call[c]) /\ call[c].todo # <<>> /\ ~call[c].resumed
      /\ Head(call[c].todo) = cmd
  BY DEF SessionInv, Runs
<1>2. call[c].asks.tool # "serial" /\ call[c].todo \in Seq(Allowed(call[c].asks))
  BY <1>1 DEF Good, SetsOrGoes
<1>3. Head(call[c].todo) \in Allowed(call[c].asks)
  BY <1>1, <1>2, HeadTailProperties
<1> QED BY <1>1, <1>2, <1>3

(* What a gdb does keeps the invariant, and writes nothing to the guest.   *)
LEMMA GdbGood ==
  ASSUME SessionInv, NEW c \in Calls, GdbSteps(c)
  PROVE  SessionInv'
<1> DEFINE k == call[c]
           Records == call' \in [Calls -> Session] /\ \A d \in Calls : Good(call'[d])
           Stub == stub' \in Calls \cup {Free}
           Guest == guest' \in [on : BOOLEAN, halted : BOOLEAN, patched : {{}}]
<1>1. ASSUME Records, Stub, Guest, UNCHANGED <<killed, up, outside>> PROVE SessionInv'
  BY <1>1 DEF SessionInv
<1>2. k \in Session /\ Good(k) /\ stub \in Calls \cup {Free}
      /\ guest \in [on : BOOLEAN, halted : BOOLEAN, patched : {{}}]
  BY DEF SessionInv
<1>3. CASE Attach(c)
  <2>1. Good(k) /\ k.todo # <<>> /\ ~k.resumed /\ UNCHANGED <<killed, up, outside>>
    BY <1>3, RunsAllowed DEF Attach, Ran
  <2>2. Records
    <3>1. \E worked \in BOOLEAN : Ran(c, k, worked)
      BY <1>3 DEF Attach
    <3> QED BY <2>1, <3>1, RanGood
  <2>3. Stub /\ Guest
    BY <1>2, <1>3 DEF Attach
  <2> QED BY <1>1, <2>1, <2>2, <2>3
<1>4. CASE Break(c)
  <2> DEFINE j == [k EXCEPT !.table = {k.asks.location}]
  <2>1. /\ Good(k) /\ k.todo # <<>> /\ ~k.resumed /\ UNCHANGED <<guest, stub, killed, up, outside>>
        /\ k.asks.tool = "breakpoint_set"
    BY <1>4, RunsAllowed DEF Break, Ran, Allowed
  <2>2. k.asks.location \in Locations
    BY <1>2 DEF Session, Request
  <2>3. j \in Session
    BY <1>2, <2>2 DEF Session
  <2>4. /\ j.asks = k.asks /\ j.phase = k.phase /\ j.gdb = k.gdb /\ j.todo = k.todo
        /\ j.resumed = k.resumed /\ j.left = k.left /\ j.waited = k.waited /\ j.reply = k.reply
    BY <1>2 DEF Session
  <2> HIDE DEF j
  <2>5. Good(j) /\ j.todo # <<>> /\ ~j.resumed
    BY <2>1, <2>3, <2>4 DEF Good, Lives, SetsOrGoes, OnTime
  <2>6. Ran(c, j, TRUE) \/ Ran(c, k, FALSE)
    BY <1>4 DEF Break, j
  <2>7. Records
    BY <2>1, <2>5, <2>6, RanGood
  <2> QED BY <1>1, <1>2, <2>1, <2>7
<1>5. CASE Delete(c)
  <2> DEFINE j == [k EXCEPT !.table = {}]
  <2>1. /\ Good(k) /\ k.todo # <<>> /\ ~k.resumed /\ UNCHANGED <<guest, stub, killed, up, outside>>
    BY <1>5, RunsAllowed DEF Delete, Ran
  <2>2. j \in Session
    BY <1>2 DEF Session
  <2>3. /\ j.asks = k.asks /\ j.phase = k.phase /\ j.gdb = k.gdb /\ j.todo = k.todo
        /\ j.resumed = k.resumed /\ j.left = k.left /\ j.waited = k.waited /\ j.reply = k.reply /\ j.table = {}
    BY <1>2 DEF Session
  <2> HIDE DEF j
  <2>4. Good(j) /\ j.todo # <<>> /\ ~j.resumed
    BY <2>1, <2>2, <2>3 DEF Good, Lives, SetsOrGoes, OnTime
  <2>5. \E worked \in BOOLEAN : Ran(c, j, worked)
    <3>1. (k.asks.all \/ k.table # {}) \in BOOLEAN
      OBVIOUS
    <3>2. Ran(c, j, k.asks.all \/ k.table # {})
      BY <1>5 DEF Delete, j
    <3> QED BY <3>1, <3>2
  <2>6. Records
    BY <2>4, <2>5, RanGood
  <2> QED BY <1>1, <1>2, <2>1, <2>6
<1>6. CASE ListTable(c)
  <2> DEFINE j == [k EXCEPT !.listed = k.table]
  <2>1. /\ Good(k) /\ k.todo # <<>> /\ ~k.resumed /\ UNCHANGED <<guest, stub, killed, up, outside>>
    BY <1>6, RunsAllowed DEF ListTable, Ran
  <2>2. j \in Session
    BY <1>2 DEF Session
  <2>3. /\ j.asks = k.asks /\ j.phase = k.phase /\ j.gdb = k.gdb /\ j.todo = k.todo
        /\ j.resumed = k.resumed /\ j.left = k.left /\ j.waited = k.waited /\ j.reply = k.reply
        /\ j.table = k.table
    BY <1>2 DEF Session
  <2> HIDE DEF j
  <2>4. Good(j) /\ j.todo # <<>> /\ ~j.resumed
    BY <2>1, <2>2, <2>3 DEF Good, Lives, SetsOrGoes, OnTime
  <2>5. Ran(c, j, TRUE)
    BY <1>6 DEF ListTable, j
  <2>6. Records
    BY <2>4, <2>5, RanGood
  <2> QED BY <1>1, <1>2, <2>1, <2>6
<1>7. CASE Look(c)
  <2>1. /\ Good(k) /\ k.todo # <<>> /\ ~k.resumed /\ UNCHANGED <<guest, stub, killed, up, outside>>
        /\ \E worked \in BOOLEAN : Ran(c, k, worked)
    BY <1>7, RunsAllowed DEF Look, Ran
  <2>2. Records
    BY <2>1, RanGood
  <2> QED BY <1>1, <1>2, <2>1, <2>2
<1>8. CASE Continue(c)
  <2>1. Good(k) /\ k.todo # <<>> /\ ~k.resumed /\ k.asks.tool = "continue"
    BY <1>8, RunsAllowed DEF Continue, Allowed
  <2>2. k.table = {}
    BY <2>1 DEF Good, SetsOrGoes
  <2>3. CASE stub = c
    <3> DEFINE j == [k EXCEPT !.resumed = TRUE]
    <3>1. /\ call' = [call EXCEPT ![c].resumed = TRUE]
          /\ guest' = [guest EXCEPT !.halted = FALSE, !.patched = @ \cup k.table]
          /\ UNCHANGED <<stub, killed, up, outside>>
      BY <1>8, <2>3 DEF Continue
    <3>2. /\ j \in Session
          /\ j.asks = k.asks /\ j.phase = k.phase /\ j.gdb = k.gdb /\ j.todo = k.todo
          /\ j.left = k.left /\ j.waited = k.waited /\ j.reply = k.reply
          /\ j.table = k.table
      BY <1>2 DEF Session
    <3>3. call' = [call EXCEPT ![c] = j]
      BY <3>1
    <3> HIDE DEF j
    <3>4. Good(j)
      BY <1>2, <2>1, <3>2 DEF Good, Lives, SetsOrGoes, OnTime
    <3>5. Records
      BY <3>3, <3>4, OneGood
    <3>6. Guest
      BY <1>2, <2>2, <3>1
    <3> QED BY <1>1, <1>2, <3>1, <3>5, <3>6
  <2>4. CASE stub # c
    <3>1. Ran(c, k, FALSE) /\ UNCHANGED <<guest, stub, killed, up, outside>>
      BY <1>8, <2>4 DEF Continue, Ran
    <3>2. Records
      BY <2>1, <3>1, RanGood
    <3> QED BY <1>1, <1>2, <3>1, <3>2
  <2> QED BY <2>3, <2>4
<1>9. CASE Stops(c)
  <2> DEFINE j == [k EXCEPT !.resumed = FALSE]
  <2>1. guest.patched \cap k.table = {}
    BY <1>2
  <2>2. Ran(c, j, FALSE) /\ UNCHANGED <<guest, stub, killed, up, outside>> /\ k.resumed
    BY <1>9, <2>1 DEF Stops, Ran
  <2>3. /\ j \in Session
        /\ j.asks = k.asks /\ j.phase = k.phase /\ j.gdb = k.gdb /\ j.todo = k.todo
        /\ j.left = k.left /\ j.waited = k.waited /\ j.reply = k.reply
        /\ j.table = k.table /\ ~j.resumed
    BY <1>2 DEF Session
  <2> HIDE DEF j
  <2>4. Good(j) /\ j.todo # <<>>
    BY <1>2, <2>2, <2>3 DEF Good, Lives, SetsOrGoes, OnTime
  <2>5. Records
    BY <2>2, <2>3, <2>4, RanGood
  <2> QED BY <1>1, <1>2, <2>2, <2>5
<1>10. CASE Exit(c)
  <2>1. /\ k.gdb /\ LetGo(c) /\ UNCHANGED <<killed, up, outside>>
        /\ \E end \in Ends : Ended(c, end)
    BY <1>10 DEF Exit, Ends
  <2>2. Records
    BY <2>1, RepliesGood
  <2>3. Stub /\ Guest
    BY <1>2, <2>1 DEF LetGo
  <2> QED BY <1>1, <2>1, <2>2, <2>3
<1> QED BY <1>3, <1>4, <1>5, <1>6, <1>7, <1>8, <1>9, <1>10 DEF GdbSteps

(***************************************************************************)
(* The step of the invariant.                                              *)
(***************************************************************************)
LEMMA SessionStep == SessionInv /\ [Next]_vars => SessionInv'
<1> SUFFICES ASSUME SessionInv, [Next]_vars PROVE SessionInv'
  OBVIOUS
<1> DEFINE Records == call' \in [Calls -> Session] /\ \A d \in Calls : Good(call'[d])
<1>1. ASSUME Records, UNCHANGED <<guest, stub, killed, outside>>, up' \in BOOLEAN
      PROVE  SessionInv'
  BY <1>1 DEF SessionInv
<1>2. \A c \in Calls : call[c] \in Session /\ Good(call[c])
  BY DEF SessionInv
<1>3. up \in BOOLEAN /\ call \in [Calls -> Session]
  BY DEF SessionInv
<1>4. ASSUME NEW c \in Calls, Enter(c) PROVE SessionInv'
  <2>1. PICK r \in Request : call' = [call EXCEPT ![c] = Entered(r)]
    BY <1>4, SessionAssumption DEF Enter
  <2>2. SetSoFar \in SUBSET Locations
    BY <1>2 DEF SetSoFar, Session, Request
  <2>3. Good(Entered(r))
    <3>1. r.complete \in BOOLEAN
      BY DEF Request
    <3> QED BY <2>2, <3>1, FreshGood DEF Entered
  <2>4. Records
    BY <2>1, <2>3, OneGood
  <2> QED BY <1>1, <1>3, <1>4, <2>4 DEF Enter
<1>5. ASSUME NEW c \in Calls, Spawn(c) PROVE SessionInv'
  <2> DEFINE k == call[c]
             j == [k EXCEPT !.phase = "gdb", !.gdb = TRUE]
  <2>1. /\ j \in Session
        /\ j.asks = k.asks /\ j.phase = "gdb" /\ j.gdb /\ j.todo = k.todo
        /\ j.left = k.left /\ j.waited = k.waited /\ j.reply = k.reply
        /\ j.table = k.table /\ j.resumed = k.resumed
    BY <1>2 DEF Session, Phases
  <2>2. call' = [call EXCEPT ![c] = j] /\ UNCHANGED <<guest, stub, killed, up, outside>>
    BY <1>5 DEF Spawn
  <2> HIDE DEF j
  <2>3. Good(j)
    BY <1>2, <2>1 DEF Good, Lives, SetsOrGoes, OnTime
  <2>4. Records
    BY <2>2, <2>3, OneGood
  <2> QED BY <1>1, <1>3, <2>2, <2>4
<1>6. ASSUME NEW c \in Calls, SpawnFails(c) PROVE SessionInv'
  <2>1. Records
    BY <1>6, RepliesGood DEF SpawnFails
  <2> QED BY <1>1, <1>3, <1>6, <2>1 DEF SpawnFails
<1>7. ASSUME NEW c \in Calls, Kill(c) PROVE SessionInv'
  <2>1. call[c].gdb /\ Ended(c, "killed") /\ UNCHANGED <<up, outside>>
    BY <1>7 DEF Kill
  <2>2. Records
    BY <2>1, RepliesGood DEF Ends
  <2>3. /\ stub' \in Calls \cup {Free} /\ killed' \in BOOLEAN
        /\ guest' \in [on : BOOLEAN, halted : BOOLEAN, patched : {{}}]
    BY <1>7 DEF Kill, SessionInv
  <2> QED BY <2>1, <2>2, <2>3 DEF SessionInv
<1>8. ASSUME NEW c \in Calls, Dial(c) PROVE SessionInv'
  <2> DEFINE k == call[c]
             limit == Timeout(k.asks.timeout)
             j == [k EXCEPT !.phase = IF k.asks.send THEN "write" ELSE "read",
                            !.left = limit, !.waited = 0]
  <2>1. k.phase = "dial" /\ UNCHANGED <<guest, stub, killed, up, outside>>
    BY <1>8 DEF Dial
  <2>2. ASSUME call' = [call EXCEPT ![c] = j] PROVE Records
    <3>1. limit \in Nat
      BY <1>2, LimitIsNat
    <3>2. /\ j \in Session
          /\ j.asks = k.asks /\ j.phase \in {"write", "read"} /\ j.gdb = k.gdb
          /\ j.todo = k.todo /\ j.left = limit /\ j.waited = 0 /\ j.reply = k.reply
          /\ j.table = k.table /\ j.resumed = k.resumed
      BY <1>2, <3>1 DEF Session, Phases
    <3> HIDE DEF j
    <3>3. ~k.gdb
      BY <1>2, <2>1 DEF Good, Lives
    <3>4. Good(j)
      <4>1. Lives(j) /\ SetsOrGoes(j)
        BY <1>2, <3>2, <3>3 DEF Good, Lives, SetsOrGoes
      <4>2. k.reply = "none" /\ limit = Timeout(j.asks.timeout)
        BY <1>2, <2>1, <3>2 DEF Good, OnTime
      <4>3. OnTime(j)
        BY <3>1, <3>2, <4>2 DEF OnTime
      <4> QED BY <3>2, <4>1, <4>3 DEF Good
    <3> QED BY <2>2, <3>4, OneGood
  <2>3. \/ call' = [call EXCEPT ![c] = j]
        \/ Replies(c, k, "error")
    BY <1>8 DEF Dial
  <2>4. Records
    BY <2>2, <2>3, RepliesGood
  <2> QED BY <1>1, <1>3, <2>1, <2>4
<1>9. ASSUME NEW c \in Calls, Write(c) PROVE SessionInv'
  <2> DEFINE k == call[c]
             j == [k EXCEPT !.phase = "read"]
  <2>1. k.phase = "write" /\ UNCHANGED <<guest, stub, killed, up, outside>>
    BY <1>9 DEF Write
  <2>2. /\ j \in Session
        /\ j.asks = k.asks /\ j.phase = "read" /\ j.gdb = k.gdb /\ j.todo = k.todo
        /\ j.left = k.left /\ j.waited = k.waited /\ j.reply = k.reply
        /\ j.table = k.table /\ j.resumed = k.resumed
    BY <1>2 DEF Session, Phases
  <2>3. \/ call' = [call EXCEPT ![c] = j]
        \/ Replies(c, k, "error")
    BY <1>9 DEF Write
  <2> HIDE DEF j
  <2>4. Good(j)
    BY <1>2, <2>1, <2>2 DEF Good, Lives, SetsOrGoes, OnTime
  <2>5. Records
    BY <2>3, <2>4, OneGood, RepliesGood
  <2> QED BY <1>1, <1>3, <2>1, <2>5
<1>10. ASSUME NEW c \in Calls, Read(c) PROVE SessionInv'
  <2>1. Records
    BY <1>10, RepliesGood DEF Read
  <2> QED BY <1>1, <1>3, <1>10, <2>1 DEF Read
<1>11. ASSUME NEW c \in Calls, Tick(c) PROVE SessionInv'
  <2> DEFINE k == call[c]
             j == [k EXCEPT !.left = @ - 1, !.waited = @ + 1]
  <2>1. k.phase \in {"dial", "write", "read"} /\ k.left > 0
        /\ UNCHANGED <<guest, stub, killed, up, outside>>
    BY <1>11 DEF Tick
  <2>2. /\ k.left \in Nat /\ k.waited \in Nat
        /\ k.left - 1 \in Nat /\ k.waited + 1 \in Nat
    BY <1>2, <2>1 DEF Session
  <2>3. /\ j \in Session
        /\ j.asks = k.asks /\ j.phase = k.phase /\ j.gdb = k.gdb /\ j.todo = k.todo
        /\ j.left = k.left - 1 /\ j.waited = k.waited + 1 /\ j.reply = k.reply
        /\ j.table = k.table /\ j.resumed = k.resumed
    BY <1>2, <2>1, <2>2 DEF Session
  <2>4. call' = [call EXCEPT ![c] = j]
    BY <1>11 DEF Tick
  <2> HIDE DEF j
  <2>5. Good(j)
    <3>1. j.left + j.waited = k.left + k.waited
      BY <2>2, <2>3
    <3>2. k.reply # "silent"
      BY <1>2, <2>1 DEF Good, OnTime
    <3> QED BY <1>2, <2>3, <3>1, <3>2 DEF Good, Lives, SetsOrGoes, OnTime
  <2>6. Records
    BY <2>4, <2>5, OneGood
  <2> QED BY <1>1, <1>3, <2>1, <2>6
<1>12. ASSUME NEW c \in Calls, Cancel(c) PROVE SessionInv'
  <2> DEFINE k == call[c]
             j == [k EXCEPT !.cancelled = TRUE]
  <2>1. /\ j \in Session
        /\ j.asks = k.asks /\ j.phase = k.phase /\ j.gdb = k.gdb /\ j.todo = k.todo
        /\ j.left = k.left /\ j.waited = k.waited /\ j.reply = k.reply
        /\ j.table = k.table /\ j.resumed = k.resumed
    BY <1>2 DEF Session
  <2>2. call' = [call EXCEPT ![c] = j] /\ UNCHANGED <<guest, stub, killed, up, outside>>
    BY <1>12 DEF Cancel
  <2> HIDE DEF j
  <2>3. Good(j)
    BY <1>2, <2>1 DEF Good, Lives, SetsOrGoes, OnTime
  <2>4. Records
    BY <2>2, <2>3, OneGood
  <2> QED BY <1>1, <1>3, <2>2, <2>4
<1>13. ASSUME ServerStops PROVE SessionInv'
  <2>1. ASSUME NEW c \in Calls, Active(call[c])
        PROVE  Good([call[c] EXCEPT !.phase = "lost"])
    <3> DEFINE k == call[c]
               j == [k EXCEPT !.phase = "lost"]
    <3>1. /\ j \in Session
          /\ j.asks = k.asks /\ j.phase = "lost" /\ j.gdb = k.gdb /\ j.todo = k.todo
          /\ j.left = k.left /\ j.waited = k.waited /\ j.reply = k.reply
          /\ j.table = k.table /\ j.resumed = k.resumed
      BY <1>2 DEF Session, Phases
    <3> HIDE DEF j
    <3>2. Good(j)
      BY <1>2, <3>1 DEF Good, Lives, SetsOrGoes, OnTime
    <3> QED BY <3>2 DEF j
  <2>2. \A c \in Calls : Good(call'[c])
    BY <1>2, <1>13, <2>1 DEF ServerStops
  <2>3. Records
    BY <1>13, <2>2 DEF ServerStops, Good
  <2> QED BY <1>1, <1>13, <2>3 DEF ServerStops
<1>14. ASSUME Power PROVE SessionInv'
  <2>1. outside' \in 0..MaxOutside /\ UNCHANGED <<call, killed, up>> /\ stub' = Free
    BY <1>14, SessionAssumption DEF Power, SessionInv
  <2>2. guest' \in [on : BOOLEAN, halted : BOOLEAN, patched : {{}}]
    BY <1>14 DEF Power, SessionInv
  <2> QED BY <2>1, <2>2 DEF SessionInv
<1>15. CASE UNCHANGED vars
  BY <1>15 DEF vars, SessionInv
<1> QED BY <1>4, <1>5, <1>6, <1>7, <1>8, <1>9, <1>10, <1>11, <1>12, <1>13, <1>14,
           <1>15, GdbGood DEF Next

LEMMA SessionAlways == Spec => []SessionInv
<1> QED BY SessionInit, SessionStep, PTL DEF Spec

(***************************************************************************)
(* What follows.                                                           *)
(***************************************************************************)

(* Every reachable state has the types of its variables; no deadline is    *)
(* further away than a Duration reaches.                                   *)
THEOREM SessionTypeCorrect == Spec => []TypeOK
<1>1. SessionInv => TypeOK
  <2> SUFFICES ASSUME SessionInv PROVE TypeOK OBVIOUS
  <2>1. ASSUME NEW c \in Calls
        PROVE  call[c].left \in 0..Half /\ call[c].waited \in 0..2 * Half
    <3>1. Timeout(call[c].asks.timeout) \in 1..Half
      BY TimeoutFits DEF SessionInv, Session, Request
    <3>2. /\ call[c].left \in Nat /\ call[c].waited \in Nat
          /\ call[c].left + call[c].waited \in 0..Timeout(call[c].asks.timeout)
      BY DEF SessionInv, Session, Good, OnTime
    <3> QED BY <3>1, <3>2, DurationAssumption
  <2>2. guest \in [on : BOOLEAN, halted : BOOLEAN, patched : SUBSET Locations]
    BY DEF SessionInv
  <2>3. \A c \in Calls : call[c] \in Session /\ Lives(call[c])
    BY DEF SessionInv, Good
  <2> QED BY <2>1, <2>2, <2>3 DEF SessionInv, TypeOK, Session, Lives
<1> QED BY <1>1, SessionAlways, PTL

(* No call leaves a breakpoint in the guest's code, whichever are running, *)
(* cancelled or orphaned (extra_ops.go, the debugger's scripts).           *)
THEOREM SessionLeavesNoTrap == Spec => []NoTrapIsLeft
<1>1. SessionInv => NoTrapIsLeft
  BY DEF SessionInv, NoTrapIsLeft
<1> QED BY <1>1, SessionAlways, PTL

(* vm_debug_serial speaks of silence only after the whole time asked for,  *)
(* if that is positive and fits a Duration; for any other number, whose    *)
(* product may wrap to less, only after some time (extra_tools.go, the     *)
(* time-out; extra_ops.go, SetDeadline and the read).                      *)
THEOREM SessionSilence == Spec => []SilenceWasWaitedFor
<1>1. SessionInv => SilenceWasWaitedFor
  <2> SUFFICES ASSUME SessionInv, NEW c \in Calls, call[c].reply = "silent"
               PROVE  LET n == call[c].asks.timeout
                      IN  /\ call[c].waited > 0
                          /\ n > 0 /\ Fits(n) => call[c].waited = n * Second
    BY DEF SilenceWasWaitedFor
  <2>1. call[c].waited = Timeout(call[c].asks.timeout)
    BY DEF SessionInv, Good, OnTime
  <2>2. call[c].asks.timeout \in Int
    BY DEF SessionInv, Session, Request
  <2> QED BY <2>1, <2>2, TimeoutFits
<1> QED BY <1>1, SessionAlways, PTL

-----------------------------------------------------------------------------
(***************************************************************************)
(* That a call comes to its end: what is left of its script, a resumed     *)
(* command being half done, and what is left until its deadline.           *)
(***************************************************************************)
Stage(k) ==
  IF k.gdb THEN 4
  ELSE CASE k.phase = "spawn" -> 5
         [] k.phase = "dial" -> 3
         [] k.phase = "write" -> 2
         [] k.phase = "read" -> 1
         [] OTHER -> 0

Rest(k) == 2 * Len(k.todo) + k.left + (IF k.resumed THEN 0 ELSE 1)

Left(k) == <<Stage(k), Rest(k)>>

LEMMA StageFacts ==
  ASSUME NEW k
  PROVE  /\ k.gdb => Stage(k) = 4
         /\ ~k.gdb /\ k.phase = "spawn" => Stage(k) = 5
         /\ ~k.gdb /\ k.phase = "dial" => Stage(k) = 3
         /\ ~k.gdb /\ k.phase = "write" => Stage(k) = 2
         /\ ~k.gdb /\ k.phase = "read" => Stage(k) = 1
         /\ ~k.gdb /\ k.phase \in {"idle", "gdb", "answered", "lost"} => Stage(k) = 0
         /\ Stage(k) \in Nat
  BY DEF Stage

LEMMA LeftType ==
  ASSUME NEW k, k \in Session
  PROVE  Rest(k) \in Nat /\ Left(k) \in Rank
<1>1. Len(k.todo) \in Nat /\ k.left \in Nat
  BY DEF Session
<1>2. Rest(k) \in Nat
  BY <1>1 DEF Rest
<1> QED BY <1>2, StageFacts DEF Left, Rank

LEMMA LowerStage ==
  ASSUME NEW k, NEW j, Stage(j) < Stage(k)
  PROVE  Below(Left(j), Left(k))
  BY DEF Below, Left

LEMMA LessRest ==
  ASSUME NEW k, NEW j, Stage(j) = Stage(k), Rest(j) < Rest(k)
  PROVE  Below(Left(j), Left(k))
  BY DEF Below, Left

LEMMA SessionFacts ==
  ASSUME SessionInv, NEW c \in Calls
  PROVE  /\ call[c] \in Session /\ call[c].todo \in Seq(Commands)
         /\ Len(call[c].todo) \in Nat /\ call[c].left \in Nat
         /\ call[c].gdb => call[c].phase \in {"gdb", "lost"}
  BY DEF SessionInv, Good, Session, Lives

(* An answer, and the end of a gdb, leave nothing to do. *)
LEMMA RepliesDescends ==
  ASSUME SessionInv, NEW c \in Calls, NEW reply, Replies(c, call[c], reply)
  PROVE  Stage(call'[c]) = 0
<1>1. call[c] \in Session
  BY SessionFacts
<1>2. call'[c] = [Over(call[c]) EXCEPT !.phase = "answered", !.reply = reply]
  BY DEF Replies, SessionInv
<1>3. call'[c].phase = "answered" /\ call'[c].gdb = FALSE
  BY <1>1, <1>2 DEF Over, Session
<1> QED BY <1>3, StageFacts

LEMMA EndedDescends ==
  ASSUME SessionInv, NEW c \in Calls, NEW end, call[c].gdb, Ended(c, end)
  PROVE  Below(Left(call'[c]), Left(call[c]))
<1>1. call[c] \in Session /\ call[c].phase \in {"gdb", "lost"}
  BY SessionFacts
<1>2. Stage(call'[c]) = 0
  <2>1. CASE call[c].phase = "gdb"
    BY <2>1, RepliesDescends DEF Ended
  <2>2. CASE call[c].phase = "lost"
    <3>1. call'[c] = Over(call[c])
      BY <2>2 DEF Ended, SessionInv
    <3>2. call'[c].phase = "lost" /\ call'[c].gdb = FALSE
      BY <1>1, <2>2, <3>1 DEF Over, Session
    <3> QED BY <3>2, StageFacts
  <2> QED BY <1>1, <2>1, <2>2
<1>3. Stage(call[c]) = 4
  BY StageFacts
<1>4. Stage(call'[c]) < Stage(call[c])
  BY <1>2, <1>3
<1> QED BY <1>4, LowerStage

(* A command that was run is out of the script. *)
LEMMA RanDescends ==
  ASSUME SessionInv, NEW c \in Calls, call[c].todo # <<>>,
         NEW h \in Session, NEW worked, Ran(c, h, worked),
         h.gdb = call[c].gdb, h.phase = call[c].phase, h.todo = call[c].todo,
         h.left = call[c].left
  PROVE  Below(Left(call'[c]), Left(call[c]))
<1> DEFINE k == call[c]
           j == call'[c]
<1>1. /\ k \in Session /\ k.todo \in Seq(Commands) /\ Len(k.todo) \in Nat /\ k.left \in Nat
  BY SessionFacts
<1>2. j = [h EXCEPT !.todo = Tail(h.todo), !.worked = worked]
  BY DEF Ran, SessionInv
<1>3. j.gdb = k.gdb /\ j.phase = k.phase /\ j.left = k.left /\ j.todo = Tail(k.todo)
  BY <1>2 DEF Session
<1>4. Len(Tail(k.todo)) = Len(k.todo) - 1
  BY <1>1, HeadTailProperties
<1>5. Stage(j) = Stage(k)
  BY <1>3 DEF Stage
<1>6. /\ Rest(j) = 2 * (Len(k.todo) - 1) + k.left + (IF j.resumed THEN 0 ELSE 1)
      /\ Rest(k) = 2 * Len(k.todo) + k.left + (IF k.resumed THEN 0 ELSE 1)
  BY <1>3, <1>4 DEF Rest
<1>7. \A m \in Nat, n \in Nat, a \in {0, 1}, b \in {0, 1} :
        2 * (m - 1) + n + a < 2 * m + n + b
  OBVIOUS
<1>8. Rest(j) < Rest(k)
  BY <1>1, <1>6, <1>7
<1> QED BY <1>5, <1>8, LessRest

GoesAhead(c) ==
  \/ Spawn(c) \/ SpawnFails(c) \/ GdbSteps(c) \/ Kill(c)
  \/ Dial(c) \/ Write(c) \/ Read(c) \/ Tick(c)

LEMMA OwnStepDescends ==
  ASSUME SessionInv, NEW c \in Calls, GoesAhead(c)
  PROVE  Below(Left(call'[c]), Left(call[c]))
<1> DEFINE k == call[c]
           j == call'[c]
<1>1. /\ k \in Session /\ k.todo \in Seq(Commands) /\ Len(k.todo) \in Nat
      /\ k.left \in Nat
      /\ k.gdb => k.phase \in {"gdb", "lost"}
  BY SessionFacts
<1>2. ASSUME Stage(j) < Stage(k) PROVE Below(Left(j), Left(k))
  BY <1>2, LowerStage
<1>3. ASSUME NEW reply, Replies(c, k, reply),
             k.phase \in {"spawn", "dial", "write", "read"}
      PROVE  Below(Left(j), Left(k))
  <2>1. Stage(j) = 0
    BY <1>3, RepliesDescends
  <2>2. Stage(k) > 0
    BY <1>1, <1>3, StageFacts
  <2>3. Stage(j) < Stage(k)
    BY <2>1, <2>2
  <2> QED BY <1>2, <2>3
<1>4. ASSUME NEW h \in Session, NEW worked, Ran(c, h, worked), k.todo # <<>>,
             h.gdb = k.gdb, h.phase = k.phase, h.todo = k.todo, h.left = k.left
      PROVE  Below(Left(j), Left(k))
  BY <1>4, RanDescends
<1>5. \A T \in SUBSET Locations :
        \A h \in {[k EXCEPT !.table = T], [k EXCEPT !.listed = T],
                  [k EXCEPT !.resumed = FALSE], k} :
          h \in Session /\ h.gdb = k.gdb /\ h.phase = k.phase /\ h.todo = k.todo
          /\ h.left = k.left
  <2>1. ASSUME NEW T \in SUBSET Locations
        PROVE  LET h == [k EXCEPT !.table = T]
               IN  /\ h \in Session /\ h.gdb = k.gdb /\ h.phase = k.phase
                   /\ h.todo = k.todo /\ h.left = k.left
    BY <1>1 DEF Session
  <2>2. ASSUME NEW T \in SUBSET Locations
        PROVE  LET h == [k EXCEPT !.listed = T]
               IN  /\ h \in Session /\ h.gdb = k.gdb /\ h.phase = k.phase
                   /\ h.todo = k.todo /\ h.left = k.left
    BY <1>1 DEF Session
  <2>3. LET h == [k EXCEPT !.resumed = FALSE]
        IN  /\ h \in Session /\ h.gdb = k.gdb /\ h.phase = k.phase
            /\ h.todo = k.todo /\ h.left = k.left
    BY <1>1 DEF Session
  <2> QED BY <1>1, <2>1, <2>2, <2>3
<1>6. k.asks.location \in Locations /\ k.table \in SUBSET Locations
  <2>1. k.asks \in Request
    BY <1>1 DEF Session
  <2> QED BY <1>1, <2>1 DEF Session, Request
<1>7. CASE Spawn(c)
  <2>1. k.phase = "spawn" /\ ~k.gdb
    BY <1>1, <1>7 DEF Spawn
  <2>2. j = [[k EXCEPT !.phase = "gdb"] EXCEPT !.gdb = TRUE]
    BY <1>7 DEF Spawn, SessionInv
  <2>3. j.gdb
    BY <1>1, <2>2 DEF Session
  <2>4. Stage(j) < Stage(k)
    BY <2>1, <2>3, StageFacts
  <2> QED BY <1>2, <2>4
<1>8. CASE SpawnFails(c)
  BY <1>3, <1>8 DEF SpawnFails
<1>9. CASE Attach(c)
  BY <1>4, <1>5, <1>6, <1>9 DEF Attach, Runs
<1>10. CASE Break(c)
  <2>1. {k.asks.location} \in SUBSET Locations
    BY <1>6
  <2> QED BY <1>4, <1>5, <1>10, <2>1 DEF Break, Runs
<1>11. CASE Delete(c)
  <2>1. {} \in SUBSET Locations
    OBVIOUS
  <2> QED BY <1>4, <1>5, <1>11, <2>1 DEF Delete, Runs
<1>12. CASE ListTable(c)
  BY <1>4, <1>5, <1>6, <1>12 DEF ListTable, Runs
<1>13. CASE Look(c)
  BY <1>4, <1>5, <1>6, <1>13 DEF Look, Runs
<1>14. CASE Continue(c)
  <2>1. k.todo # <<>> /\ ~k.resumed
    BY <1>14 DEF Continue, Runs
  <2>2. CASE call' = [call EXCEPT ![c].resumed = TRUE]
    <3>1. j = [k EXCEPT !.resumed = TRUE]
      BY <2>2 DEF SessionInv
    <3>2. /\ j.gdb = k.gdb /\ j.phase = k.phase /\ j.todo = k.todo /\ j.left = k.left
          /\ j.resumed
      BY <1>1, <3>1 DEF Session
    <3>3. Stage(j) = Stage(k)
      BY <3>2 DEF Stage
    <3>4. /\ Rest(j) = 2 * Len(k.todo) + k.left
          /\ Rest(k) = 2 * Len(k.todo) + k.left + 1
      BY <1>1, <2>1, <3>2 DEF Rest
    <3>5. Rest(j) < Rest(k)
      BY <1>1, <3>4
    <3> QED BY <3>3, <3>5, LessRest
  <2>3. CASE Ran(c, k, FALSE)
    BY <1>4, <1>5, <1>6, <2>1, <2>3
  <2> QED BY <1>14, <2>2, <2>3 DEF Continue
<1>15. CASE Stops(c)
  <2>1. k.todo # <<>>
    BY <1>15 DEF Stops, SessionInv, Good, SetsOrGoes
  <2>2. \E worked : Ran(c, [k EXCEPT !.resumed = FALSE], worked)
    BY <1>15 DEF Stops
  <2> QED BY <1>4, <1>5, <1>6, <2>1, <2>2
<1>16. CASE Exit(c)
  BY <1>16, EndedDescends DEF Exit
<1>17. CASE Kill(c)
  BY <1>17, EndedDescends DEF Kill
<1>18. CASE Dial(c)
  <2>1. k.phase = "dial" /\ ~k.gdb
    BY <1>1, <1>18 DEF Dial
  <2>2. CASE Replies(c, k, "error")
    BY <1>3, <2>1, <2>2
  <2>3. CASE ~Replies(c, k, "error")
    <3>1. PICK p \in {"write", "read"} :
            j = [[[k EXCEPT !.phase = p] EXCEPT !.left = Timeout(k.asks.timeout)]
                   EXCEPT !.waited = 0]
      BY <1>18, <2>3 DEF Dial, SessionInv
    <3>2. j.phase = p /\ j.gdb = k.gdb
      BY <1>1, <3>1 DEF Session
    <3>3. Stage(j) < Stage(k)
      BY <2>1, <3>2, StageFacts
    <3> QED BY <1>2, <3>3
  <2> QED BY <2>2, <2>3
<1>19. CASE Write(c)
  <2>1. k.phase = "write" /\ ~k.gdb
    BY <1>1, <1>19 DEF Write
  <2>2. CASE Replies(c, k, "error")
    BY <1>3, <2>1, <2>2
  <2>3. CASE ~Replies(c, k, "error")
    <3>1. j = [k EXCEPT !.phase = "read"]
      BY <1>19, <2>3 DEF Write, SessionInv
    <3>2. j.phase = "read" /\ j.gdb = k.gdb
      BY <1>1, <3>1 DEF Session
    <3>3. Stage(j) < Stage(k)
      BY <2>1, <3>2, StageFacts
    <3> QED BY <1>2, <3>3
  <2> QED BY <2>2, <2>3
<1>20. CASE Read(c)
  BY <1>3, <1>20 DEF Read
<1>21. CASE Tick(c)
  <2>1. j = [[k EXCEPT !.left = k.left - 1] EXCEPT !.waited = k.waited + 1] /\ k.left > 0
    BY <1>21 DEF Tick, SessionInv
  <2>2. /\ j.gdb = k.gdb /\ j.phase = k.phase /\ j.todo = k.todo /\ j.left = k.left - 1
        /\ j.resumed = k.resumed
    BY <1>1, <2>1 DEF Session
  <2>3. Stage(j) = Stage(k)
    BY <2>2 DEF Stage
  <2>4. /\ Rest(j) = 2 * Len(k.todo) + (k.left - 1) + (IF k.resumed THEN 0 ELSE 1)
        /\ Rest(k) = 2 * Len(k.todo) + k.left + (IF k.resumed THEN 0 ELSE 1)
    BY <2>2 DEF Rest
  <2>5. Rest(j) < Rest(k)
    BY <1>1, <2>4
  <2> QED BY <2>3, <2>5, LessRest
<1> QED BY <1>7, <1>8, <1>9, <1>10, <1>11, <1>12, <1>13, <1>14, <1>15, <1>16, <1>17, <1>18,
           <1>19, <1>20, <1>21 DEF GoesAhead, GdbSteps

(* What anybody else does leaves a call what it has to do, or ends it. *)
LEMMA OthersLeaveRank ==
  ASSUME SessionInv, [Next]_vars, NEW c \in Calls, call[c].phase # "idle", ~GoesAhead(c)
  PROVE  Left(call'[c]) = Left(call[c]) \/ Below(Left(call'[c]), Left(call[c]))
<1> DEFINE k == call[c]
<1>0. k \in Session /\ (k.gdb => k.phase \in {"gdb", "lost"})
  BY SessionFacts
<1>1. ASSUME NEW d \in Calls, Enter(d) \/ GoesAhead(d) \/ Cancel(d), d # c
      PROVE  call'[c] = k
  BY <1>1 DEF Enter, GoesAhead, Spawn, SpawnFails, GdbSteps, Attach, Break, Delete,
              ListTable, Look, Continue, Stops, Exit, Kill, Ended, Ran, Replies, Dial,
              Write, Read, Tick, Cancel, SessionInv
<1>2. ~Enter(c)
  BY DEF Enter
<1>3. CASE Cancel(c)
  <2>1. call'[c] = [k EXCEPT !.cancelled = TRUE]
    BY <1>3 DEF Cancel, SessionInv
  <2>2. /\ call'[c].phase = k.phase /\ call'[c].gdb = k.gdb /\ call'[c].todo = k.todo
        /\ call'[c].left = k.left /\ call'[c].resumed = k.resumed
    BY <1>0, <2>1 DEF Session
  <2> QED BY <2>2 DEF Left, Stage, Rest
<1>4. CASE ServerStops
  <2>1. CASE Active(k)
    <3>1. call'[c] = [k EXCEPT !.phase = "lost"]
      BY <1>4, <2>1 DEF ServerStops
    <3>2. /\ call'[c].phase = "lost" /\ call'[c].gdb = k.gdb /\ call'[c].todo = k.todo
          /\ call'[c].left = k.left /\ call'[c].resumed = k.resumed
      BY <1>0, <3>1 DEF Session
    <3>3. CASE k.gdb
      BY <3>2, <3>3 DEF Left, Stage, Rest
    <3>4. CASE ~k.gdb /\ k.phase # "gdb"
      <4>1. Stage(call'[c]) = 0 /\ Stage(k) > 0
        BY <2>1, <3>2, <3>4, StageFacts DEF Active
      <4>2. Stage(call'[c]) < Stage(k)
        BY <4>1
      <4> QED BY <4>2, LowerStage
    <3>5. CASE ~k.gdb /\ k.phase = "gdb"
      <4>1. Stage(call'[c]) = Stage(k)
        BY <3>2, <3>5, StageFacts
      <4>2. Rest(call'[c]) = Rest(k)
        BY <3>2 DEF Rest
      <4> QED BY <4>1, <4>2 DEF Left
    <3> QED BY <3>3, <3>4, <3>5
  <2>2. CASE ~Active(k)
    BY <1>4, <2>2 DEF ServerStops
  <2> QED BY <2>1, <2>2
<1>5. CASE Power
  BY <1>5 DEF Power
<1>6. CASE UNCHANGED vars
  BY <1>6 DEF vars
<1> QED BY <1>1, <1>2, <1>3, <1>4, <1>5, <1>6 DEF Next, GoesAhead

(***************************************************************************)
(* A gdb and a call on the serial line come to their end, also a gdb whose *)
(* server is gone: each of their steps lowers the rank of the call, and no *)
(* other call, no stop or start of the VM and no end of the server raises  *)
(* it, for any number of calls and any time-out on any width of a          *)
(* Duration.  What SessionsAreAnswered adds is that a next step is always  *)
(* possible and taken; of a continue the code does not ensure it.          *)
(***************************************************************************)
THEOREM SessionRunsDown ==
  Spec => /\ [](\A c \in Calls : Left(call[c]) \in Rank)
          /\ [][\A c \in Calls :
                  /\ GoesAhead(c) => Below(Left(call'[c]), Left(call[c]))
                  /\ call[c].phase # "idle" =>
                       \/ Left(call'[c]) = Left(call[c])
                       \/ Below(Left(call'[c]), Left(call[c]))]_vars
<1>1. SessionInv => \A c \in Calls : Left(call[c]) \in Rank
  BY LeftType DEF SessionInv
<1>2. ASSUME SessionInv, [Next]_vars, NEW c \in Calls
      PROVE  /\ GoesAhead(c) => Below(Left(call'[c]), Left(call[c]))
             /\ call[c].phase # "idle" =>
                  \/ Left(call'[c]) = Left(call[c])
                  \/ Below(Left(call'[c]), Left(call[c]))
  BY <1>2, OwnStepDescends, OthersLeaveRank
<1>3. SessionInv /\ [Next]_vars =>
        [\A c \in Calls :
           /\ GoesAhead(c) => Below(Left(call'[c]), Left(call[c]))
           /\ call[c].phase # "idle" =>
                \/ Left(call'[c]) = Left(call[c])
                \/ Below(Left(call'[c]), Left(call[c]))]_vars
  BY <1>2
<1> QED BY <1>1, <1>3, SessionAlways, PTL DEF Spec
=============================================================================
