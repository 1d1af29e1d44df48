------------------------- MODULE FileTransferProofs -------------------------
(***************************************************************************)
(* What FileTransfer guarantees for any number of transfers, paths and     *)
(* blocks, on both kinds of guest and under any faults.                    *)
(***************************************************************************)
EXTENDS FileTransfer, Ranks, SequenceTheorems, WellFoundedInduction, TLAPS

(***************************************************************************)
(* The inductive invariant.  Types alone are not inductive: that a chunk   *)
(* is a block needs the bound of the loop (XferOK), also for the commands  *)
(* that outlived their transfer (LateOK).  Delivery rests on who may touch *)
(* a temporary or a host file: two calls with one destination have both    *)
(* been marked (OverlapOK).                                                *)
(***************************************************************************)
XferOK(k) ==
  /\ k.pc \in {"readHost"} \cup GuestSteps => k.push
  /\ k.pc \in {"readGuest", "open", "write"} => ~k.push
  /\ k.sent <= Len(k.data)
  /\ k.pc = "append" => k.sent < Len(k.data)
  /\ k.pc = "decode" => k.sent = Len(k.data)
  /\ k.pc \in {"info", "readHost"} => k.sent = 0

LateOK(m, k) ==
  /\ k.push
  /\ k.pc \in {"answered", "lost"}
  /\ m.step = "append" => m.sent < Len(k.data)
  /\ m.step = "decode" => k.sent = Len(k.data)

OverlapOK(k, l) == Active(k) /\ Active(l) /\ SameTarget(k, l) => "overlap" \in k.trouble

PullOK(k, file) == k.pc = "write" /\ k.trouble = {} => file = <<>>

CopyInv ==
  /\ TypeOK
  /\ \A t \in Transfers : XferOK(xfer[t]) /\ PullOK(xfer[t], host[xfer[t].hp])
  /\ \A m \in late : LateOK(m, xfer[m.from])
  /\ \A s, t \in Transfers : s # t => OverlapOK(xfer[s], xfer[t])
  /\ TmpTracksLoop

-----------------------------------------------------------------------------
(* Files. *)

LEMMA TextType == ASSUME NEW f \in File PROVE Text(f) \in Seq(Blocks)
  BY DEF File, Text

LEMMA OriginalType ==
  ASSUME NEW p \in HostPaths \cup GuestPaths
  PROVE  Original(p) \in Seq(Blocks)
<1>1. Length[p] \in Nat
  BY TransferAssumption
<1>2. Original(p) \in [1..Length[p] -> Blocks]
  BY <1>1 DEF Original, Blocks
<1> QED BY <1>1, <1>2, SeqDef

LEMMA PrefixType ==
  ASSUME NEW s \in Seq(Blocks), NEW n \in 0..Len(s)
  PROVE  SubSeq(s, 1, n) \in Seq(Blocks)
  BY SubSeqProperties, ElementOfSeq

(* What a chunk loop has sent, extended by the next chunk. *)
LEMMA PrefixGrows ==
  ASSUME NEW s \in Seq(Blocks), NEW n \in Nat, n < Len(s)
  PROVE  Append(SubSeq(s, 1, n), s[n + 1]) = SubSeq(s, 1, n + 1)
<1>1. SubSeq(s, 1, n) \in Seq(Blocks) /\ SubSeq(s, 1, n + 1) \in Seq(Blocks)
  BY PrefixType, LenProperties
<1>2. Len(SubSeq(s, 1, n)) = n /\ Len(SubSeq(s, 1, n + 1)) = n + 1
  BY SubSeqProperties, ElementOfSeq, LenProperties
<1>3. \A i \in 1..n : SubSeq(s, 1, n)[i] = s[i]
  BY SubSeqProperties, ElementOfSeq, LenProperties
<1>4. \A i \in 1..(n + 1) : SubSeq(s, 1, n + 1)[i] = s[i]
  BY SubSeqProperties, ElementOfSeq, LenProperties
<1>5. s[n + 1] \in Blocks
  BY ElementOfSeq, LenProperties
<1>6. Append(SubSeq(s, 1, n), s[n + 1]) \in Seq(Blocks)
      /\ Len(Append(SubSeq(s, 1, n), s[n + 1])) = n + 1
  BY <1>1, <1>2, <1>5
<1>7. \A i \in 1..(n + 1) : Append(SubSeq(s, 1, n), s[n + 1])[i] = s[i]
  BY <1>1, <1>2, <1>3, <1>5
<1> QED BY <1>1, <1>2, <1>4, <1>6, <1>7, SeqEqual

-----------------------------------------------------------------------------
(* The initial states. *)

LEMMA CopyInvInit == Init => CopyInv
<1> SUFFICES ASSUME Init PROVE CopyInv OBVIOUS
<1> DEFINE h0 == CHOOSE h \in HostPaths : TRUE
           g0 == CHOOSE g \in GuestPaths : TRUE
           k0 == [Entered(TRUE, h0, g0, {}) EXCEPT !.pc = "idle"]
<1>1. h0 \in HostPaths /\ g0 \in GuestPaths
  BY TransferAssumption
<1>2. <<>> \in Seq(Blocks) /\ Len(<<>>) = 0
  OBVIOUS
<1> HIDE DEF h0, g0
<1>3. k0 \in Transfer /\ k0.pc = "idle" /\ k0.sent = 0 /\ k0.data = <<>>
  BY <1>1, <1>2 DEF Entered, Transfer
<1>4. \A t \in Transfers : xfer[t] = k0
  BY DEF Init, h0, g0
<1>5. TypeOK
  <2>1. xfer \in [Transfers -> Transfer]
    BY <1>3 DEF Init, h0, g0, k0
  <2>2. host \in [HostPaths -> Seq(Blocks)]
    BY OriginalType DEF Init
  <2>3. guest \in [GuestPaths -> File] /\ tmp \in [GuestPaths -> File]
    BY OriginalType DEF Init, File
  <2> QED BY <2>1, <2>2, <2>3 DEF Init, TypeOK
<1> HIDE DEF k0
<1>6. \A t \in Transfers : XferOK(xfer[t]) /\ PullOK(xfer[t], host[xfer[t].hp])
  BY <1>2, <1>3, <1>4 DEF XferOK, PullOK, GuestSteps
<1>7. TmpTracksLoop
  BY <1>3, <1>4 DEF TmpTracksLoop, TracksLoop
<1>8. \A s, t \in Transfers : OverlapOK(xfer[s], xfer[t])
  BY <1>3, <1>4 DEF OverlapOK, Active
<1> QED BY <1>5, <1>6, <1>7, <1>8 DEF CopyInv, Init

-----------------------------------------------------------------------------
(* Types. *)

(* What a guest command leaves in the guest has the type of a file. *)
LEMMA DoesType ==
  ASSUME TypeOK, NEW g \in GuestPaths, NEW step \in GuestSteps, NEW b,
         step = "append" => b \in Blocks, Does(step, g, b)
  PROVE  guest' \in [GuestPaths -> File] /\ tmp' \in [GuestPaths -> File]
<1>1. CASE SetUp(g)
  BY <1>1 DEF SetUp, TypeOK, File
<1>2. CASE step = "append" /\ AppendText(g, b)
  <2>1. tmp[TmpOf(g)] \in File
    BY DEF TypeOK, TmpOf
  <2>2. Append(Text(tmp[TmpOf(g)]), b) \in Seq(Blocks)
    BY <1>2, <2>1, TextType
  <2> QED BY <1>2, <2>2 DEF AppendText, TypeOK, File
<1>3. CASE DecodeText(g)
  BY <1>3 DEF DecodeText, TypeOK, File, TmpOf
<1> QED BY <1>1, <1>2, <1>3 DEF Does

LEMMA BreaksType ==
  ASSUME TypeOK, NEW g \in GuestPaths, DecodeBreaks(g)
  PROVE  guest' \in [GuestPaths -> File]
<1>1. Text(tmp[TmpOf(g)]) \in Seq(Blocks)
  BY TextType DEF TypeOK, TmpOf
<1>2. \A n \in 0..Len(Text(tmp[TmpOf(g)])) : SubSeq(Text(tmp[TmpOf(g)]), 1, n) \in File
  BY <1>1, PrefixType DEF File
<1> QED BY <1>2 DEF DecodeBreaks, TypeOK

(* A call that goes on or replies keeps its type and everything else. *)
LEMMA GoOnType ==
  ASSUME TypeOK, NEW t \in Transfers, NEW pc, NEW sent \in Nat,
         NEW trouble \in SUBSET Troubles,
         pc \in {"readHost", "readGuest", "append", "decode", "write"},
         GoOn(t, pc, sent, trouble)
  PROVE  xfer' \in [Transfers -> Transfer]
<1>1. Moved(xfer[t], pc, sent, trouble) \in Transfer
  BY DEF TypeOK, Transfer, CommandSteps, GuestSteps, Moved
<1> QED BY <1>1 DEF GoOn, TypeOK

LEMMA ReplyType ==
  ASSUME TypeOK, NEW t \in Transfers, NEW reply \in {"ok", "error"},
         NEW trouble \in SUBSET Troubles, Reply(t, reply, trouble)
  PROVE  xfer' \in [Transfers -> Transfer]
<1>1. Answered(xfer[t], reply, trouble) \in Transfer
  BY DEF TypeOK, Transfer, Answered
<1> QED BY <1>1 DEF Reply, TypeOK

LEMMA UnreportedType ==
  ASSUME NEW t, NEW end PROVE Unreported(t, end) \in SUBSET Troubles
  BY DEF Unreported, Troubles

(* The guest side of a push keeps the types. *)
LEMMA InGuestType ==
  ASSUME CopyInv, NEW t \in Transfers, NEW pc \in GuestSteps, NEW end,
         xfer[t].pc = pc, InGuest(t, pc, end)
  PROVE  /\ guest' \in [GuestPaths -> File] /\ tmp' \in [GuestPaths -> File]
         /\ late' \subseteq Command
<1>1. xfer[t] \in Transfer /\ XferOK(xfer[t])
  BY DEF CopyInv, TypeOK
<1>2. pc = "append" => Chunk(xfer[t]) \in Blocks
  <2> SUFFICES ASSUME pc = "append" PROVE Chunk(xfer[t]) \in Blocks OBVIOUS
  <2>1. xfer[t].sent \in Nat /\ xfer[t].data \in Seq(Blocks)
        /\ xfer[t].sent < Len(xfer[t].data)
    BY <1>1 DEF Transfer, XferOK
  <2> QED BY <2>1, ElementOfSeq, LenProperties DEF Chunk
<1>3. [from |-> t, step |-> pc, sent |-> xfer[t].sent] \in Command
  BY <1>1 DEF Command, Transfer
<1>4. xfer[t].gp \in GuestPaths
  BY <1>1 DEF Transfer
<1>5. CASE Does(pc, xfer[t].gp, Chunk(xfer[t])) /\ late' = late
  BY <1>2, <1>4, <1>5, DoesType DEF CopyInv, TypeOK
<1>6. CASE ~(Does(pc, xfer[t].gp, Chunk(xfer[t])) /\ late' = late)
  <2>1. guest' \in [GuestPaths -> File]
    BY <1>4, <1>6, BreaksType DEF InGuest, CopyInv, TypeOK
  <2>2. tmp' = tmp /\ late' \subseteq Command
    BY <1>3, <1>6 DEF InGuest, CopyInv, TypeOK
  <2> QED BY <2>1, <2>2 DEF CopyInv, TypeOK
<1> QED BY <1>5, <1>6

-----------------------------------------------------------------------------
(* Steps. *)

(***************************************************************************)
(* A step of transfer t changes only its own record, its own destination   *)
(* and its own temporary file, so it can only disturb calls that share     *)
(* them, and those are marked as overlapping.                              *)
(***************************************************************************)
LEMMA OwnStep ==
  ASSUME CopyInv, TypeOK', NEW t \in Transfers, NEW k \in Transfer,
         xfer' = [xfer EXCEPT ![t] = k],
         Active(xfer[t]), k.pc # "idle",
         k.push = xfer[t].push, k.hp = xfer[t].hp, k.gp = xfer[t].gp,
         xfer[t].trouble \subseteq k.trouble,
         XferOK(k), PullOK(k, host'[k.hp]), TracksLoop(k, tmp'[k.gp]),
         \A m \in late' : m \in late \/ (m.from = t /\ LateOK(m, k)),
         \A h \in HostPaths : host'[h] # host[h] => ~k.push /\ h = k.hp,
         \A g \in GuestPaths : tmp'[g] # tmp[g] => k.push /\ g = k.gp
  PROVE  CopyInv'
<1>1. \A s \in Transfers : xfer'[s] = IF s = t THEN k ELSE xfer[s]
  BY DEF CopyInv, TypeOK
<1>2. \A s \in Transfers : xfer[s] \in Transfer /\ xfer[s].hp \in HostPaths
                            /\ xfer[s].gp \in GuestPaths
  BY DEF CopyInv, TypeOK, Transfer
<1>3. \A s \in Transfers : s # t /\ Active(xfer[s]) /\ SameTarget(xfer[s], k)
        => xfer[s].trouble # {}
  BY <1>2 DEF CopyInv, OverlapOK, SameTarget, Transfer
<1>4. \A s \in Transfers : XferOK(xfer'[s])
  BY <1>1 DEF CopyInv
<1>5. ASSUME NEW s \in Transfers PROVE PullOK(xfer'[s], host'[xfer'[s].hp])
  <2>1. CASE s = t
    BY <1>1, <2>1
  <2>2. CASE s # t
    <3>1. PullOK(xfer[s], host[xfer[s].hp]) /\ XferOK(xfer[s])
      BY DEF CopyInv
    <3>2. xfer[s].pc = "write" => Active(xfer[s]) /\ ~xfer[s].push
      BY <3>1 DEF Active, XferOK
    <3>3. xfer[s].pc = "write" /\ host'[xfer[s].hp] # host[xfer[s].hp]
            => xfer[s].trouble # {}
      <4> SUFFICES ASSUME xfer[s].pc = "write",
                          host'[xfer[s].hp] # host[xfer[s].hp]
                   PROVE  xfer[s].trouble # {}
        OBVIOUS
      <4>1. ~xfer[s].push /\ ~k.push /\ xfer[s].hp = k.hp
        BY <1>2, <3>2
      <4>2. SameTarget(xfer[s], k)
        BY <1>2, <4>1 DEF SameTarget, Transfer
      <4> QED BY <1>3, <2>2, <3>2, <4>2
    <3>4. xfer'[s] = xfer[s]
      BY <1>1, <2>2
    <3> QED BY <3>1, <3>3, <3>4 DEF PullOK
  <2> QED BY <2>1, <2>2
<1>6. ASSUME NEW s \in Transfers PROVE TracksLoop(xfer'[s], tmp'[xfer'[s].gp])
  <2>1. CASE s = t
    BY <1>1, <2>1
  <2>2. CASE s # t
    <3>1. TracksLoop(xfer[s], tmp[xfer[s].gp])
      BY DEF CopyInv, TmpTracksLoop, TmpOf
    <3>2. xfer[s].pc \in {"append", "decode"} => Active(xfer[s])
      BY DEF Active
    <3>3. xfer[s].push /\ xfer[s].pc \in {"append", "decode"}
            /\ tmp'[xfer[s].gp] # tmp[xfer[s].gp] => xfer[s].trouble # {}
      <4> SUFFICES ASSUME xfer[s].push, xfer[s].pc \in {"append", "decode"},
                          tmp'[xfer[s].gp] # tmp[xfer[s].gp]
                   PROVE  xfer[s].trouble # {}
        OBVIOUS
      <4>1. k.push /\ xfer[s].gp = k.gp
        BY <1>2
      <4>2. SameTarget(xfer[s], k)
        BY <1>2, <4>1 DEF SameTarget, Transfer
      <4> QED BY <1>3, <2>2, <3>2, <4>2
    <3>4. xfer'[s] = xfer[s]
      BY <1>1, <2>2
    <3> QED BY <3>1, <3>3, <3>4 DEF TracksLoop
  <2> QED BY <2>1, <2>2
<1>7. ASSUME NEW m \in late' PROVE LateOK(m, xfer'[m.from])
  <2>1. CASE m \in late
    <3>1. LateOK(m, xfer[m.from]) /\ m.from \in Transfers
      BY <2>1 DEF CopyInv, TypeOK, Command
    <3> QED BY <1>1, <3>1 DEF LateOK, Active
  <2>2. CASE m.from = t /\ LateOK(m, k)
    BY <1>1, <2>2
  <2> QED BY <2>1, <2>2
<1>8. ASSUME NEW r \in Transfers, NEW s \in Transfers, r # s
      PROVE  OverlapOK(xfer'[r], xfer'[s])
  BY <1>1, <1>8 DEF CopyInv, OverlapOK, SameTarget
<1> QED BY <1>4, <1>5, <1>6, <1>7, <1>8 DEF CopyInv, TmpTracksLoop, TmpOf

(* Marking calls as troubled, or letting them be lost, only weakens what   *)
(* the invariant says of them.                                             *)
LEMMA WeakerRecord ==
  ASSUME NEW k \in Transfer, NEW l \in Transfer, NEW file, NEW text,
         l.push = k.push, l.hp = k.hp, l.gp = k.gp, l.data = k.data, l.sent = k.sent,
         k.trouble \subseteq l.trouble, l.pc = k.pc \/ l.pc = "lost",
         XferOK(k), PullOK(k, file), TracksLoop(k, text)
  PROVE  XferOK(l) /\ PullOK(l, file) /\ TracksLoop(l, text)
<1>1. l.trouble = {} => k.trouble = {}
  OBVIOUS
<1>2. XferOK(l)
  BY DEF XferOK, GuestSteps
<1>3. PullOK(l, file)
  BY <1>1 DEF PullOK
<1>4. TracksLoop(l, text)
  BY <1>1 DEF TracksLoop
<1> QED BY <1>2, <1>3, <1>4

(* What every step of an active call starts from. *)
LEMMA XferFacts ==
  ASSUME CopyInv, NEW t \in Transfers
  PROVE  /\ xfer[t] \in Transfer /\ XferOK(xfer[t])
         /\ PullOK(xfer[t], host[xfer[t].hp])
         /\ TracksLoop(xfer[t], tmp[xfer[t].gp])
         /\ xfer[t].sent \in Nat /\ xfer[t].data \in Seq(Blocks)
         /\ Len(xfer[t].data) \in Nat
         /\ xfer[t].gp \in GuestPaths /\ xfer[t].hp \in HostPaths
  BY DEF CopyInv, TypeOK, Transfer, TmpTracksLoop, TmpOf

(* A reply ends the call's obligations, whatever the step did at its own   *)
(* destination.                                                            *)
LEMMA ReplyStep ==
  ASSUME CopyInv, TypeOK', NEW t \in Transfers, NEW reply \in {"ok", "error"},
         NEW trouble \in SUBSET Troubles, Active(xfer[t]), Reply(t, reply, trouble),
         \A m \in late' :
           \/ m \in late
           \/ /\ m.from = t /\ xfer[t].push
              /\ m.step = "append" => m.sent < Len(xfer[t].data)
              /\ m.step = "decode" => xfer[t].sent = Len(xfer[t].data),
         \A h \in HostPaths : host'[h] # host[h] => ~xfer[t].push /\ h = xfer[t].hp,
         \A g \in GuestPaths : tmp'[g] # tmp[g] => xfer[t].push /\ g = xfer[t].gp
  PROVE  CopyInv'
<1> DEFINE k == Answered(xfer[t], reply, trouble)
<1>1. xfer[t] \in Transfer /\ XferOK(xfer[t])
  BY XferFacts
<1>2. k \in Transfer
  BY <1>1 DEF Answered, Transfer
<1>3. /\ k.push = xfer[t].push /\ k.hp = xfer[t].hp /\ k.gp = xfer[t].gp
      /\ k.data = xfer[t].data /\ k.sent = xfer[t].sent /\ k.pc = "answered"
      /\ xfer[t].trouble \subseteq k.trouble
  BY <1>1 DEF Answered, Transfer
<1>4. xfer' = [xfer EXCEPT ![t] = k]
  BY DEF Reply
<1> HIDE DEF k
<1>5. XferOK(k) /\ PullOK(k, host'[k.hp]) /\ TracksLoop(k, tmp'[k.gp])
  BY <1>1, <1>3 DEF XferOK, PullOK, TracksLoop, GuestSteps
<1>6. \A m \in late' : m \in late \/ (m.from = t /\ LateOK(m, k))
  BY <1>3 DEF LateOK
<1> QED BY <1>2, <1>3, <1>4, <1>5, <1>6, OwnStep

LEMMA SpawnStep == ASSUME CopyInv, NEW t \in Transfers, Spawn(t) PROVE CopyInv'
<1> DEFINE k == [xfer[t] EXCEPT !.running = TRUE]
<1>1. xfer[t] \in Transfer /\ XferOK(xfer[t])
  BY XferFacts
<1>2. /\ k \in Transfer /\ k.push = xfer[t].push /\ k.hp = xfer[t].hp
      /\ k.gp = xfer[t].gp /\ k.data = xfer[t].data /\ k.sent = xfer[t].sent
      /\ k.pc = xfer[t].pc /\ xfer[t].trouble \subseteq k.trouble
  BY <1>1 DEF Transfer
<1>3. xfer' = [xfer EXCEPT ![t] = k] /\ UNCHANGED <<host, guest, tmp, late, up>>
  BY DEF Spawn
<1>4. xfer[t].pc \in CommandSteps
  BY DEF Spawn
<1> HIDE DEF k
<1>5. TypeOK'
  BY <1>2, <1>3 DEF CopyInv, TypeOK
<1>6. XferOK(k) /\ PullOK(k, host'[k.hp]) /\ TracksLoop(k, tmp'[k.gp])
  BY <1>1, <1>2, <1>3, XferFacts, WeakerRecord
<1>7. Active(xfer[t]) /\ k.pc # "idle"
  BY <1>2, <1>4 DEF Active, CommandSteps, GuestSteps
<1> QED BY <1>2, <1>3, <1>5, <1>6, <1>7, OwnStep

LEMMA InfoStep == ASSUME CopyInv, NEW t \in Transfers, Info(t) PROVE CopyInv'
<1>1. xfer[t].pc = "info" /\ UNCHANGED <<host, guest, tmp, late, up>>
  BY DEF Info, Ends0
<1>2. Active(xfer[t])
  BY <1>1 DEF Active
<1>3. CASE Reply(t, "error", {})
  <2>1. TypeOK'
    BY <1>1, <1>3, ReplyType DEF CopyInv, TypeOK
  <2> QED BY <1>1, <1>2, <1>3, <2>1, ReplyStep
<1>4. CASE GoOn(t, IF xfer[t].push THEN "readHost" ELSE "readGuest", 0, {})
  <2> DEFINE pc == IF xfer[t].push THEN "readHost" ELSE "readGuest"
             k == Moved(xfer[t], pc, 0, {})
  <2>2. xfer[t] \in Transfer /\ XferOK(xfer[t])
    BY XferFacts
  <2>3. /\ k \in Transfer /\ k.push = xfer[t].push /\ k.hp = xfer[t].hp
        /\ k.gp = xfer[t].gp /\ k.data = xfer[t].data /\ k.sent = 0
        /\ k.pc = pc /\ xfer[t].trouble \subseteq k.trouble
    BY <2>2 DEF Moved, Transfer, CommandSteps
  <2>4. xfer' = [xfer EXCEPT ![t] = k]
    BY <1>4 DEF GoOn
  <2>5. pc # "write" /\ pc # "idle" /\ pc \notin {"append", "decode"}
        /\ (pc = "readHost" => xfer[t].push) /\ (pc = "readGuest" => ~xfer[t].push)
        /\ pc \in {"readHost", "readGuest"}
    OBVIOUS
  <2> HIDE DEF k, pc
  <2>1. TypeOK'
    BY <1>1, <2>3, <2>4 DEF CopyInv, TypeOK
  <2>6. XferOK(k) /\ PullOK(k, host'[k.hp]) /\ TracksLoop(k, tmp'[k.gp])
    BY <2>2, <2>3, <2>5 DEF XferOK, PullOK, TracksLoop, GuestSteps, Transfer
  <2> QED BY <1>1, <1>2, <2>1, <2>3, <2>4, <2>5, <2>6, OwnStep
<1> QED BY <1>3, <1>4 DEF Info

LEMMA ReadHostStep == ASSUME CopyInv, NEW t \in Transfers, ReadHost(t) PROVE CopyInv'
<1>1. xfer[t].pc = "readHost" /\ UNCHANGED <<host, guest, tmp, late, up>>
  BY DEF ReadHost
<1>2. Active(xfer[t])
  BY <1>1 DEF Active
<1>3. CASE Reply(t, "error", {})
  <2>1. TypeOK'
    BY <1>1, <1>3, ReplyType DEF CopyInv, TypeOK
  <2> QED BY <1>1, <1>2, <1>3, <2>1, ReplyStep
<1>4. CASE xfer' = [xfer EXCEPT ![t] =
                     [@ EXCEPT !.pc = "setup", !.data = host[xfer[t].hp]]]
  <2> DEFINE k == [xfer[t] EXCEPT !.pc = "setup", !.data = host[xfer[t].hp]]
  <2>1. xfer[t] \in Transfer /\ XferOK(xfer[t]) /\ host[xfer[t].hp] \in Seq(Blocks)
    BY XferFacts DEF CopyInv, TypeOK
  <2>2. /\ k \in Transfer /\ k.push = xfer[t].push /\ k.hp = xfer[t].hp
        /\ k.gp = xfer[t].gp /\ k.sent = xfer[t].sent /\ k.pc = "setup"
        /\ xfer[t].trouble \subseteq k.trouble
        /\ k.data \in Seq(Blocks)
    BY <2>1 DEF Transfer, CommandSteps, GuestSteps
  <2>3. xfer' = [xfer EXCEPT ![t] = k]
    BY <1>4
  <2> HIDE DEF k
  <2>4. TypeOK'
    BY <1>1, <2>2, <2>3 DEF CopyInv, TypeOK
  <2>5. XferOK(k) /\ PullOK(k, host'[k.hp]) /\ TracksLoop(k, tmp'[k.gp])
    BY <1>1, <2>1, <2>2 DEF XferOK, PullOK, TracksLoop, GuestSteps
  <2> QED BY <1>1, <1>2, <2>2, <2>3, <2>4, <2>5, OwnStep
<1> QED BY <1>3, <1>4 DEF ReadHost

(* The guest side of a push touches its own files only; a command left     *)
(* behind is the one the call was at.                                      *)
LEMMA InGuestOwn ==
  ASSUME CopyInv, NEW t \in Transfers, NEW pc \in GuestSteps, NEW end,
         xfer[t].pc = pc, InGuest(t, pc, end)
  PROVE  /\ \A g \in GuestPaths : tmp'[g] # tmp[g] => g = xfer[t].gp
         /\ xfer[t].push /\ Active(xfer[t])
         /\ \A m \in late' :
              \/ m \in late
              \/ /\ m.from = t /\ xfer[t].push
                 /\ m.step = "append" => m.sent < Len(xfer[t].data)
                 /\ m.step = "decode" => xfer[t].sent = Len(xfer[t].data)
<1>1. xfer[t] \in Transfer /\ XferOK(xfer[t])
  BY XferFacts
<1>2. xfer[t].push /\ Active(xfer[t])
  BY <1>1 DEF XferOK, Active, GuestSteps
<1>3. \A g \in GuestPaths : tmp'[g] # tmp[g] => g = xfer[t].gp
  BY DEF InGuest, Does, SetUp, AppendText, DecodeText, TmpOf, CopyInv, TypeOK
<1>4. late' = late \/ late' = late \cup {[from |-> t, step |-> pc, sent |-> xfer[t].sent]}
  BY DEF InGuest
<1> QED BY <1>1, <1>2, <1>3, <1>4 DEF XferOK

(* A step of the loop: on to the next chunk, or to the decode. *)
LEMMA LoopStep ==
  ASSUME CopyInv, TypeOK', NEW t \in Transfers, NEW sent \in Nat,
         NEW trouble \in SUBSET Troubles,
         xfer[t].pc \in {"setup", "append"},
         sent <= Len(xfer[t].data),
         GoOn(t, AfterChunks(xfer[t], sent), sent, trouble),
         host' = host,
         \A g \in GuestPaths : tmp'[g] # tmp[g] => g = xfer[t].gp,
         \A m \in late' : m \in late,
         xfer[t].trouble \cup trouble = {} =>
           tmp'[xfer[t].gp] = IF sent = 0 THEN Absent ELSE SubSeq(xfer[t].data, 1, sent)
  PROVE  CopyInv'
<1> DEFINE pc == AfterChunks(xfer[t], sent)
           k == Moved(xfer[t], pc, sent, trouble)
<1>1. xfer[t] \in Transfer /\ XferOK(xfer[t]) /\ Len(xfer[t].data) \in Nat
  BY XferFacts
<1>2. pc = IF sent < Len(xfer[t].data) THEN "append" ELSE "decode"
  BY DEF AfterChunks
<1> HIDE DEF pc
<1>3. /\ k \in Transfer /\ k.push = xfer[t].push /\ k.hp = xfer[t].hp
      /\ k.gp = xfer[t].gp /\ k.data = xfer[t].data /\ k.sent = sent
      /\ k.pc = pc /\ k.trouble = xfer[t].trouble \cup trouble
  BY <1>1, <1>2 DEF Moved, Transfer, CommandSteps, GuestSteps
<1>4. xfer' = [xfer EXCEPT ![t] = k]
  BY DEF GoOn, pc
<1> HIDE DEF k
<1>5. xfer[t].push /\ Active(xfer[t])
  BY <1>1 DEF XferOK, Active, GuestSteps
<1>6. XferOK(k)
  BY <1>1, <1>2, <1>3, <1>5 DEF XferOK, GuestSteps
<1>7. PullOK(k, host'[k.hp])
  BY <1>2, <1>3 DEF PullOK
<1>8. TracksLoop(k, tmp'[k.gp])
  BY <1>3 DEF TracksLoop
<1>9. k.pc # "idle"
  BY <1>2, <1>3
<1> QED BY <1>3, <1>4, <1>5, <1>6, <1>7, <1>8, <1>9, OwnStep

(* The ends after which ExecOS reports no error, told apart by trouble.    *)
LEMMA QuietEnds ==
  ASSUME TypeOK, NEW t \in Transfers, NEW end \in Ends, NEW pc, Ends0(t, pc, end),
         ExecErr(end, xfer[t].cancelled) = "nil"
  PROVE  /\ end \in {"exit0", "failed", "notStarted"}
         /\ end = "notStarted" => Unreported(t, end) = {"notStarted"}
<1>1. xfer[t].cancelled \in BOOLEAN
  BY DEF TypeOK, Transfer
<1>2. end # "exit0" => xfer[t].cancelled = FALSE
  BY <1>1 DEF ExecErr
<1>3. end # "notExecuted"
  BY <1>2 DEF ExecErr, LooksLikeExecFailure
<1>4. end # "killed"
  BY <1>2 DEF Ends0
<1> QED BY <1>2, <1>3, <1>4 DEF Ends, Unreported

LEMMA SetupStep == ASSUME CopyInv, NEW t \in Transfers, Setup(t) PROVE CopyInv'
<1>1. PICK end \in Ends :
        /\ Ends0(t, "setup", end)
        /\ InGuest(t, "setup", end)
        /\ IF ExecErr(end, xfer[t].cancelled) = "nil"
           THEN GoOn(t, AfterChunks(xfer[t], 0), 0,
                     Unreported(t, end) \cup IF end = "failed" THEN {"setup"} ELSE {})
           ELSE Reply(t, "error", {})
        /\ UNCHANGED <<host, up>>
  BY DEF Setup
<1>2. xfer[t].pc = "setup" /\ "setup" \in GuestSteps
  BY <1>1 DEF Ends0, GuestSteps
<1>3. /\ guest' \in [GuestPaths -> File] /\ tmp' \in [GuestPaths -> File]
      /\ late' \subseteq Command
  BY <1>1, <1>2, InGuestType
<1>4. CASE ExecErr(end, xfer[t].cancelled) # "nil"
  <2>1. Reply(t, "error", {})
    BY <1>1, <1>4
  <2>2. TypeOK'
    BY <1>1, <1>3, <2>1, ReplyType DEF CopyInv, TypeOK
  <2> QED BY <1>1, <1>2, <2>1, <2>2, InGuestOwn, ReplyStep
<1>5. CASE ExecErr(end, xfer[t].cancelled) = "nil"
  <2> DEFINE trouble == Unreported(t, end) \cup IF end = "failed" THEN {"setup"} ELSE {}
  <2>1. trouble \in SUBSET Troubles
    BY UnreportedType DEF Troubles
  <2>2. GoOn(t, AfterChunks(xfer[t], 0), 0, trouble)
    BY <1>1, <1>5
  <2>3. /\ end \in {"exit0", "failed", "notStarted"}
        /\ trouble = {} => end = "exit0"
    BY <1>1, <1>5, QuietEnds DEF CopyInv
  <2> HIDE DEF trouble
  <2>4. TypeOK'
    BY <1>1, <1>3, <2>1, <2>2, GoOnType DEF CopyInv, TypeOK, AfterChunks
  <2>5. late' = late
    BY <1>1, <2>3 DEF InGuest
  <2>6. trouble = {} => tmp'[xfer[t].gp] = Absent
    BY <1>1, <2>3, XferFacts DEF InGuest, Does, SetUp, TmpOf, CopyInv, TypeOK
  <2>7. 0 <= Len(xfer[t].data)
    BY XferFacts
  <2> QED BY <1>1, <1>2, <2>1, <2>2, <2>4, <2>5, <2>6, <2>7, InGuestOwn, LoopStep
<1> QED BY <1>4, <1>5

LEMMA AppendStep == ASSUME CopyInv, NEW t \in Transfers, AppendChunk(t) PROVE CopyInv'
<1>1. PICK end \in Ends :
        /\ Ends0(t, "append", end)
        /\ InGuest(t, "append", end)
        /\ IF ExecSucceeds(end, xfer[t].cancelled)
           THEN GoOn(t, AfterChunks(xfer[t], xfer[t].sent + 1), xfer[t].sent + 1,
                     Unreported(t, end))
           ELSE Reply(t, "error", {})
        /\ UNCHANGED <<host, up>>
  BY DEF AppendChunk
<1>2. xfer[t].pc = "append" /\ "append" \in GuestSteps
  BY <1>1 DEF Ends0, GuestSteps
<1>3. /\ guest' \in [GuestPaths -> File] /\ tmp' \in [GuestPaths -> File]
      /\ late' \subseteq Command
  BY <1>1, <1>2, InGuestType
<1>4. CASE ~ExecSucceeds(end, xfer[t].cancelled)
  <2>1. Reply(t, "error", {})
    BY <1>1, <1>4
  <2>2. TypeOK'
    BY <1>1, <1>3, <2>1, ReplyType DEF CopyInv, TypeOK
  <2> QED BY <1>1, <1>2, <2>1, <2>2, InGuestOwn, ReplyStep
<1>5. CASE ExecSucceeds(end, xfer[t].cancelled)
  <2> DEFINE trouble == Unreported(t, end)
             n == xfer[t].sent
             s == xfer[t].data
  <2>1. trouble \in SUBSET Troubles
    BY UnreportedType
  <2>2. GoOn(t, AfterChunks(xfer[t], n + 1), n + 1, trouble)
    BY <1>1, <1>5
  <2>3. /\ end \in {"exit0", "notStarted"}
        /\ trouble = {} => end = "exit0"
    BY <1>1, <1>5, QuietEnds DEF CopyInv, ExecSucceeds, ExitCodeZero
  <2> HIDE DEF trouble
  <2>4. /\ n \in Nat /\ s \in Seq(Blocks) /\ n < Len(s) /\ Len(s) \in Nat
        /\ xfer[t].gp \in GuestPaths /\ xfer[t].push
    BY <1>2, XferFacts DEF XferOK, GuestSteps
  <2>5. TypeOK'
    <3>1. AfterChunks(xfer[t], n + 1) \in {"append", "decode"} /\ n + 1 \in Nat
      BY <2>4 DEF AfterChunks
    <3> QED BY <1>1, <1>3, <2>1, <2>2, <3>1, GoOnType DEF CopyInv, TypeOK
  <2>6. late' = late
    BY <1>1, <2>3 DEF InGuest
  <2>7. ASSUME xfer[t].trouble \cup trouble = {}
        PROVE  tmp'[xfer[t].gp] = SubSeq(s, 1, n + 1)
    <3>1. tmp'[xfer[t].gp] = Append(Text(tmp[xfer[t].gp]), s[n + 1])
      BY <1>1, <2>3, <2>4, <2>7
         DEF InGuest, Does, AppendText, TmpOf, CopyInv, TypeOK, Chunk
    <3>2. tmp[xfer[t].gp] = IF n = 0 THEN Absent ELSE SubSeq(s, 1, n)
      BY <1>2, <2>4, <2>7, XferFacts DEF TracksLoop
    <3>3. Text(tmp[xfer[t].gp]) = SubSeq(s, 1, n)
      <4>1. SubSeq(s, 1, n) # Absent
        <5> HIDE DEF n, s
        <5>1. n \in 0..Len(s)
          BY <2>4
        <5>2. SubSeq(s, 1, n) \in Seq(Blocks)
          BY <2>4, <5>1, PrefixType
        <5> QED BY <5>2, TransferAssumption
      <4>2. n = 0 => SubSeq(s, 1, n) = <<>>
        BY SubSeqEmpty
      <4> QED BY <3>2, <4>1, <4>2 DEF Text
    <3> QED BY <2>4, <3>1, <3>3, PrefixGrows
  <2>8. n + 1 # 0 /\ n + 1 <= Len(s) /\ n + 1 \in Nat
    BY <2>4
  <2> HIDE DEF n, s
  <2>9. xfer[t].trouble \cup trouble = {} =>
          tmp'[xfer[t].gp] = IF n + 1 = 0 THEN Absent ELSE SubSeq(s, 1, n + 1)
    BY <2>7, <2>8
  <2> QED BY <1>1, <1>2, <2>1, <2>2, <2>5, <2>6, <2>8, <2>9, InGuestOwn, LoopStep DEF n, s
<1> QED BY <1>4, <1>5

LEMMA DecodeStep == ASSUME CopyInv, NEW t \in Transfers, Decode(t) PROVE CopyInv'
<1>1. xfer[t].pc = "decode" /\ "decode" \in GuestSteps /\ UNCHANGED <<host, up>>
  BY DEF Decode, Ends0, GuestSteps
<1>2. xfer[t].push /\ Active(xfer[t]) /\ xfer[t].gp \in GuestPaths
  BY <1>1, XferFacts DEF XferOK, Active
<1>3. CASE \E end \in Ends :
             /\ InGuest(t, "decode", end)
             /\ Reply(t, IF ExecSucceeds(end, xfer[t].cancelled) THEN "ok" ELSE "error",
                      Unreported(t, end))
  <2>1. PICK end \in Ends, reply \in {"ok", "error"} :
          InGuest(t, "decode", end) /\ Reply(t, reply, Unreported(t, end))
    BY <1>3
  <2>2. TypeOK'
    BY <1>1, <2>1, InGuestType, ReplyType, UnreportedType DEF CopyInv, TypeOK
  <2> QED BY <1>1, <1>2, <2>1, <2>2, InGuestOwn, ReplyStep, UnreportedType
<1>4. CASE /\ DecodeBreaks(xfer[t].gp) /\ Reply(t, "error", {})
           /\ UNCHANGED <<tmp, late>>
  <2>1. TypeOK'
    BY <1>1, <1>2, <1>4, BreaksType, ReplyType DEF CopyInv, TypeOK
  <2> QED BY <1>1, <1>2, <1>4, <2>1, ReplyStep
<1>5. CASE /\ DecodeBreaks(xfer[t].gp) /\ Reply(t, "ok", {"decode"}) /\ UNCHANGED late
           /\ tmp' = [tmp EXCEPT ![TmpOf(xfer[t].gp)] = Absent]
  <2>1. tmp' \in [GuestPaths -> File] /\ \A g \in GuestPaths : tmp'[g] # tmp[g] => g = xfer[t].gp
    BY <1>2, <1>5 DEF CopyInv, TypeOK, File, TmpOf
  <2>2. {"decode"} \in SUBSET Troubles
    BY DEF Troubles
  <2>3. TypeOK'
    BY <1>1, <1>2, <1>5, <2>1, <2>2, BreaksType, ReplyType DEF CopyInv, TypeOK
  <2> QED BY <1>1, <1>2, <1>5, <2>1, <2>2, <2>3, ReplyStep
<1> QED BY <1>3, <1>4, <1>5 DEF Decode

LEMMA ReadGuestStep == ASSUME CopyInv, NEW t \in Transfers, ReadGuest(t) PROVE CopyInv'
<1>1. xfer[t].pc = "readGuest" /\ UNCHANGED <<host, guest, tmp, late, up>>
  BY DEF ReadGuest, Ends0
<1>2. Active(xfer[t]) /\ xfer[t] \in Transfer /\ XferOK(xfer[t])
  BY <1>1, XferFacts DEF Active
<1>3. CASE Reply(t, "error", {})
  <2>1. TypeOK'
    BY <1>1, <1>3, ReplyType DEF CopyInv, TypeOK
  <2> QED BY <1>1, <1>2, <1>3, <2>1, ReplyStep
<1>4. CASE ~Reply(t, "error", {})
  <2>1. PICK end \in Ends :
          /\ end = "exit0" => guest[xfer[t].gp] # Absent
          /\ xfer' = [xfer EXCEPT ![t] =
               [Moved(xfer[t], "open", 0, Unreported(t, end)) EXCEPT
                  !.data = IF end = "exit0" THEN guest[xfer[t].gp] ELSE <<>>]]
    BY <1>4 DEF ReadGuest
  <2> DEFINE d == IF end = "exit0" THEN guest[xfer[t].gp] ELSE <<>>
             trouble == Unreported(t, end)
             k == [Moved(xfer[t], "open", 0, trouble) EXCEPT !.data = d]
  <2>2. d \in Seq(Blocks)
    BY <2>1, XferFacts DEF CopyInv, TypeOK, File
  <2>3. trouble \in SUBSET Troubles
    BY UnreportedType
  <2>4. xfer' = [xfer EXCEPT ![t] = k]
    BY <2>1
  <2> HIDE DEF d, trouble
  <2>5. /\ k \in Transfer /\ k.push = xfer[t].push /\ k.hp = xfer[t].hp
        /\ k.gp = xfer[t].gp /\ k.data = d /\ k.sent = 0 /\ k.pc = "open"
        /\ xfer[t].trouble \subseteq k.trouble
    BY <1>2, <2>2, <2>3 DEF Moved, Transfer, CommandSteps
  <2> HIDE DEF k
  <2>6. TypeOK'
    BY <1>1, <2>4, <2>5 DEF CopyInv, TypeOK
  <2>7. XferOK(k) /\ PullOK(k, host'[k.hp]) /\ TracksLoop(k, tmp'[k.gp])
    BY <1>1, <1>2, <2>2, <2>5 DEF XferOK, PullOK, TracksLoop, GuestSteps
  <2> QED BY <1>1, <1>2, <2>4, <2>5, <2>6, <2>7, OwnStep
<1> QED BY <1>3, <1>4

LEMMA OpenHostStep == ASSUME CopyInv, NEW t \in Transfers, OpenHost(t) PROVE CopyInv'
<1>1. xfer[t].pc = "open" /\ UNCHANGED <<guest, tmp, late, up>>
  BY DEF OpenHost
<1>2. Active(xfer[t]) /\ xfer[t] \in Transfer /\ XferOK(xfer[t]) /\ ~xfer[t].push
  BY <1>1, XferFacts DEF Active, XferOK
<1>3. CASE Reply(t, "error", {}) /\ UNCHANGED host
  <2>1. TypeOK'
    BY <1>1, <1>3, ReplyType DEF CopyInv, TypeOK
  <2> QED BY <1>1, <1>2, <1>3, <2>1, ReplyStep
<1>4. CASE GoOn(t, "write", 0, {}) /\ host' = [host EXCEPT ![xfer[t].hp] = <<>>]
  <2> DEFINE k == Moved(xfer[t], "write", 0, {})
  <2>1. /\ k \in Transfer /\ k.push = xfer[t].push /\ k.hp = xfer[t].hp
        /\ k.gp = xfer[t].gp /\ k.data = xfer[t].data /\ k.sent = 0 /\ k.pc = "write"
        /\ xfer[t].trouble \subseteq k.trouble
    BY <1>2 DEF Moved, Transfer
  <2>2. xfer' = [xfer EXCEPT ![t] = k]
    BY <1>4 DEF GoOn
  <2> HIDE DEF k
  <2>3. TypeOK'
    <3>1. <<>> \in Seq(Blocks) /\ host \in [HostPaths -> Seq(Blocks)]
      BY DEF CopyInv, TypeOK
    <3>2. host' \in [HostPaths -> Seq(Blocks)]
      BY <1>4, <3>1
    <3> QED BY <1>1, <2>1, <2>2, <3>2 DEF CopyInv, TypeOK
  <2>4. \A h \in HostPaths : host'[h] # host[h] => h = k.hp
    BY <1>4, <2>1 DEF CopyInv, TypeOK
  <2>5. host'[xfer[t].hp] = <<>>
    BY <1>4, XferFacts DEF CopyInv, TypeOK
  <2>7. PullOK(k, host'[k.hp])
    BY <2>1, <2>5 DEF PullOK
  <2>6. XferOK(k) /\ TracksLoop(k, tmp'[k.gp])
    BY <1>2, <2>1, XferFacts DEF XferOK, TracksLoop, GuestSteps
  <2> QED BY <1>1, <1>2, <2>1, <2>2, <2>3, <2>4, <2>6, <2>7, OwnStep
<1> QED BY <1>3, <1>4 DEF OpenHost

(* Writing over a file leaves a file; over the empty one, what was written. *)
LEMMA OverType ==
  ASSUME NEW file \in Seq(Blocks), NEW data \in Seq(Blocks), NEW n \in 0..Len(data)
  PROVE  /\ Over(file, data, n) \in Seq(Blocks)
         /\ file = <<>> => Over(file, data, Len(data)) = data
<1>1. SubSeq(data, 1, n) \in Seq(Blocks)
  BY PrefixType
<1>2. \A i \in (n + 1)..Len(file) : file[i] \in Blocks
  BY ElementOfSeq, LenProperties
<1>3. SubSeq(file, n + 1, Len(file)) \in Seq(Blocks)
  BY <1>2, SubSeqProperties, LenProperties
<1>4. SubSeq(data, 1, Len(data)) = data
  BY SubSeqFull
<1>5. SubSeq(<<>>, Len(data) + 1, 0) = <<>>
  BY SubSeqEmpty, LenProperties
<1>6. data \o <<>> = data
  BY ConcatEmptySeq
<1>7. SubSeq(data, 1, n) \o SubSeq(file, n + 1, Len(file)) \in Seq(Blocks)
  BY <1>1, <1>3, ConcatProperties
<1> QED BY <1>4, <1>5, <1>6, <1>7 DEF Over

LEMMA WriteHostStep == ASSUME CopyInv, NEW t \in Transfers, WriteHost(t) PROVE CopyInv'
<1>1. PICK n \in 0..Len(xfer[t].data), reply \in {"ok", "error"} :
        /\ xfer[t].pc = "write"
        /\ host' = [host EXCEPT ![xfer[t].hp] = Over(@, xfer[t].data, n)]
        /\ Reply(t, reply, {})
        /\ UNCHANGED <<guest, tmp, late, up>>
  BY DEF WriteHost
<1>2. Active(xfer[t]) /\ ~xfer[t].push
  BY <1>1, XferFacts DEF Active, XferOK
<1>3. host' \in [HostPaths -> Seq(Blocks)]
  BY <1>1, XferFacts, OverType DEF CopyInv, TypeOK
<1>4. TypeOK'
  BY <1>1, <1>3, ReplyType DEF CopyInv, TypeOK
<1>5. \A h \in HostPaths : host'[h] # host[h] => h = xfer[t].hp
  BY <1>1 DEF CopyInv, TypeOK
<1> QED BY <1>1, <1>2, <1>4, <1>5, ReplyStep

(* l is k with more trouble, or lost, or with another flag.                *)
Weaker(l, k) ==
  /\ l.push = k.push /\ l.hp = k.hp /\ l.gp = k.gp /\ l.data = k.data
  /\ l.sent = k.sent /\ k.trouble \subseteq l.trouble
  /\ l.pc = k.pc \/ (Active(k) /\ l.pc = "lost")

(***************************************************************************)
(* A step that only weakens records, leaves the host alone, and marks the  *)
(* pushes whose temporary file it touches.                                 *)
(***************************************************************************)
LEMMA WeakerStep ==
  ASSUME CopyInv, TypeOK', host' = host,
         \A s \in Transfers : Weaker(xfer'[s], xfer[s]),
         \A s \in Transfers : Active(xfer[s]) /\ xfer[s].push
           /\ tmp'[xfer[s].gp] # tmp[xfer[s].gp] => xfer'[s].trouble # {},
         \A m \in late' : m \in late \/ LateOK(m, xfer'[m.from])
  PROVE  CopyInv'
<1>1. \A s \in Transfers : xfer'[s] \in Transfer /\ xfer[s] \in Transfer
  BY DEF CopyInv, TypeOK
<1>2. ASSUME NEW s \in Transfers
      PROVE  XferOK(xfer'[s]) /\ PullOK(xfer'[s], host'[xfer'[s].hp])
  BY <1>1, XferFacts, WeakerRecord DEF Weaker
<1>3. ASSUME NEW s \in Transfers PROVE TracksLoop(xfer'[s], tmp'[xfer'[s].gp])
  <2>1. TracksLoop(xfer[s], tmp[xfer[s].gp])
    BY XferFacts
  <2>2. CASE tmp'[xfer[s].gp] = tmp[xfer[s].gp]
    <3>1. xfer'[s].trouble = {} => xfer[s].trouble = {}
      BY DEF Weaker
    <3>2. xfer'[s].pc \in {"append", "decode"} => xfer'[s].pc = xfer[s].pc
      BY DEF Weaker
    <3> QED BY <2>1, <2>2, <3>1, <3>2 DEF TracksLoop, Weaker
  <2>3. CASE tmp'[xfer[s].gp] # tmp[xfer[s].gp]
    BY <2>3 DEF TracksLoop, Active, Weaker
  <2> QED BY <2>2, <2>3
<1>4. ASSUME NEW m \in late' PROVE LateOK(m, xfer'[m.from])
  <2>1. CASE m \in late
    <3>1. LateOK(m, xfer[m.from]) /\ m.from \in Transfers
      BY <2>1 DEF CopyInv, TypeOK, Command
    <3>2. Weaker(xfer'[m.from], xfer[m.from])
      BY <3>1
    <3> QED BY <3>1, <3>2 DEF LateOK, Weaker
  <2> QED BY <2>1
<1>5. ASSUME NEW r \in Transfers, NEW s \in Transfers, r # s
      PROVE  OverlapOK(xfer'[r], xfer'[s])
  <2>1. OverlapOK(xfer[r], xfer[s]) /\ Weaker(xfer'[r], xfer[r]) /\ Weaker(xfer'[s], xfer[s])
    BY <1>5 DEF CopyInv
  <2> QED BY <2>1 DEF OverlapOK, SameTarget, Active, Weaker
<1> QED BY <1>2, <1>3, <1>4, <1>5 DEF CopyInv, TmpTracksLoop, TmpOf

(* Marking a call changes nothing else of it. *)
LEMMA TroubledType ==
  ASSUME NEW k \in Transfer, NEW what \in Troubles
  PROVE  LET l == Troubled(k, what)
         IN  /\ l \in Transfer /\ l.trouble = k.trouble \cup {what} /\ l.trouble # {}
             /\ l.push = k.push /\ l.hp = k.hp /\ l.gp = k.gp /\ l.pc = k.pc
             /\ l.data = k.data /\ l.sent = k.sent
  BY DEF Transfer, Troubled

LEMMA CancelStep == ASSUME CopyInv, NEW t \in Transfers, Cancel(t) PROVE CopyInv'
<1> DEFINE k == [xfer[t] EXCEPT !.cancelled = TRUE]
<1>1. k \in Transfer /\ Weaker(k, xfer[t])
  BY XferFacts DEF Transfer, Weaker
<1>2. xfer' = [xfer EXCEPT ![t] = k] /\ UNCHANGED <<host, guest, tmp, late, up>>
  BY DEF Cancel
<1> HIDE DEF k
<1>3. TypeOK'
  BY <1>1, <1>2 DEF CopyInv, TypeOK
<1>4. \A s \in Transfers : Weaker(xfer'[s], xfer[s])
  BY <1>1, <1>2 DEF CopyInv, TypeOK, Weaker
<1> QED BY <1>2, <1>3, <1>4, WeakerStep

LEMMA ServerStopsStep == ASSUME CopyInv, ServerStops PROVE CopyInv'
<1>1. PICK left \in SUBSET {t \in Transfers : xfer[t].running /\ xfer[t].pc \in GuestSteps} :
        late' = late \cup
          {[from |-> t, step |-> xfer[t].pc, sent |-> xfer[t].sent] : t \in left}
  BY DEF ServerStops
<1>2. \A t \in Transfers : xfer'[t] =
        IF Active(xfer[t]) THEN [xfer[t] EXCEPT !.pc = "lost"] ELSE xfer[t]
  BY DEF ServerStops
<1>3. ASSUME NEW t \in Transfers
      PROVE  xfer'[t] \in Transfer /\ Weaker(xfer'[t], xfer[t])
  <2>1. xfer[t] \in Transfer
    BY XferFacts
  <2>2. CASE Active(xfer[t])
    <3> DEFINE l == [xfer[t] EXCEPT !.pc = "lost"]
    <3>1. l \in Transfer /\ l.pc = "lost" /\ l.push = xfer[t].push /\ l.hp = xfer[t].hp
          /\ l.gp = xfer[t].gp /\ l.data = xfer[t].data /\ l.sent = xfer[t].sent
          /\ l.trouble = xfer[t].trouble
      BY <2>1 DEF Transfer
    <3>2. xfer'[t] = l
      BY <1>2, <2>2
    <3> QED BY <2>2, <3>1, <3>2 DEF Weaker
  <2>3. CASE ~Active(xfer[t])
    BY <1>2, <2>1, <2>3 DEF Weaker
  <2> QED BY <2>2, <2>3
<1>4. ASSUME NEW t \in left
      PROVE  LET m == [from |-> t, step |-> xfer[t].pc, sent |-> xfer[t].sent]
             IN  m \in Command /\ LateOK(m, xfer'[t])
  <2>1. xfer[t].pc \in GuestSteps /\ t \in Transfers
    OBVIOUS
  <2>2. xfer[t] \in Transfer /\ XferOK(xfer[t]) /\ xfer[t].sent \in Nat
    BY <2>1, XferFacts
  <2>3. Active(xfer[t])
    BY <2>1 DEF Active, GuestSteps
  <2>4. /\ xfer'[t].pc = "lost" /\ xfer'[t].push = xfer[t].push
        /\ xfer'[t].data = xfer[t].data /\ xfer'[t].sent = xfer[t].sent
    BY <1>2, <2>1, <2>2, <2>3 DEF Transfer
  <2> QED BY <2>1, <2>2, <2>4 DEF Command, LateOK, XferOK
<1>5. TypeOK'
  BY <1>1, <1>3, <1>4 DEF ServerStops, CopyInv, TypeOK
<1>6. \A m \in late' : m \in late \/ LateOK(m, xfer'[m.from])
  BY <1>1, <1>4
<1>7. UNCHANGED <<host, tmp>>
  BY DEF ServerStops
<1> QED BY <1>3, <1>5, <1>6, <1>7, WeakerStep

LEMMA ExecuteLateStep == ASSUME CopyInv, NEW m \in late, ExecuteLate(m) PROVE CopyInv'
<1> DEFINE k == xfer[m.from]
<1>1. m \in Command /\ LateOK(m, k) /\ m.from \in Transfers
  BY DEF CopyInv, TypeOK, Command
<1>2. k \in Transfer /\ k.gp \in GuestPaths /\ k.data \in Seq(Blocks)
  BY <1>1, XferFacts
<1>3. m.step = "append" => k.data[m.sent + 1] \in Blocks
  <2> SUFFICES ASSUME m.step = "append" PROVE k.data[m.sent + 1] \in Blocks OBVIOUS
  <2>1. m.sent \in Nat /\ m.sent < Len(k.data)
    BY <1>1 DEF LateOK, Command
  <2> QED BY <1>2, <2>1, ElementOfSeq, LenProperties
<1>4. \A t \in Transfers : xfer'[t] =
        IF Active(xfer[t]) /\ xfer[t].push /\ xfer[t].gp = k.gp
        THEN Troubled(xfer[t], "late") ELSE xfer[t]
  BY DEF ExecuteLate
<1>5. \/ Does(m.step, k.gp, k.data[m.sent + 1])
      \/ DecodeBreaks(k.gp) /\ UNCHANGED tmp
  BY DEF ExecuteLate
<1>6. late' \subseteq late /\ UNCHANGED <<host, up>>
  BY DEF ExecuteLate
<1> HIDE DEF k
<1>7. guest' \in [GuestPaths -> File] /\ tmp' \in [GuestPaths -> File]
  BY <1>1, <1>2, <1>3, <1>5, DoesType, BreaksType DEF CopyInv, TypeOK, Command
<1>8. ASSUME NEW t \in Transfers
      PROVE  xfer'[t] \in Transfer /\ Weaker(xfer'[t], xfer[t])
  <2>1. xfer[t] \in Transfer
    BY XferFacts
  <2>2. CASE xfer'[t] = Troubled(xfer[t], "late")
    BY <2>1, <2>2, TroubledType DEF Weaker, Troubles
  <2>3. CASE xfer'[t] = xfer[t]
    BY <2>1, <2>3 DEF Weaker
  <2> QED BY <1>4, <2>2, <2>3
<1>9. TypeOK'
  <2>1. xfer' \in [Transfers -> Transfer]
    BY <1>8 DEF ExecuteLate
  <2> QED BY <1>6, <1>7, <2>1 DEF CopyInv, TypeOK
<1>10. \A g \in GuestPaths : tmp'[g] # tmp[g] => g = k.gp
  BY <1>5 DEF Does, SetUp, AppendText, DecodeText, TmpOf, CopyInv, TypeOK
<1>11. \A t \in Transfers : Active(xfer[t]) /\ xfer[t].push
         /\ tmp'[xfer[t].gp] # tmp[xfer[t].gp] => xfer'[t].trouble # {}
  BY <1>4, <1>10, XferFacts, TroubledType DEF Troubles
<1> QED BY <1>6, <1>8, <1>9, <1>11, WeakerStep

LEMMA EnterStep == ASSUME CopyInv, NEW t \in Transfers, Enter(t) PROVE CopyInv'
<1>1. PICK push \in BOOLEAN, h \in HostPaths, g \in GuestPaths :
        LET k == Entered(push, h, g, {})
            met == {s \in Transfers : Active(xfer[s]) /\ SameTarget(xfer[s], k)}
        IN  /\ xfer[t].pc = "idle"
            /\ xfer' = [s \in Transfers |->
                 CASE s = t -> IF met = {} THEN k ELSE Entered(push, h, g, {"overlap"})
                   [] s \in met -> Troubled(xfer[s], "overlap")
                   [] OTHER -> xfer[s]]
            /\ UNCHANGED <<host, guest, tmp, late, up>>
  BY DEF Enter
<1> DEFINE k == Entered(push, h, g, {})
           met == {s \in Transfers : Active(xfer[s]) /\ SameTarget(xfer[s], k)}
           k1 == IF met = {} THEN k ELSE Entered(push, h, g, {"overlap"})
<1>2. /\ k1 \in Transfer /\ k1.push = push /\ k1.hp = h /\ k1.gp = g
      /\ k1.pc = "info" /\ k1.sent = 0 /\ k1.data = <<>>
      /\ met # {} => k1.trouble = {"overlap"}
  <2>1. <<>> \in Seq(Blocks) /\ {"overlap"} \in SUBSET Troubles /\ {} \in SUBSET Troubles
    BY DEF Troubles
  <2>2. \A tr \in {{}, {"overlap"}} : Entered(push, h, g, tr) \in Transfer
    BY <2>1 DEF Entered, Transfer, CommandSteps
  <2>3. k1 \in {Entered(push, h, g, {}), Entered(push, h, g, {"overlap"})}
        /\ (met # {} => k1 = Entered(push, h, g, {"overlap"}))
    OBVIOUS
  <2> QED BY <2>2, <2>3 DEF Entered
<1>3. k.push = push /\ k.hp = h /\ k.gp = g
  BY DEF Entered
<1>4. /\ xfer[t].pc = "idle" /\ UNCHANGED <<host, guest, tmp, late, up>>
      /\ xfer' = [s \in Transfers |->
                    CASE s = t -> k1
                      [] s \in met -> Troubled(xfer[s], "overlap")
                      [] OTHER -> xfer[s]]
  BY <1>1
<1>5. t \notin met
  BY <1>4 DEF Active
<1> HIDE DEF k1, k
<1>6. /\ xfer'[t] = k1
      /\ \A s \in met : xfer'[s] = Troubled(xfer[s], "overlap")
      /\ \A s \in Transfers \ {t} : s \notin met => xfer'[s] = xfer[s]
  BY <1>4, <1>5
<1>7. ASSUME NEW s \in Transfers, s # t
      PROVE  /\ xfer'[s] \in Transfer /\ Weaker(xfer'[s], xfer[s])
             /\ xfer'[s].pc = xfer[s].pc
             /\ s \in met => "overlap" \in xfer'[s].trouble
  <2>1. xfer[s] \in Transfer
    BY XferFacts
  <2>2. CASE s \in met
    BY <1>6, <2>1, <2>2, TroubledType DEF Weaker, Troubles
  <2>3. CASE s \notin met
    BY <1>6, <1>7, <2>1, <2>3 DEF Weaker
  <2> QED BY <2>2, <2>3
<1>8. TypeOK'
  <2>1. xfer' \in [Transfers -> Transfer]
    BY <1>2, <1>4, <1>6, <1>7
  <2> QED BY <1>4, <2>1 DEF CopyInv, TypeOK
<1>9. ASSUME NEW s \in Transfers
      PROVE  /\ XferOK(xfer'[s]) /\ PullOK(xfer'[s], host'[xfer'[s].hp])
             /\ TracksLoop(xfer'[s], tmp'[xfer'[s].gp])
  <2>1. CASE s = t
    BY <1>2, <1>6, <2>1, LenProperties DEF XferOK, PullOK, TracksLoop, GuestSteps
  <2>2. CASE s # t
    <3>1. Weaker(xfer'[s], xfer[s]) /\ xfer'[s] \in Transfer /\ xfer'[s].pc = xfer[s].pc
      BY <1>7, <2>2
    <3> QED BY <1>4, <3>1, XferFacts, WeakerRecord DEF Weaker
  <2> QED BY <2>1, <2>2
<1>10. ASSUME NEW m \in late' PROVE LateOK(m, xfer'[m.from])
  <2>1. LateOK(m, xfer[m.from]) /\ m.from \in Transfers
    BY <1>4 DEF CopyInv, TypeOK, Command
  <2>2. m.from # t
    BY <1>4, <2>1 DEF LateOK
  <2>3. Weaker(xfer'[m.from], xfer[m.from]) /\ xfer'[m.from].pc = xfer[m.from].pc
    BY <1>7, <2>1, <2>2
  <2> QED BY <2>1, <2>3 DEF LateOK, Weaker
<1>11. ASSUME NEW r \in Transfers, NEW s \in Transfers, r # s
       PROVE  OverlapOK(xfer'[r], xfer'[s])
  <2>1. CASE r # t /\ s # t
    <3>1. OverlapOK(xfer[r], xfer[s]) /\ Weaker(xfer'[r], xfer[r]) /\ Weaker(xfer'[s], xfer[s])
      BY <1>7, <1>11, <2>1 DEF CopyInv
    <3> QED BY <3>1 DEF OverlapOK, SameTarget, Active, Weaker
  <2>2. CASE r = t
    <3>1. Weaker(xfer'[s], xfer[s])
      BY <1>7, <1>11, <2>2
    <3>2. Active(xfer'[s]) /\ SameTarget(k1, xfer'[s]) => s \in met
      BY <1>2, <1>3, <3>1 DEF Active, SameTarget, Weaker
    <3> QED BY <1>2, <1>6, <2>2, <3>2 DEF OverlapOK
  <2>3. CASE s = t
    <3>1. Weaker(xfer'[r], xfer[r]) /\ (r \in met => "overlap" \in xfer'[r].trouble)
      BY <1>7, <1>11, <2>3
    <3>2. Active(xfer'[r]) /\ SameTarget(xfer'[r], k1) => r \in met
      BY <1>2, <1>3, <3>1 DEF Active, SameTarget, Weaker
    <3> QED BY <1>6, <2>3, <3>1, <3>2 DEF OverlapOK
  <2> QED BY <2>1, <2>2, <2>3
<1> QED BY <1>8, <1>9, <1>10, <1>11 DEF CopyInv, TmpTracksLoop, TmpOf

LEMMA CopyInvStep == CopyInv /\ [Next]_vars => CopyInv'
<1> SUFFICES ASSUME CopyInv, [Next]_vars PROVE CopyInv' OBVIOUS
<1>1. ASSUME NEW t \in Transfers, Step(t) PROVE CopyInv'
  BY <1>1, SpawnStep, InfoStep, ReadHostStep, SetupStep, AppendStep, DecodeStep,
     ReadGuestStep, OpenHostStep, WriteHostStep DEF Step
<1>2. CASE UNCHANGED vars
  BY <1>2 DEF vars, CopyInv, TypeOK, TmpTracksLoop, TracksLoop, XferOK, PullOK,
     LateOK, OverlapOK, Active, SameTarget
<1> QED BY <1>1, <1>2, EnterStep, CancelStep, ExecuteLateStep, ServerStopsStep DEF Next

-----------------------------------------------------------------------------
(* What single steps do to the destinations and the replies. *)

LEMMA DecodeDelivers ==
  ASSUME CopyInv, NEW t \in Transfers, Decode(t),
         xfer'[t].reply = "ok", xfer'[t].trouble = {}
  PROVE  /\ xfer[t].push /\ guest'[xfer[t].gp] = xfer[t].data
         /\ tmp'[TmpOf(xfer[t].gp)] = Absent
<1> DEFINE k == xfer[t]
<1>1. k \in Transfer /\ XferOK(k) /\ k.pc = "decode" /\ k.gp \in GuestPaths
  BY XferFacts DEF Decode, Ends0
<1>2. \A reply \in {"ok", "error"}, tr \in SUBSET Troubles : Reply(t, reply, tr) =>
        xfer'[t].reply = reply /\ xfer'[t].trouble = k.trouble \cup tr
  BY <1>1 DEF Reply, Answered, Transfer, CopyInv, TypeOK
<1>3. PICK end \in Ends :
        /\ Ends0(t, "decode", end) /\ InGuest(t, "decode", end)
        /\ Reply(t, IF ExecSucceeds(end, k.cancelled) THEN "ok" ELSE "error",
                 Unreported(t, end))
  <2>1. {} \in SUBSET Troubles /\ {"decode"} \in SUBSET Troubles
    BY DEF Troubles
  <2> QED BY <1>2, <2>1 DEF Decode
<1>4. ExecSucceeds(end, k.cancelled) /\ Unreported(t, end) = {} /\ k.trouble = {}
  BY <1>2, <1>3, UnreportedType
<1>5. end = "exit0"
  BY <1>3, <1>4, QuietEnds DEF CopyInv, ExecSucceeds, ExitCodeZero
<1>6. DecodeText(k.gp)
  BY <1>3, <1>5 DEF InGuest, Does
<1>7. k.push /\ k.sent = Len(k.data) /\ k.data \in Seq(Blocks)
  BY <1>1, XferFacts DEF XferOK, GuestSteps
<1>8. tmp[k.gp] = SubSeq(k.data, 1, Len(k.data))
  BY <1>1, <1>4, <1>6, <1>7, XferFacts DEF TracksLoop, DecodeText, TmpOf
<1>9. tmp[k.gp] = k.data
  BY <1>7, <1>8, SubSeqFull
<1> QED BY <1>1, <1>6, <1>7, <1>9 DEF DecodeText, TmpOf, CopyInv, TypeOK

LEMMA WriteDelivers ==
  ASSUME CopyInv, NEW t \in Transfers, WriteHost(t),
         xfer'[t].reply = "ok", xfer'[t].trouble = {}
  PROVE  ~xfer[t].push /\ host'[xfer[t].hp] = xfer[t].data
<1> DEFINE k == xfer[t]
<1>1. PICK n \in 0..Len(k.data), reply \in {"ok", "error"} :
        /\ k.pc = "write" /\ (reply = "ok" => n = Len(k.data))
        /\ host' = [host EXCEPT ![k.hp] = Over(@, k.data, n)]
        /\ Reply(t, reply, {})
  BY DEF WriteHost
<1>2. /\ k \in Transfer /\ k.hp \in HostPaths /\ k.data \in Seq(Blocks)
      /\ ~k.push /\ PullOK(k, host[k.hp])
  BY <1>1, XferFacts DEF XferOK
<1>3. reply = "ok" /\ k.trouble = {}
  BY <1>1, <1>2 DEF Reply, Answered, Transfer, CopyInv, TypeOK
<1>4. host'[k.hp] = Over(host[k.hp], k.data, Len(k.data)) /\ host[k.hp] = <<>>
  BY <1>1, <1>2, <1>3 DEF PullOK, CopyInv, TypeOK
<1>5. Len(k.data) \in 0..Len(k.data) /\ host[k.hp] \in Seq(Blocks)
  BY <1>2, LenProperties DEF CopyInv, TypeOK
<1> QED BY <1>2, <1>4, <1>5, OverType

(* No other step makes a reply one of success. *)
LEMMA OtherReplies ==
  ASSUME CopyInv, [Next]_vars, NEW s \in Transfers,
         xfer[s].reply # "ok", xfer'[s].reply = "ok"
  PROVE  Decode(s) \/ WriteHost(s)
<1>0. \A t \in Transfers : xfer[t] \in Transfer
  BY XferFacts
<1>1. \A t \in Transfers : \A reply, tr : Reply(t, reply, tr) =>
        (t = s => xfer'[s].reply = reply) /\ (t # s => xfer'[s] = xfer[s])
  BY <1>0 DEF Reply, Answered, Transfer, CopyInv, TypeOK
<1>2. \A t \in Transfers : \A pc, n, tr : GoOn(t, pc, n, tr) => xfer'[s].reply = xfer[s].reply
  BY <1>0 DEF GoOn, Moved, Transfer, CopyInv, TypeOK
<1> DEFINE same(t, k) == xfer' = [xfer EXCEPT ![t] = k] /\ k.reply = xfer[t].reply
<1>3. ASSUME NEW t \in Transfers, NEW k, same(t, k) PROVE FALSE
  BY <1>3 DEF CopyInv, TypeOK
<1>4. ASSUME NEW t \in Transfers,
             Spawn(t) \/ ReadHost(t) \/ Cancel(t) \/ Info(t) \/ Setup(t)
               \/ AppendChunk(t) \/ OpenHost(t)
      PROVE  FALSE
  <2>1. CASE Spawn(t)
    <3>1. same(t, [xfer[t] EXCEPT !.running = TRUE])
      BY <1>0, <2>1 DEF Spawn, Transfer
    <3> QED BY <1>3, <3>1
  <2>2. CASE ReadHost(t)
    <3>1. CASE Reply(t, "error", {})
      BY <1>1, <3>1
    <3>2. CASE ~Reply(t, "error", {})
      <4>1. same(t, [xfer[t] EXCEPT !.pc = "setup", !.data = host[xfer[t].hp]])
        BY <1>0, <2>2, <3>2 DEF ReadHost, Transfer
      <4> QED BY <1>3, <4>1
    <3> QED BY <3>1, <3>2
  <2>3. CASE Cancel(t)
    <3>1. same(t, [xfer[t] EXCEPT !.cancelled = TRUE])
      BY <1>0, <2>3 DEF Cancel, Transfer
    <3> QED BY <1>3, <3>1
  <2>4. ~Reply(t, "error", {}) /\ \A pc, n, tr : ~GoOn(t, pc, n, tr)
    BY <1>1, <1>2
  <2>5. CASE Info(t) \/ OpenHost(t)
    BY <2>4, <2>5 DEF Info, OpenHost
  <2>6. CASE Setup(t)
    BY <2>4, <2>6 DEF Setup
  <2>7. CASE AppendChunk(t)
    BY <2>4, <2>7 DEF AppendChunk
  <2> QED BY <1>4, <2>1, <2>2, <2>3, <2>5, <2>6, <2>7
<1>5. ASSUME NEW t \in Transfers, ReadGuest(t) PROVE FALSE
  <2>1. ~Reply(t, "error", {})
    BY <1>1
  <2>2. PICK end \in Ends :
          xfer' = [xfer EXCEPT ![t] =
            [Moved(xfer[t], "open", 0, Unreported(t, end)) EXCEPT
               !.data = IF end = "exit0" THEN guest[xfer[t].gp] ELSE <<>>]]
    BY <1>5, <2>1 DEF ReadGuest
  <2> DEFINE k == [Moved(xfer[t], "open", 0, Unreported(t, end)) EXCEPT
                     !.data = IF end = "exit0" THEN guest[xfer[t].gp] ELSE <<>>]
  <2>3. k.reply = xfer[t].reply
    BY <1>0 DEF Moved, Transfer
  <2>4. same(t, k)
    BY <2>2, <2>3
  <2> QED BY <1>3, <2>4
<1>6. ASSUME NEW t \in Transfers, Decode(t) \/ WriteHost(t), t # s PROVE FALSE
  BY <1>1, <1>6 DEF Decode, WriteHost
<1>7. ASSUME NEW t \in Transfers, Enter(t) PROVE FALSE
  BY <1>0, <1>7 DEF Enter, Entered, Troubled, Transfer
<1>8. ASSUME NEW m \in late, ExecuteLate(m) PROVE FALSE
  BY <1>0, <1>8 DEF ExecuteLate, Troubled, Transfer
<1>9. ASSUME ServerStops PROVE FALSE
  BY <1>0, <1>9 DEF ServerStops, Transfer
<1>10. CASE UNCHANGED vars
  BY <1>10 DEF vars
<1> QED BY <1>3, <1>4, <1>5, <1>6, <1>7, <1>8, <1>9, <1>10 DEF Next, Step

(* Which file of the guest a step may change. *)
LEMMA GuestChanges ==
  ASSUME CopyInv, [Next]_vars, NEW g \in GuestPaths, guest'[g] # guest[g]
  PROVE  \/ \E t \in Transfers : xfer[t].pc = "decode" /\ xfer[t].gp = g
         \/ \E m \in late : m.step = "decode" /\ xfer[m.from].gp = g
<1>1. ASSUME NEW h \in GuestPaths, DecodeText(h) \/ DecodeBreaks(h) PROVE h = g
  BY <1>1 DEF DecodeText, DecodeBreaks, CopyInv, TypeOK
<1>2. ASSUME NEW t \in Transfers, Step(t)
      PROVE  xfer[t].pc = "decode" /\ xfer[t].gp = g
  <2>1. xfer[t].gp \in GuestPaths
    BY XferFacts
  <2>2. ~Setup(t) /\ ~AppendChunk(t)
    BY DEF Setup, AppendChunk, InGuest, Does, SetUp, AppendText
  <2>3. Decode(t)
    BY <1>2, <2>2 DEF Step, Spawn, Info, ReadHost, ReadGuest, OpenHost, WriteHost
  <2>4. xfer[t].pc = "decode"
    BY <2>3 DEF Decode, Ends0
  <2>5. DecodeText(xfer[t].gp) \/ DecodeBreaks(xfer[t].gp)
    BY <2>3 DEF Decode, InGuest, Does
  <2> QED BY <1>1, <2>1, <2>4, <2>5
<1>3. ASSUME NEW m \in late, ExecuteLate(m)
      PROVE  m.step = "decode" /\ xfer[m.from].gp = g
  <2>1. xfer[m.from].gp \in GuestPaths
    BY XferFacts DEF CopyInv, TypeOK, Command
  <2>2. m.step = "decode"
        /\ (DecodeText(xfer[m.from].gp) \/ DecodeBreaks(xfer[m.from].gp))
    BY <1>3 DEF ExecuteLate, Does, SetUp, AppendText
  <2> QED BY <1>1, <2>1, <2>2
<1> QED BY <1>2, <1>3 DEF Next, Enter, Cancel, ServerStops, vars

-----------------------------------------------------------------------------
(* That a call comes to its end. *)

(* What is left to do: the steps of FileCopy still ahead, and in the loop   *)
(* the chunks not sent, two steps for each, the start of its process and   *)
(* the end.                                                                *)
Stage(k) ==
  CASE k.pc = "info" -> 5
    [] k.pc \in {"readHost", "readGuest"} -> 4
    [] k.pc \in {"setup", "open"} -> 3
    [] k.pc = "append" -> 2
    [] k.pc \in {"decode", "write"} -> 1
    [] OTHER -> 0

Rest(k) == 2 * (Len(k.data) - k.sent) + (IF k.running THEN 0 ELSE 1)

Left(k) == <<Stage(k), Rest(k)>>

(* Ranks admit no infinite descent. *)
RankOrder == {p \in Rank \X Rank : Below(p[1], p[2])}

LEMMA RankIsWellFounded == IsWellFoundedOn(RankOrder, Rank)
<1> DEFINE less == OpToRel(<, Nat)
<1>1. IsWellFoundedOn(less, Nat)
  BY NatLessThanWellFounded
<1>2. less = {p \in Nat \X Nat : p[1] < p[2]}
  BY DEF OpToRel
<1> HIDE DEF less
<1>3. IsWellFoundedOn(LexPairOrdering(less, less, Nat, Nat), Rank)
  BY <1>1, WFLexPairOrdering DEF Rank
<1>4. RankOrder \cap (Rank \X Rank) \subseteq LexPairOrdering(less, less, Nat, Nat)
  BY <1>2 DEF LexPairOrdering, RankOrder, Rank, Below
<1> QED BY <1>3, <1>4, IsWellFoundedOnSubrelation

LEMMA StageFacts ==
  ASSUME NEW k
  PROVE  /\ k.pc = "info" => Stage(k) = 5
         /\ k.pc \in {"readHost", "readGuest"} => Stage(k) = 4
         /\ k.pc \in {"setup", "open"} => Stage(k) = 3
         /\ k.pc = "append" => Stage(k) = 2
         /\ k.pc \in {"decode", "write"} => Stage(k) = 1
         /\ k.pc \in {"idle", "answered", "lost"} => Stage(k) = 0
         /\ Stage(k) \in Nat
  BY DEF Stage

LEMMA LeftType ==
  ASSUME CopyInv, NEW t \in Transfers
  PROVE  Left(xfer[t]) \in Rank
<1>1. /\ Stage(xfer[t]) \in Nat /\ xfer[t].sent \in Nat /\ Len(xfer[t].data) \in Nat
      /\ xfer[t].sent <= Len(xfer[t].data)
  BY XferFacts, StageFacts DEF XferOK
<1>2. Rest(xfer[t]) \in Nat
  BY <1>1 DEF Rest
<1> QED BY <1>1, <1>2 DEF Left, Rank

(* A call that gets to a lower stage has less left. *)
LEMMA LowerStage ==
  ASSUME NEW k, NEW l, Stage(l) < Stage(k)
  PROVE  Below(Left(l), Left(k))
  BY DEF Below, Left

LEMMA LessRest ==
  ASSUME NEW k, NEW l, Stage(l) = Stage(k), Rest(l) < Rest(k)
  PROVE  Below(Left(l), Left(k))
  BY DEF Below, Left

(* Every answer and every step of the loop is such a descent. *)
LEMMA ReplyDescends ==
  ASSUME CopyInv, NEW t \in Transfers, Active(xfer[t]), NEW reply, NEW trouble,
         Reply(t, reply, trouble)
  PROVE  Below(Left(xfer'[t]), Left(xfer[t]))
<1>1. xfer'[t].pc = "answered"
  BY XferFacts DEF Reply, Answered, Transfer, CopyInv, TypeOK
<1>2. Stage(xfer'[t]) = 0
  BY <1>1, StageFacts
<1>3. xfer[t].pc \in CommandSteps \cup {"readHost", "open", "write"}
  BY XferFacts DEF Active, Transfer
<1>4. Stage(xfer[t]) > 0
  BY <1>3, StageFacts DEF CommandSteps, GuestSteps
<1> QED BY <1>2, <1>4, LowerStage

LEMMA OneLess ==
  ASSUME NEW m \in Nat, NEW n \in Nat, NEW r \in {2 * (m - n), 2 * (m - n) + 1}
  PROVE  2 * (m - (n + 1)) + 1 < r
  BY Z3

LEMMA LoopDescends ==
  ASSUME CopyInv, NEW t \in Transfers, NEW sent \in Nat, NEW trouble,
         \/ xfer[t].pc = "setup"
         \/ xfer[t].pc = "append" /\ sent = xfer[t].sent + 1,
         GoOn(t, AfterChunks(xfer[t], sent), sent, trouble)
  PROVE  Below(Left(xfer'[t]), Left(xfer[t]))
<1> DEFINE k == xfer[t]
           l == Moved(k, AfterChunks(k, sent), sent, trouble)
<1>1. /\ k \in Transfer /\ XferOK(k) /\ k.sent \in Nat /\ Len(k.data) \in Nat
      /\ xfer'[t] = l
  BY XferFacts DEF GoOn, CopyInv, TypeOK
<1>2. /\ l.pc = AfterChunks(k, sent) /\ l.sent = sent /\ l.data = k.data
      /\ l.running = FALSE
  BY <1>1 DEF Moved, Transfer
<1>3. AfterChunks(k, sent) \in {"append", "decode"}
  BY DEF AfterChunks
<1> HIDE DEF l
<1>4. CASE k.pc = "setup" \/ l.pc = "decode"
  <2>1. Stage(l) < Stage(k)
    BY <1>2, <1>3, <1>4, StageFacts
  <2> QED BY <1>1, <2>1, LowerStage
<1>5. CASE k.pc = "append" /\ l.pc = "append"
  <2>1. Stage(l) = 2 /\ Stage(k) = 2 /\ sent = k.sent + 1
    BY <1>5, StageFacts
  <2>2. /\ Rest(l) = 2 * (Len(k.data) - (k.sent + 1)) + 1
        /\ Rest(k) \in {2 * (Len(k.data) - k.sent), 2 * (Len(k.data) - k.sent) + 1}
    BY <1>1, <1>2, <2>1 DEF Rest
  <2>3. 2 * (Len(k.data) - (k.sent + 1)) + 1 < Rest(k)
    BY <1>1, <2>2, OneLess
  <2>4. Rest(l) < Rest(k)
    BY <2>2, <2>3
  <2> QED BY <1>1, <2>1, <2>4, LessRest
<1> QED BY <1>2, <1>3, <1>4, <1>5

LEMMA StepDescends ==
  ASSUME CopyInv, NEW t \in Transfers, Step(t)
  PROVE  Active(xfer[t]) /\ Below(Left(xfer'[t]), Left(xfer[t]))
<1> DEFINE k == xfer[t]
<1>0. /\ k \in Transfer /\ XferOK(k) /\ k.sent \in Nat /\ Len(k.data) \in Nat
  BY XferFacts
<1>1. Active(k)
  BY DEF Step, Spawn, Info, ReadHost, Setup, AppendChunk, Decode, ReadGuest, OpenHost,
         WriteHost, Ends0, Active, CommandSteps, GuestSteps
<1> SUFFICES Below(Left(xfer'[t]), Left(k))
  BY <1>1
<1>2. ASSUME NEW reply, NEW trouble, Reply(t, reply, trouble)
      PROVE  Below(Left(xfer'[t]), Left(k))
  BY <1>1, <1>2, ReplyDescends
<1>3. ASSUME NEW pc, NEW trouble, GoOn(t, pc, 0, trouble)
      PROVE  xfer'[t].pc = pc
  BY <1>0, <1>3 DEF GoOn, Moved, Transfer, CopyInv, TypeOK
<1>4. CASE Spawn(t)
  <2> DEFINE l == [k EXCEPT !.running = TRUE]
  <2>1. xfer'[t] = l
    BY <1>4 DEF Spawn, CopyInv, TypeOK
  <2>2. l.pc = k.pc /\ l.sent = k.sent /\ l.data = k.data /\ l.running /\ ~k.running
    BY <1>0, <1>4 DEF Spawn, Transfer
  <2> HIDE DEF l
  <2>3. Stage(l) = Stage(k)
    BY <2>2 DEF Stage
  <2>4. Rest(l) < Rest(k)
    BY <1>0, <2>2 DEF Rest
  <2> QED BY <2>1, <2>3, <2>4, LessRest
<1>5. CASE Info(t)
  <2>1. k.pc = "info"
    BY <1>5 DEF Info, Ends0
  <2>2. CASE GoOn(t, IF k.push THEN "readHost" ELSE "readGuest", 0, {})
    <3>1. xfer'[t].pc \in {"readHost", "readGuest"}
      BY <1>3, <2>2
    <3>2. Stage(xfer'[t]) < Stage(k)
      BY <2>1, <3>1, StageFacts
    <3> QED BY <3>2, LowerStage
  <2> QED BY <1>2, <1>5, <2>2 DEF Info
<1>6. CASE ReadHost(t)
  <2>1. k.pc = "readHost"
    BY <1>6 DEF ReadHost
  <2>2. CASE xfer' = [xfer EXCEPT ![t] = [@ EXCEPT !.pc = "setup", !.data = host[k.hp]]]
    <3>1. xfer'[t].pc = "setup"
      BY <1>0, <2>2 DEF Transfer, CopyInv, TypeOK
    <3>2. Stage(xfer'[t]) < Stage(k)
      BY <2>1, <3>1, StageFacts
    <3> QED BY <3>2, LowerStage
  <2> QED BY <1>2, <1>6, <2>2 DEF ReadHost
<1>7. CASE Setup(t)
  <2>1. k.pc = "setup" /\ 0 \in Nat
    BY <1>7 DEF Setup, Ends0
  <2>2. PICK end \in Ends :
          IF ExecErr(end, k.cancelled) = "nil"
          THEN GoOn(t, AfterChunks(k, 0), 0,
                    Unreported(t, end) \cup IF end = "failed" THEN {"setup"} ELSE {})
          ELSE Reply(t, "error", {})
    BY <1>7 DEF Setup
  <2> QED BY <1>2, <2>1, <2>2, LoopDescends
<1>8. CASE AppendChunk(t)
  <2>1. k.pc = "append" /\ k.sent + 1 \in Nat
    BY <1>0, <1>8 DEF AppendChunk, Ends0
  <2>2. PICK end \in Ends :
          IF ExecSucceeds(end, k.cancelled)
          THEN GoOn(t, AfterChunks(k, k.sent + 1), k.sent + 1, Unreported(t, end))
          ELSE Reply(t, "error", {})
    BY <1>8 DEF AppendChunk
  <2> QED BY <1>2, <2>1, <2>2, LoopDescends
<1>9. CASE Decode(t)
  BY <1>2, <1>9 DEF Decode
<1>10. CASE ReadGuest(t)
  <2>1. k.pc = "readGuest"
    BY <1>10 DEF ReadGuest, Ends0
  <2>2. PICK end \in Ends :
          \/ Reply(t, "error", {})
          \/ xfer' = [xfer EXCEPT ![t] =
               [Moved(k, "open", 0, Unreported(t, end)) EXCEPT
                  !.data = IF end = "exit0" THEN guest[k.gp] ELSE <<>>]]
    BY <1>10 DEF ReadGuest
  <2>3. CASE ~Reply(t, "error", {})
    <3>1. xfer'[t] = [Moved(k, "open", 0, Unreported(t, end)) EXCEPT
                        !.data = IF end = "exit0" THEN guest[k.gp] ELSE <<>>]
      BY <2>2, <2>3 DEF CopyInv, TypeOK
    <3>2. xfer'[t].pc = "open"
      BY <1>0, <3>1 DEF Moved, Transfer
    <3>3. Stage(xfer'[t]) < Stage(k)
      BY <2>1, <3>2, StageFacts
    <3> QED BY <3>3, LowerStage
  <2> QED BY <1>2, <2>3
<1>11. CASE OpenHost(t)
  <2>1. k.pc = "open"
    BY <1>11 DEF OpenHost
  <2>2. CASE GoOn(t, "write", 0, {})
    <3>1. Stage(xfer'[t]) < Stage(k)
      BY <1>3, <2>1, <2>2, StageFacts
    <3> QED BY <3>1, LowerStage
  <2> QED BY <1>2, <1>11, <2>2 DEF OpenHost
<1>12. CASE WriteHost(t)
  BY <1>2, <1>12 DEF WriteHost
<1> QED BY <1>1, <1>4, <1>5, <1>6, <1>7, <1>8, <1>9, <1>10, <1>11, <1>12 DEF Step

(* What anybody else does to an active call leaves it what it has to do,   *)
(* or ends it.                                                             *)
LEMMA OthersLeaveRank ==
  ASSUME CopyInv, [Next]_vars, NEW t \in Transfers, Active(xfer[t]), ~Step(t)
  PROVE  \/ Left(xfer'[t]) = Left(xfer[t])
         \/ Below(Left(xfer'[t]), Left(xfer[t]))
<1> DEFINE k == xfer[t]
           l == xfer'[t]
           same == l.pc = k.pc /\ l.data = k.data /\ l.sent = k.sent /\ l.running = k.running
<1>0. \A s \in Transfers : xfer[s] \in Transfer
  BY XferFacts
<1>1. same => Left(l) = Left(k)
  BY DEF Left, Stage, Rest
<1>2. \A s \in Transfers : \A new : s # t /\ xfer' = [xfer EXCEPT ![s] = new] => l = k
  BY DEF CopyInv, TypeOK
<1>3. ASSUME NEW what
      PROVE  /\ Troubled(k, what).pc = k.pc /\ Troubled(k, what).data = k.data
             /\ Troubled(k, what).sent = k.sent /\ Troubled(k, what).running = k.running
  BY <1>0 DEF Troubled, Transfer
<1>4. ASSUME NEW s \in Transfers, Step(s) PROVE same
  <2>1. s # t
    BY <1>4
  <2>2. \E new : xfer' = [xfer EXCEPT ![s] = new]
    BY <1>4 DEF Step, Spawn, Info, ReadHost, Setup, AppendChunk, Decode, ReadGuest,
                OpenHost, WriteHost, GoOn, Reply
  <2> QED BY <1>2, <2>1, <2>2
<1>5. ASSUME NEW s \in Transfers, Cancel(s) PROVE same
  <2>1. CASE s = t
    BY <1>0, <1>5, <2>1 DEF Cancel, Transfer, CopyInv, TypeOK
  <2>2. CASE s # t
    BY <1>2, <1>5, <2>2 DEF Cancel
  <2> QED BY <2>1, <2>2
<1>6. ASSUME NEW s \in Transfers, Enter(s) PROVE same
  <2>1. s # t
    BY <1>6 DEF Enter, Active
  <2>2. l = k \/ l = Troubled(k, "overlap")
    BY <1>6, <2>1 DEF Enter
  <2> QED BY <1>3, <2>2
<1>7. ASSUME NEW m \in late, ExecuteLate(m) PROVE same
  <2>1. l = k \/ l = Troubled(k, "late")
    BY <1>7 DEF ExecuteLate
  <2> QED BY <1>3, <2>1
<1>8. CASE ServerStops
  <2>1. l = [k EXCEPT !.pc = "lost"]
    BY <1>8 DEF ServerStops
  <2>2. l.pc = "lost"
    BY <1>0, <2>1 DEF Transfer
  <2>3. k.pc \in CommandSteps \cup {"readHost", "open", "write"}
    BY <1>0 DEF Active, Transfer
  <2>4. Stage(l) < Stage(k)
    BY <2>2, <2>3, StageFacts DEF CommandSteps, GuestSteps
  <2> QED BY <2>4, LowerStage
<1>9. CASE UNCHANGED vars
  BY <1>1, <1>9 DEF vars
<1> QED BY <1>1, <1>4, <1>5, <1>6, <1>7, <1>8, <1>9 DEF Next

-----------------------------------------------------------------------------
(* The theorems. *)

(* Nothing the server or the guest does takes a variable out of its type.  *)
THEOREM CopyTypeCorrect == Spec => []TypeOK
<1>1. CopyInv => TypeOK
  BY DEF CopyInv
<1> QED BY <1>1, CopyInvInit, CopyInvStep, PTL DEF Spec

(* The temporary file of an untroubled push holds what its loop has sent.  *)
THEOREM CopyTracksLoop == Spec => []TmpTracksLoop
<1>1. CopyInv => TmpTracksLoop
  BY DEF CopyInv
<1> QED BY <1>1, CopyInvInit, CopyInvStep, PTL DEF Spec

(* A success reply without trouble means the bytes read are at the         *)
(* destination, whatever other transfers do and whatever they left behind. *)
THEOREM CopyDelivers == Spec => OkMeansDelivered
<1>1. ASSUME CopyInv, [Next]_vars, NEW t \in Transfers,
             xfer[t].reply # "ok", xfer'[t].reply = "ok", xfer'[t].trouble = {}
      PROVE  IF xfer[t].push
             THEN guest'[xfer[t].gp] = xfer[t].data /\ tmp'[TmpOf(xfer[t].gp)] = Absent
             ELSE host'[xfer[t].hp] = xfer[t].data
  BY <1>1, OtherReplies, DecodeDelivers, WriteDelivers
<1>2. CopyInv /\ [Next]_vars =>
        [\A t \in Transfers :
          xfer[t].reply # "ok" /\ xfer'[t].reply = "ok" /\ xfer'[t].trouble = {} =>
            IF xfer[t].push
            THEN guest'[xfer[t].gp] = xfer[t].data /\ tmp'[TmpOf(xfer[t].gp)] = Absent
            ELSE host'[xfer[t].hp] = xfer[t].data]_vars
  BY <1>1
<1> QED BY <1>2, CopyInvInit, CopyInvStep, PTL DEF Spec, OkMeansDelivered

(* The file at a destination is changed by nothing but the decode of a     *)
(* push whose loop was complete.                                           *)
THEOREM CopyHoldsGuestFile == Spec => GuestFileHeld
<1>1. ASSUME CopyInv, [Next]_vars, NEW g \in GuestPaths, guest'[g] # guest[g]
      PROVE  \E t \in Transfers :
               /\ xfer[t].push /\ xfer[t].gp = g
               /\ xfer[t].sent = Len(xfer[t].data)
               /\ \/ xfer[t].pc = "decode"
                  \/ \E m \in late : m.from = t /\ m.step = "decode"
  <2>1. CASE \E t \in Transfers : xfer[t].pc = "decode" /\ xfer[t].gp = g
    BY <1>1, <2>1, XferFacts DEF XferOK, GuestSteps
  <2>2. CASE \E m \in late : m.step = "decode" /\ xfer[m.from].gp = g
    <3>1. PICK m \in late : m.step = "decode" /\ xfer[m.from].gp = g
      BY <2>2
    <3>2. m.from \in Transfers /\ LateOK(m, xfer[m.from])
      BY <1>1, <3>1 DEF CopyInv, TypeOK, Command
    <3> QED BY <3>1, <3>2 DEF LateOK
  <2> QED BY <1>1, <2>1, <2>2, GuestChanges
<1>2. CopyInv /\ [Next]_vars =>
        [\A g \in GuestPaths :
          guest'[g] # guest[g] =>
            \E t \in Transfers :
              /\ xfer[t].push /\ xfer[t].gp = g
              /\ xfer[t].sent = Len(xfer[t].data)
              /\ \/ xfer[t].pc = "decode"
                 \/ \E m \in late : m.from = t /\ m.step = "decode"]_vars
  BY <1>1
<1> QED BY <1>2, CopyInvInit, CopyInvStep, PTL DEF Spec, GuestFileHeld
(***************************************************************************)
(* The chunk loop and every other path of FileCopy come to an end, for     *)
(* files of any length: each step of a call lowers its rank and nothing    *)
(* else raises it, and ranks are well founded (RankIsWellFounded).  What   *)
(* EveryTransferIsAnswered adds is that a next step is always possible and *)
(* taken.                                                                  *)
(***************************************************************************)
THEOREM CopyRunsDown ==
  Spec => /\ [](\A t \in Transfers : Left(xfer[t]) \in Rank)
          /\ [][\A t \in Transfers :
                  /\ Step(t) => Below(Left(xfer'[t]), Left(xfer[t]))
                  /\ Active(xfer[t]) => \/ Left(xfer'[t]) = Left(xfer[t])
                                        \/ Below(Left(xfer'[t]), Left(xfer[t]))]_vars
<1>1. CopyInv => \A t \in Transfers : Left(xfer[t]) \in Rank
  BY LeftType
<1>2. ASSUME CopyInv, [Next]_vars, NEW t \in Transfers
      PROVE  /\ Step(t) => Below(Left(xfer'[t]), Left(xfer[t]))
             /\ Active(xfer[t]) => \/ Left(xfer'[t]) = Left(xfer[t])
                                   \/ Below(Left(xfer'[t]), Left(xfer[t]))
  BY <1>2, StepDescends, OthersLeaveRank
<1>3. CopyInv /\ [Next]_vars =>
        [\A t \in Transfers :
           /\ Step(t) => Below(Left(xfer'[t]), Left(xfer[t]))
           /\ Active(xfer[t]) => \/ Left(xfer'[t]) = Left(xfer[t])
                                 \/ Below(Left(xfer'[t]), Left(xfer[t]))]_vars
  BY <1>2
<1> QED BY <1>1, <1>3, CopyInvInit, CopyInvStep, PTL DEF Spec
=============================================================================
