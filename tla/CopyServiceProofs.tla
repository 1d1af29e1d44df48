------------------------- MODULE CopyServiceProofs -------------------------
(***************************************************************************)
(* The calls of FileTransfer implement CopyService: whatever happens       *)
(* between the commands of a call, what its client sees is one read of the *)
(* source and one replacement of the destination.                          *)
(***************************************************************************)
EXTENDS FileTransferProofs

(***************************************************************************)
(* The argument.  Beyond CopyInv, which says that an untroubled push has   *)
(* its own bytes in its temporary file and an untroubled pull writes over  *)
(* an empty file, it needs three facts: a call has nothing in hand before  *)
(* it has read; a command that outlived its process belongs to a call that *)
(* did not succeed; and a temporary file, whoever appended to it, is made  *)
(* of blocks that were read to be copied to this path.                     *)
(***************************************************************************)
Calls == [t \in Transfers |-> CallOf(xfer[t])]
Clear == {t \in Transfers : xfer[t].trouble = {}}

HeldOK(k) ==
  /\ k.pc \in {"idle", "info", "readHost", "readGuest"} => k.data = <<>>
  /\ k.pc = "idle" => k.trouble = {}

OrphanOK(m) == "killed" \in Faults /\ StatusOf(xfer[m.from]) = "over"

MixOK(g) == tmp[g] # Absent => Service!MadeOf(tmp[g], Service!Pushed(g))

ServiceInv ==
  /\ \A t \in Transfers : HeldOK(xfer[t])
  /\ \A m \in late : OrphanOK(m)
  /\ \A g \in GuestPaths : MixOK(g)

-----------------------------------------------------------------------------
(* Files made of blocks that were read. *)

LEMMA MadeEmpty == ASSUME NEW S PROVE Service!MadeOf(<<>>, S)
  BY DEF Service!MadeOf, Service!Files

LEMMA MadeWhole ==
  ASSUME NEW S, NEW s \in S, s \in Seq(Blocks) PROVE Service!MadeOf(s, S)
  BY DEF Service!MadeOf, Service!Files

(* Sources may be added, and one that was empty may be replaced. *)
LEMMA MadeGrows ==
  ASSUME NEW f, NEW S, NEW R, Service!MadeOf(f, S),
         \A s \in S : s \in R \/ s = <<>>
  PROVE  Service!MadeOf(f, R)
<1>1. ASSUME NEW i \in 1..Len(f)
      PROVE  \E r \in R : \E j \in 1..Len(r) : f[i] = r[j]
  <2>1. PICK s \in S : \E j \in 1..Len(s) : f[i] = s[j]
    BY DEF Service!MadeOf
  <2>2. s # <<>>
    BY <2>1
  <2> QED BY <2>1, <2>2
<1> QED BY <1>1 DEF Service!MadeOf

LEMMA MadeAppend ==
  ASSUME NEW f, NEW S, Service!MadeOf(f, S),
         NEW s \in S, NEW j \in 1..Len(s), s \in Seq(Blocks)
  PROVE  Service!MadeOf(Append(f, s[j]), S)
<1> DEFINE e == Append(f, s[j])
<1>1. f \in Seq(Blocks) /\ s[j] \in Blocks
  BY ElementOfSeq DEF Service!MadeOf, Service!Files
<1>2. e \in Seq(Blocks) /\ Len(e) = Len(f) + 1 /\ Len(f) \in Nat
      /\ e[Len(f) + 1] = s[j] /\ \A i \in 1..Len(f) : e[i] = f[i]
  BY <1>1, AppendProperties
<1>3. ASSUME NEW i \in 1..Len(e) PROVE \E r \in S : \E l \in 1..Len(r) : e[i] = r[l]
  <2>1. CASE i = Len(f) + 1
    BY <1>2, <2>1
  <2>2. CASE i \in 1..Len(f)
    BY <1>2, <2>2 DEF Service!MadeOf
  <2> QED BY <1>2, <2>1, <2>2
<1> QED BY <1>2, <1>3 DEF Service!MadeOf, Service!Files

LEMMA MadePrefix ==
  ASSUME NEW f, NEW S, Service!MadeOf(f, S), NEW n \in 0..Len(f)
  PROVE  Service!MadeOf(SubSeq(f, 1, n), S)
<1>1. f \in Seq(Blocks) /\ Len(f) \in Nat
  BY LenProperties DEF Service!MadeOf, Service!Files
<1>2. SubSeq(f, 1, n) \in Seq(Blocks)
  BY <1>1, PrefixType
<1>3. Len(SubSeq(f, 1, n)) = n /\ \A i \in 1..n : SubSeq(f, 1, n)[i] = f[i]
  BY <1>1, SubSeqProperties, ElementOfSeq
<1>4. \A i \in 1..n : i \in 1..Len(f)
  BY <1>1
<1> QED BY <1>2, <1>3, <1>4 DEF Service!MadeOf, Service!Files

(* A write over a file mixes the two. *)
LEMMA MadeOver ==
  ASSUME NEW file \in Seq(Blocks), NEW data \in Seq(Blocks), NEW n \in 0..Len(data)
  PROVE  Service!MadeOf(Over(file, data, n), {file, data})
<1> DEFINE a == SubSeq(data, 1, n)
           b == SubSeq(file, n + 1, Len(file))
<1>1. Service!MadeOf(a, {file, data})
  BY MadeWhole, MadePrefix
<1>2. Len(file) \in Nat /\ n \in Nat
  BY LenProperties
<1>3. b \in Seq(Blocks) /\ \A i \in 1..Len(b) : \E j \in 1..Len(file) : b[i] = file[j]
  <2>1. \A i \in (n + 1)..Len(file) : file[i] \in Blocks
    BY <1>2, ElementOfSeq
  <2>2. b \in Seq(Blocks)
    BY <1>2, <2>1, SubSeqProperties
  <2>3. Len(b) = IF n + 1 <= Len(file) THEN Len(file) - n ELSE 0
    BY <1>2, <2>1, SubSeqProperties
  <2>4. \A i \in 1..Len(b) : b[i] = file[n + i] /\ n + i \in 1..Len(file)
    BY <1>2, <2>1, <2>3, SubSeqProperties
  <2> QED BY <2>2, <2>4
<1>4. a \in Seq(Blocks)
  BY <1>1 DEF Service!MadeOf, Service!Files
<1> HIDE DEF a, b
<1>5. /\ a \o b \in Seq(Blocks) /\ Len(a \o b) = Len(a) + Len(b)
      /\ Len(a) \in Nat /\ Len(b) \in Nat
      /\ \A i \in 1..Len(a \o b) : (a \o b)[i] = IF i <= Len(a) THEN a[i] ELSE b[i - Len(a)]
  BY <1>3, <1>4, ConcatProperties, LenProperties
<1>6. ASSUME NEW i \in 1..Len(a \o b)
      PROVE  \E s \in {file, data} : \E j \in 1..Len(s) : (a \o b)[i] = s[j]
  <2>1. CASE i <= Len(a)
    <3>1. i \in 1..Len(a) /\ (a \o b)[i] = a[i]
      BY <1>5, <2>1
    <3> QED BY <1>1, <3>1 DEF Service!MadeOf
  <2>2. CASE ~(i <= Len(a))
    <3>1. i - Len(a) \in 1..Len(b) /\ (a \o b)[i] = b[i - Len(a)]
      BY <1>5, <2>2
    <3> QED BY <1>3, <3>1
  <2> QED BY <2>1, <2>2
<1>7. Over(file, data, n) = a \o b
  BY DEF Over, a, b
<1> QED BY <1>5, <1>6, <1>7 DEF Service!MadeOf, Service!Files

-----------------------------------------------------------------------------
(* The mapping. *)

LEMMA PushedIs ==
  ASSUME NEW g
  PROVE  Service!Pushed(g) =
           {xfer[s].data : s \in {r \in Transfers : xfer[r].push /\ xfer[r].gp = g}}
  BY DEF Service!Pushed, CallOf

LEMMA ActiveIsOpen ==
  ASSUME NEW k \in Transfer
  PROVE  Service!Open(CallOf(k)) <=> Active(k)
  BY DEF Service!Open, CallOf, StatusOf, Active, Transfer, CommandSteps, GuestSteps

(* A step of one call, seen from CopyService. *)
LEMMA Becomes ==
  ASSUME CopyInv, NEW t \in Transfers, NEW k, xfer' = [xfer EXCEPT ![t] = k],
         k.push = xfer[t].push, k.hp = xfer[t].hp, k.gp = xfer[t].gp
  PROVE  /\ Service!Become(t, StatusOf(k), k.data)
         /\ k.trouble = xfer[t].trouble => Clear' = Clear
         /\ k.trouble # {} => Clear' = Clear \ {t}
<1>1. \A s \in Transfers : xfer'[s] = IF s = t THEN k ELSE xfer[s]
  BY DEF CopyInv, TypeOK
<1>2. [CallOf(xfer[t]) EXCEPT !.status = StatusOf(k), !.data = k.data] = CallOf(k)
  <2> DEFINE r == [CallOf(xfer[t]) EXCEPT !.status = StatusOf(k)]
  <2>1. r = [push |-> k.push, hp |-> k.hp, gp |-> k.gp, data |-> xfer[t].data,
             status |-> StatusOf(k)]
    BY DEF CallOf
  <2> HIDE DEF r
  <2>2. [r EXCEPT !.data = k.data] = CallOf(k)
    BY <2>1 DEF CallOf
  <2> QED BY <2>2 DEF r
<1>3. Calls' = [Calls EXCEPT ![t] = CallOf(k)]
  <2>1. \A s \in Transfers : Calls'[s] = IF s = t THEN CallOf(k) ELSE Calls[s]
    BY <1>1 DEF Calls
  <2> QED BY <2>1 DEF Calls
<1>4. Calls[t] = CallOf(xfer[t])
  BY DEF Calls
<1>5. Service!Become(t, StatusOf(k), k.data)
  BY <1>2, <1>3, <1>4 DEF Service!Become, Calls
<1> QED BY <1>1, <1>5 DEF Clear

(* A step that changes no file and nothing CopyService sees of the call.   *)
LEMMA Stutters ==
  ASSUME CopyInv, NEW t \in Transfers, NEW k, xfer' = [xfer EXCEPT ![t] = k],
         CallOf(k) = CallOf(xfer[t]), k.trouble = xfer[t].trouble
  PROVE  Calls' = Calls /\ Clear' = Clear
<1>1. \A s \in Transfers : CallOf(xfer'[s]) = CallOf(xfer[s])
                            /\ xfer'[s].trouble = xfer[s].trouble
  BY DEF CopyInv, TypeOK
<1> QED BY <1>1 DEF Calls, Clear

(* A reply, seen from CopyService. *)
LEMMA ReplyBecomes ==
  ASSUME CopyInv, NEW t \in Transfers, NEW reply \in {"ok", "error"},
         NEW trouble, Reply(t, reply, trouble)
  PROVE  /\ Service!Become(t, IF reply = "ok" THEN "ok" ELSE "over", xfer[t].data)
         /\ trouble = {} => Clear' = Clear
         /\ trouble # {} => Clear' = Clear \ {t}
<1> DEFINE k == Answered(xfer[t], reply, trouble)
<1>1. xfer[t] \in Transfer
  BY XferFacts
<1>2. /\ k.push = xfer[t].push /\ k.hp = xfer[t].hp /\ k.gp = xfer[t].gp
      /\ k.data = xfer[t].data /\ k.pc = "answered" /\ k.reply = reply
      /\ k.trouble = xfer[t].trouble \cup trouble
  BY <1>1 DEF Answered, Transfer
<1>3. xfer' = [xfer EXCEPT ![t] = k]
  BY DEF Reply
<1>4. StatusOf(k) = IF reply = "ok" THEN "ok" ELSE "over"
  BY <1>2 DEF StatusOf, GuestSteps
<1>5. trouble = {} => k.trouble = xfer[t].trouble
  BY <1>2
<1>6. trouble # {} => k.trouble # {}
  BY <1>2
<1> HIDE DEF k
<1>7. /\ Service!Become(t, StatusOf(k), k.data)
      /\ k.trouble = xfer[t].trouble => Clear' = Clear
      /\ k.trouble # {} => Clear' = Clear \ {t}
  BY <1>2, <1>3, Becomes
<1> QED BY <1>2, <1>4, <1>5, <1>6, <1>7

(* A step to the next command is one only to the bookkeeping. *)
LEMMA GoOnIsQuiet ==
  ASSUME CopyInv, NEW t \in Transfers, NEW pc, NEW sent, NEW trouble,
         GoOn(t, pc, sent, trouble),
         \/ {xfer[t].pc, pc} \subseteq GuestSteps \cup {"open", "write"}
         \/ {xfer[t].pc, pc} \subseteq {"info", "readHost", "readGuest"}
  PROVE  /\ Calls' = Calls
         /\ trouble = {} => Clear' = Clear
         /\ trouble # {} => Clear' = Clear \ {t}
<1> DEFINE k == Moved(xfer[t], pc, sent, trouble)
<1>1. xfer[t] \in Transfer
  BY XferFacts
<1>2. /\ k.push = xfer[t].push /\ k.hp = xfer[t].hp /\ k.gp = xfer[t].gp
      /\ k.data = xfer[t].data /\ k.pc = pc
      /\ k.trouble = xfer[t].trouble \cup trouble
  BY <1>1 DEF Moved, Transfer
<1>3. StatusOf(k) = StatusOf(xfer[t])
  BY <1>2 DEF StatusOf, GuestSteps
<1>4. \A s \in Transfers : xfer'[s] = IF s = t THEN k ELSE xfer[s]
  BY DEF GoOn, CopyInv, TypeOK
<1> HIDE DEF k
<1>5. \A s \in Transfers : CallOf(xfer'[s]) = CallOf(xfer[s])
  BY <1>2, <1>3, <1>4 DEF CallOf
<1> QED BY <1>2, <1>4, <1>5 DEF Calls, Clear

(* The call of CopyService that t is. *)
LEMMA ServedIs ==
  ASSUME CopyInv, NEW t \in Transfers
  PROVE  /\ Calls[t] = CallOf(xfer[t])
         /\ CallOf(xfer[t]).push = xfer[t].push /\ CallOf(xfer[t]).hp = xfer[t].hp
         /\ CallOf(xfer[t]).gp = xfer[t].gp /\ CallOf(xfer[t]).data = xfer[t].data
         /\ CallOf(xfer[t]).status = StatusOf(xfer[t])
         /\ t \in Clear <=> xfer[t].trouble = {}
  BY DEF Calls, CallOf, Clear

(* A call that fails without touching a file. *)
LEMMA FailsQuietly ==
  ASSUME CopyInv, NEW t \in Transfers, Active(xfer[t]), Reply(t, "error", {}),
         UNCHANGED <<host, guest>>
  PROVE  Service!Fail(t)
<1>1. Service!Become(t, "over", xfer[t].data) /\ Clear' = Clear
  BY ReplyBecomes
<1>2. Service!Open(CallOf(xfer[t]))
  BY ActiveIsOpen, XferFacts
<1> QED BY <1>1, <1>2, ServedIs
        DEF Service!Fail, Service!PartOf, Service!Mixture, Calls, Clear

-----------------------------------------------------------------------------
(* The invariant. *)

LEMMA ServiceInvInit == Init => ServiceInv
<1> SUFFICES ASSUME Init PROVE ServiceInv OBVIOUS
<1>1. \A t \in Transfers : xfer[t].data = <<>> /\ xfer[t].trouble = {}
  BY DEF Init, Entered
<1>2. \A g \in GuestPaths : tmp[g] = Absent
  BY DEF Init
<1>3. late = {}
  BY DEF Init
<1> QED BY <1>1, <1>2, <1>3 DEF ServiceInv, HeldOK, MixOK

(* What was read to be copied to g stays so. *)
LEMMA PushedGrows ==
  ASSUME NEW g,
         \A s \in Transfers :
           /\ xfer'[s].push = xfer[s].push /\ xfer'[s].gp = xfer[s].gp
           /\ xfer'[s].data = xfer[s].data
           \/ xfer[s].data = <<>>
  PROVE  \A d \in Service!Pushed(g) : d \in Service!Pushed(g)' \/ d = <<>>
<1>1. Service!Pushed(g)' =
        {xfer'[s].data : s \in {r \in Transfers : xfer'[r].push /\ xfer'[r].gp = g}}
  BY DEF Service!Pushed, CallOf
<1> QED BY <1>1, PushedIs

(* A step that reads no second file, and fills a temporary file with what  *)
(* was read for it, keeps the invariant.                                   *)
LEMMA Keeps ==
  ASSUME CopyInv, ServiceInv,
         \A s \in Transfers :
           /\ xfer'[s].push = xfer[s].push /\ xfer'[s].gp = xfer[s].gp
           /\ xfer'[s].data = xfer[s].data
           \/ xfer[s].data = <<>>,
         \A s \in Transfers : HeldOK(xfer'[s]),
         \A s \in Transfers : StatusOf(xfer[s]) = "over" => StatusOf(xfer'[s]) = "over",
         \A m \in late' : m \in late \/ ("killed" \in Faults /\ StatusOf(xfer'[m.from]) = "over"),
         \A g \in GuestPaths :
           tmp'[g] \in {tmp[g], Absent} \/ Service!MadeOf(tmp'[g], Service!Pushed(g))
  PROVE  ServiceInv'
<1>1. ASSUME NEW g \in GuestPaths PROVE MixOK(g)'
  <2> SUFFICES ASSUME tmp'[g] # Absent
               PROVE  Service!MadeOf(tmp'[g], Service!Pushed(g)')
    BY DEF MixOK, Service!MadeOf, Service!Files
  <2>1. Service!MadeOf(tmp'[g], Service!Pushed(g))
    BY DEF ServiceInv, MixOK
  <2> QED BY <2>1, PushedGrows, MadeGrows
<1>2. ASSUME NEW m \in late' PROVE OrphanOK(m)'
  <2>1. m \in late => OrphanOK(m) /\ m.from \in Transfers
    BY DEF ServiceInv, CopyInv, TypeOK, Command
  <2> QED BY <2>1 DEF OrphanOK
<1> QED BY <1>1, <1>2 DEF ServiceInv, HeldOK

LEMMA OwnKeeps ==
  ASSUME CopyInv, ServiceInv, NEW t \in Transfers, NEW k,
         xfer' = [xfer EXCEPT ![t] = k], Active(xfer[t]),
         k.push = xfer[t].push, k.gp = xfer[t].gp,
         k.data = xfer[t].data \/ xfer[t].data = <<>>,
         HeldOK(k),
         \A m \in late' :
           m \in late \/ (m.from = t /\ "killed" \in Faults /\ StatusOf(k) = "over"),
         \A g \in GuestPaths :
           tmp'[g] \in {tmp[g], Absent} \/ Service!MadeOf(tmp'[g], Service!Pushed(g))
  PROVE  ServiceInv'
<1>1. \A s \in Transfers : xfer'[s] = IF s = t THEN k ELSE xfer[s]
  BY DEF CopyInv, TypeOK
<1>2. StatusOf(xfer[t]) # "over"
  <2>1. xfer[t] \in Transfer
    BY XferFacts
  <2> QED BY <2>1 DEF StatusOf, Active, Transfer, CommandSteps, GuestSteps
<1>3. \A s \in Transfers : StatusOf(xfer[s]) = "over" => StatusOf(xfer'[s]) = "over"
  BY <1>1, <1>2
<1>4. \A s \in Transfers : HeldOK(xfer'[s])
  BY <1>1 DEF ServiceInv
<1> QED BY <1>1, <1>3, <1>4, Keeps

LEMMA ReplyKeeps ==
  ASSUME CopyInv, ServiceInv, NEW t \in Transfers, NEW reply, NEW trouble,
         Active(xfer[t]), Reply(t, reply, trouble),
         \A m \in late' :
           m \in late \/ (m.from = t /\ "killed" \in Faults /\ reply = "error"),
         \A g \in GuestPaths : tmp'[g] \in {tmp[g], Absent}
           \/ Service!MadeOf(tmp'[g], Service!Pushed(g))
  PROVE  ServiceInv'
<1> DEFINE k == Answered(xfer[t], reply, trouble)
<1>1. xfer[t] \in Transfer
  BY XferFacts
<1>2. /\ k.push = xfer[t].push /\ k.gp = xfer[t].gp
      /\ k.data = xfer[t].data /\ k.pc = "answered" /\ k.reply = reply
  BY <1>1 DEF Answered, Transfer
<1>3. xfer' = [xfer EXCEPT ![t] = k]
  BY DEF Reply
<1> HIDE DEF k
<1>4. reply = "error" => StatusOf(k) = "over"
  BY <1>2 DEF StatusOf, GuestSteps
<1>5. HeldOK(k)
  BY <1>2 DEF HeldOK
<1> QED BY <1>2, <1>3, <1>4, <1>5, OwnKeeps

LEMMA GoOnKeeps ==
  ASSUME CopyInv, ServiceInv, NEW t \in Transfers, NEW pc, NEW sent, NEW trouble,
         Active(xfer[t]), GoOn(t, pc, sent, trouble),
         pc \in {"readHost", "readGuest"} => xfer[t].pc = "info",
         pc \in {"append", "decode", "write", "readHost", "readGuest"},
         \A m \in late' : m \in late,
         \A g \in GuestPaths : tmp'[g] \in {tmp[g], Absent}
           \/ Service!MadeOf(tmp'[g], Service!Pushed(g))
  PROVE  ServiceInv'
<1> DEFINE k == Moved(xfer[t], pc, sent, trouble)
<1>1. xfer[t] \in Transfer /\ HeldOK(xfer[t])
  BY XferFacts DEF ServiceInv
<1>2. /\ k.push = xfer[t].push /\ k.gp = xfer[t].gp
      /\ k.data = xfer[t].data /\ k.pc = pc
  BY <1>1 DEF Moved, Transfer
<1>3. xfer' = [xfer EXCEPT ![t] = k]
  BY DEF GoOn
<1> HIDE DEF k
<1>4. HeldOK(k)
  BY <1>1, <1>2 DEF HeldOK
<1> QED BY <1>2, <1>3, <1>4, OwnKeeps

-----------------------------------------------------------------------------
(* The steps of one call. *)

(* The instance's next-state relation, and what is left of it when no      *)
(* variable of CopyService changes.                                        *)
Implemented == Service!Next \/ UNCHANGED Service!vars

LEMMA Quiet ==
  ASSUME UNCHANGED <<host, guest>>, Calls' = Calls, Clear' = Clear
  PROVE  Implemented
  BY DEF Implemented, Service!vars, Calls, Clear

LEMMA SpawnImplements ==
  ASSUME CopyInv, ServiceInv, NEW t \in Transfers, Spawn(t)
  PROVE  ServiceInv' /\ Implemented
<1> DEFINE k == [xfer[t] EXCEPT !.running = TRUE]
<1>1. xfer[t] \in Transfer /\ HeldOK(xfer[t])
  BY XferFacts DEF ServiceInv
<1>2. /\ k.push = xfer[t].push /\ k.hp = xfer[t].hp /\ k.gp = xfer[t].gp
      /\ k.data = xfer[t].data /\ k.pc = xfer[t].pc /\ k.reply = xfer[t].reply
      /\ k.trouble = xfer[t].trouble
  BY <1>1 DEF Transfer
<1>3. xfer' = [xfer EXCEPT ![t] = k] /\ UNCHANGED <<host, guest, tmp, late, up>>
      /\ xfer[t].pc \in CommandSteps
  BY DEF Spawn
<1> HIDE DEF k
<1>4. CallOf(k) = CallOf(xfer[t]) /\ HeldOK(k)
  BY <1>1, <1>2 DEF CallOf, StatusOf, HeldOK
<1>5. Active(xfer[t])
  BY <1>3 DEF Active, CommandSteps, GuestSteps
<1>6. ServiceInv'
  BY <1>2, <1>3, <1>4, <1>5, OwnKeeps
<1> QED BY <1>2, <1>3, <1>4, <1>6, Stutters, Quiet

LEMMA CancelImplements ==
  ASSUME CopyInv, ServiceInv, NEW t \in Transfers, Cancel(t)
  PROVE  ServiceInv' /\ Implemented
<1> DEFINE k == [xfer[t] EXCEPT !.cancelled = TRUE]
<1>1. xfer[t] \in Transfer /\ HeldOK(xfer[t])
  BY XferFacts DEF ServiceInv
<1>2. /\ k.push = xfer[t].push /\ k.hp = xfer[t].hp /\ k.gp = xfer[t].gp
      /\ k.data = xfer[t].data /\ k.pc = xfer[t].pc /\ k.reply = xfer[t].reply
      /\ k.trouble = xfer[t].trouble
  BY <1>1 DEF Transfer
<1>3. xfer' = [xfer EXCEPT ![t] = k] /\ UNCHANGED <<host, guest, tmp, late, up>>
      /\ Active(xfer[t])
  BY DEF Cancel
<1> HIDE DEF k
<1>4. CallOf(k) = CallOf(xfer[t]) /\ HeldOK(k)
  BY <1>1, <1>2 DEF CallOf, StatusOf, HeldOK
<1>5. ServiceInv'
  BY <1>2, <1>3, <1>4, OwnKeeps
<1> QED BY <1>2, <1>3, <1>4, <1>5, Stutters, Quiet

LEMMA InfoImplements ==
  ASSUME CopyInv, ServiceInv, NEW t \in Transfers, Info(t)
  PROVE  ServiceInv' /\ Implemented
<1>1. xfer[t].pc = "info" /\ UNCHANGED <<host, guest, tmp, late, up>>
  BY DEF Info, Ends0
<1>2. Active(xfer[t])
  BY <1>1 DEF Active
<1>3. CASE Reply(t, "error", {})
  BY <1>1, <1>2, <1>3, ReplyKeeps, FailsQuietly DEF Implemented, Service!Next
<1>4. CASE GoOn(t, IF xfer[t].push THEN "readHost" ELSE "readGuest", 0, {})
  <2>1. PICK pc \in {"readHost", "readGuest"} : GoOn(t, pc, 0, {})
    BY <1>4
  <2>2. {xfer[t].pc, pc} \subseteq {"info", "readHost", "readGuest"}
    BY <1>1
  <2>3. ServiceInv'
    BY <1>1, <1>2, <2>1, GoOnKeeps
  <2> QED BY <1>1, <2>1, <2>2, <2>3, GoOnIsQuiet, Quiet
<1> QED BY <1>3, <1>4 DEF Info

LEMMA ReadHostImplements ==
  ASSUME CopyInv, ServiceInv, NEW t \in Transfers, ReadHost(t)
  PROVE  ServiceInv' /\ Implemented
<1>1. xfer[t].pc = "readHost" /\ UNCHANGED <<host, guest, tmp, late, up>>
  BY DEF ReadHost
<1>2. Active(xfer[t]) /\ xfer[t].data = <<>> /\ xfer[t].push
  BY <1>1, XferFacts DEF Active, ServiceInv, HeldOK, XferOK
<1>3. CASE Reply(t, "error", {})
  BY <1>1, <1>2, <1>3, ReplyKeeps, FailsQuietly DEF Implemented, Service!Next
<1>4. CASE xfer' = [xfer EXCEPT ![t] =
                     [@ EXCEPT !.pc = "setup", !.data = host[xfer[t].hp]]]
  <2> DEFINE k == [xfer[t] EXCEPT !.pc = "setup", !.data = host[xfer[t].hp]]
  <2>1. xfer[t] \in Transfer /\ host[xfer[t].hp] \in Seq(Blocks)
    BY XferFacts DEF CopyInv, TypeOK
  <2>2. /\ k.push = xfer[t].push /\ k.hp = xfer[t].hp /\ k.gp = xfer[t].gp
        /\ k.pc = "setup" /\ k.trouble = xfer[t].trouble
        /\ k.data = host[xfer[t].hp]
    BY <2>1 DEF Transfer
  <2>3. xfer' = [xfer EXCEPT ![t] = k]
    BY <1>4
  <2> HIDE DEF k
  <2>4. StatusOf(k) = "holding" /\ HeldOK(k) /\ StatusOf(xfer[t]) = "pending"
    BY <1>1, <2>2 DEF StatusOf, HeldOK, GuestSteps
  <2>5. ServiceInv'
    BY <1>1, <1>2, <2>2, <2>3, <2>4, OwnKeeps
  <2>6. Service!Become(t, "holding", host[xfer[t].hp]) /\ Clear' = Clear
    BY <2>2, <2>3, <2>4, Becomes
  <2>7. host[xfer[t].hp] # Absent
    BY <2>1, TransferAssumption
  <2>8. Service!Read(t)
    BY <1>1, <1>2, <2>4, <2>6, <2>7, ServedIs DEF Service!Read, Calls, Clear
  <2> QED BY <2>5, <2>8 DEF Implemented, Service!Next
<1> QED BY <1>3, <1>4 DEF ReadHost

(* A step of the loop whose command failed unseen; without trouble it is   *)
(* nothing to CopyService.                                                 *)
LEMMA LoopImplements ==
  ASSUME CopyInv, NEW t \in Transfers, NEW pc \in {"append", "decode"},
         xfer[t].pc \in {"setup", "append"}, NEW sent, NEW trouble,
         GoOn(t, pc, sent, trouble), UNCHANGED <<host, guest>>,
         trouble # {} => Faults \cap {"failed", "notStarted"} # {}
  PROVE  Implemented
<1>1. {xfer[t].pc, pc} \subseteq GuestSteps \cup {"open", "write"}
  BY DEF GuestSteps
<1>2. /\ Calls' = Calls
      /\ trouble = {} => Clear' = Clear
      /\ trouble # {} => Clear' = Clear \ {t}
  BY <1>1, GoOnIsQuiet
<1>3. StatusOf(xfer[t]) = "holding"
  BY DEF StatusOf, GuestSteps
<1>4. trouble # {} => Service!Falter(t)
  BY <1>2, <1>3, ServedIs DEF Service!Falter, Calls, Clear
<1> QED BY <1>2, <1>4, Quiet DEF Implemented, Service!Next

(* A command left behind belongs to a call that is answered with an error. *)
LEMMA LeftBehind ==
  ASSUME TypeOK, NEW t \in Transfers, NEW pc \in GuestSteps, NEW end \in Ends,
         Ends0(t, pc, end), InGuest(t, pc, end)
  PROVE  /\ \A m \in late' :
              m \in late \/ (m.from = t /\ "killed" \in Faults /\ end = "killed")
         /\ end = "killed" => ExecErr(end, xfer[t].cancelled) # "nil"
<1>1. end = "killed" => "killed" \in Faults /\ xfer[t].cancelled
  BY DEF Ends0
<1>2. late' = late \/
      (end = "killed" /\ late' = late \cup {[from |-> t, step |-> pc, sent |-> xfer[t].sent]})
  BY DEF InGuest
<1> QED BY <1>1, <1>2 DEF ExecErr

(* Trouble that is not reported is a command that failed or never started. *)
LEMMA UnreportedMisses ==
  ASSUME NEW t, NEW pc, NEW end, Ends0(t, pc, end), Unreported(t, end) # {}
  PROVE  Faults \cap {"failed", "notStarted"} # {} /\ end = "notStarted"
  BY DEF Ends0, Unreported

LEMMA SetupImplements ==
  ASSUME CopyInv, ServiceInv, NEW t \in Transfers, Setup(t)
  PROVE  ServiceInv' /\ Implemented
<1>1. PICK end \in Ends :
        /\ Ends0(t, "setup", end)
        /\ InGuest(t, "setup", end)
        /\ IF ExecErr(end, xfer[t].cancelled) = "nil"
           THEN GoOn(t, AfterChunks(xfer[t], 0), 0,
                     Unreported(t, end) \cup IF end = "failed" THEN {"setup"} ELSE {})
           ELSE Reply(t, "error", {})
        /\ UNCHANGED <<host, up>>
  BY DEF Setup
<1>2. xfer[t].pc = "setup" /\ "setup" \in GuestSteps
  BY <1>1 DEF Ends0, GuestSteps
<1>3. Active(xfer[t]) /\ xfer[t].gp \in GuestPaths
  BY <1>2, XferFacts DEF Active
<1>4. UNCHANGED guest /\ \A g \in GuestPaths : tmp'[g] \in {tmp[g], Absent}
  BY <1>1, <1>3 DEF InGuest, Does, SetUp, TmpOf, CopyInv, TypeOK
<1>5. CASE ExecErr(end, xfer[t].cancelled) # "nil"
  <2>1. \A m \in late' : m \in late \/ (m.from = t /\ "killed" \in Faults)
    BY <1>1, <1>2, LeftBehind DEF CopyInv
  <2>2. ServiceInv'
    BY <1>1, <1>3, <1>4, <1>5, <2>1, ReplyKeeps
  <2> QED BY <1>1, <1>3, <1>4, <1>5, <2>2, FailsQuietly DEF Implemented, Service!Next
<1>6. CASE ExecErr(end, xfer[t].cancelled) = "nil"
  <2> DEFINE trouble == Unreported(t, end) \cup IF end = "failed" THEN {"setup"} ELSE {}
  <2>1. PICK pc \in {"append", "decode"} : GoOn(t, pc, 0, trouble)
    BY <1>1, <1>6 DEF AfterChunks
  <2>2. trouble # {} => Faults \cap {"failed", "notStarted"} # {}
    BY <1>1, <2>1, UnreportedMisses DEF Ends0
  <2>3. \A m \in late' : m \in late
    BY <1>1, <1>2, <1>6, LeftBehind DEF CopyInv
  <2>4. ServiceInv'
    BY <1>3, <1>4, <2>1, <2>3, GoOnKeeps
  <2> QED BY <1>1, <1>2, <1>4, <2>1, <2>2, <2>4, LoopImplements
<1> QED BY <1>5, <1>6

(* An appended chunk was read for this path. *)
LEMMA AppendMix ==
  ASSUME CopyInv, ServiceInv, NEW t \in Transfers, xfer[t].push, NEW n \in Nat,
         n < Len(xfer[t].data), AppendText(xfer[t].gp, xfer[t].data[n + 1])
  PROVE  /\ UNCHANGED guest
         /\ \A g \in GuestPaths : tmp'[g] \in {tmp[g], Absent}
              \/ Service!MadeOf(tmp'[g], Service!Pushed(g))
<1> DEFINE p == xfer[t].gp
           d == xfer[t].data
<1>1. p \in GuestPaths /\ d \in Seq(Blocks) /\ n + 1 \in 1..Len(d)
  BY XferFacts
<1>2. d \in Service!Pushed(p)
  BY PushedIs
<1>3. Service!MadeOf(Text(tmp[p]), Service!Pushed(p))
  BY <1>1, MadeEmpty DEF Text, ServiceInv, MixOK
<1>4. tmp' = [tmp EXCEPT ![p] = Append(Text(tmp[p]), d[n + 1])] /\ UNCHANGED guest
  BY DEF AppendText, TmpOf
<1>5. Service!MadeOf(Append(Text(tmp[p]), d[n + 1]), Service!Pushed(p))
  BY <1>1, <1>2, <1>3, MadeAppend
<1> HIDE DEF p, d
<1> QED BY <1>1, <1>4, <1>5 DEF CopyInv, TypeOK

LEMMA AppendImplements ==
  ASSUME CopyInv, ServiceInv, NEW t \in Transfers, AppendChunk(t)
  PROVE  ServiceInv' /\ Implemented
<1>1. PICK end \in Ends :
        /\ Ends0(t, "append", end)
        /\ InGuest(t, "append", end)
        /\ IF ExecSucceeds(end, xfer[t].cancelled)
           THEN GoOn(t, AfterChunks(xfer[t], xfer[t].sent + 1), xfer[t].sent + 1,
                     Unreported(t, end))
           ELSE Reply(t, "error", {})
        /\ UNCHANGED <<host, up>>
  BY DEF AppendChunk
<1>2. xfer[t].pc = "append" /\ "append" \in GuestSteps
  BY <1>1 DEF Ends0, GuestSteps
<1>3. /\ Active(xfer[t]) /\ xfer[t].gp \in GuestPaths /\ xfer[t].push
      /\ xfer[t].sent \in Nat /\ xfer[t].sent < Len(xfer[t].data)
  BY <1>2, XferFacts DEF Active, XferOK, GuestSteps
<1>4. /\ UNCHANGED guest
      /\ \A g \in GuestPaths : tmp'[g] \in {tmp[g], Absent}
           \/ Service!MadeOf(tmp'[g], Service!Pushed(g))
  <2>1. CASE AppendText(xfer[t].gp, xfer[t].data[xfer[t].sent + 1])
    BY <1>3, <2>1, AppendMix
  <2>2. CASE UNCHANGED <<guest, tmp>>
    BY <2>2
  <2> QED BY <1>1, <2>1, <2>2 DEF InGuest, Does, Chunk
<1>5. CASE ~ExecSucceeds(end, xfer[t].cancelled)
  <2>1. \A m \in late' : m \in late \/ (m.from = t /\ "killed" \in Faults)
    BY <1>1, <1>2, LeftBehind DEF CopyInv
  <2>2. ServiceInv'
    BY <1>1, <1>3, <1>4, <1>5, <2>1, ReplyKeeps
  <2> QED BY <1>1, <1>3, <1>4, <1>5, <2>2, FailsQuietly DEF Implemented, Service!Next
<1>6. CASE ExecSucceeds(end, xfer[t].cancelled)
  <2>1. PICK pc \in {"append", "decode"} :
          GoOn(t, pc, xfer[t].sent + 1, Unreported(t, end))
    BY <1>1, <1>6 DEF AfterChunks
  <2>2. Unreported(t, end) # {} => Faults \cap {"failed", "notStarted"} # {}
    BY <1>1, UnreportedMisses
  <2>3. \A m \in late' : m \in late
    BY <1>1, <1>2, <1>6, LeftBehind DEF CopyInv, ExecSucceeds
  <2>4. ServiceInv'
    BY <1>3, <1>4, <2>1, <2>3, GoOnKeeps
  <2> QED BY <1>1, <1>2, <1>4, <2>1, <2>2, <2>4, LoopImplements
<1> QED BY <1>5, <1>6

(* What a decode leaves at the destination, and in the temporary file.     *)
LEMMA DecodeLeaves ==
  ASSUME CopyInv, ServiceInv, NEW p \in GuestPaths,
         \/ DecodeText(p)
         \/ DecodeBreaks(p) /\ UNCHANGED tmp
         \/ DecodeBreaks(p) /\ tmp' = [tmp EXCEPT ![TmpOf(p)] = Absent]
  PROVE  /\ \/ UNCHANGED guest
            \/ /\ Service!Alone(guest, guest', p)
               /\ Service!MadeOf(guest'[p], Service!Pushed(p))
               /\ \E n \in 0..Len(Text(tmp[p])) : guest'[p] = SubSeq(Text(tmp[p]), 1, n)
         /\ \A g \in GuestPaths : tmp'[g] \in {tmp[g], Absent}
<1> DEFINE f == Text(tmp[p])
<1>1. Service!MadeOf(f, Service!Pushed(p)) /\ f \in Seq(Blocks) /\ Len(f) \in Nat
  BY MadeEmpty, TextType, LenProperties DEF Text, ServiceInv, MixOK, CopyInv, TypeOK
<1>2. \A n \in 0..Len(f) : Service!MadeOf(SubSeq(f, 1, n), Service!Pushed(p))
  BY <1>1, MadePrefix
<1>3. SubSeq(f, 1, Len(f)) = f
  BY <1>1, SubSeqFull
<1>4. \/ UNCHANGED guest
      \/ \E n \in 0..Len(f) : guest' = [guest EXCEPT ![p] = SubSeq(f, 1, n)]
  <2>1. CASE DecodeText(p)
    <3>1. f = tmp[p] /\ guest' = [guest EXCEPT ![p] = tmp[p]] /\ Len(f) \in 0..Len(f)
      BY <1>1, <2>1 DEF DecodeText, TmpOf, Text
    <3> QED BY <1>3, <3>1
  <2>2. CASE DecodeBreaks(p)
    BY <2>2 DEF DecodeBreaks, TmpOf
  <2> QED BY <2>1, <2>2
<1>5. \A g \in GuestPaths : tmp'[g] \in {tmp[g], Absent}
  BY DEF DecodeText, TmpOf, CopyInv, TypeOK
<1> HIDE DEF f
<1>6. ASSUME NEW n \in 0..Len(f), guest' = [guest EXCEPT ![p] = SubSeq(f, 1, n)]
      PROVE  /\ Service!Alone(guest, guest', p) /\ guest'[p] = SubSeq(f, 1, n)
             /\ Service!MadeOf(guest'[p], Service!Pushed(p))
  BY <1>2, <1>6 DEF Service!Alone, CopyInv, TypeOK
<1> QED BY <1>4, <1>5, <1>6 DEF f

(* What an untroubled push decodes is what it read. *)
LEMMA ClearText ==
  ASSUME CopyInv, NEW t \in Transfers, xfer[t].pc = "decode", xfer[t].trouble = {}
  PROVE  Text(tmp[xfer[t].gp]) = xfer[t].data
<1> DEFINE d == xfer[t].data
<1>1. /\ d \in Seq(Blocks) /\ xfer[t].sent = Len(d) /\ xfer[t].push
      /\ TracksLoop(xfer[t], tmp[xfer[t].gp])
  BY XferFacts DEF XferOK, GuestSteps
<1>2. tmp[xfer[t].gp] = IF Len(d) = 0 THEN Absent ELSE SubSeq(d, 1, Len(d))
  BY <1>1 DEF TracksLoop
<1>3. SubSeq(d, 1, Len(d)) = d /\ (Len(d) = 0 => d = <<>>) /\ d # Absent
  BY <1>1, SubSeqFull, EmptySeq, TransferAssumption
<1> HIDE DEF d
<1>4. Text(tmp[xfer[t].gp]) = d
  BY <1>2, <1>3 DEF Text
<1> QED BY <1>4 DEF d

(* Mixture, of a push: nothing, or what a decode left. *)
Uncovered(p) ==
  \/ UNCHANGED guest
  \/ /\ Service!Alone(guest, guest', p)
     /\ Service!MadeOf(guest'[p], Service!Pushed(p))
     /\ \E n \in 0..Len(Text(tmp[p])) : guest'[p] = SubSeq(Text(tmp[p]), 1, n)

LEMMA UncoveredIsMixture ==
  ASSUME CopyInv, NEW t \in Transfers, xfer[t].push, Uncovered(xfer[t].gp), UNCHANGED host
  PROVE  Service!Mixture(CallOf(xfer[t]))
  BY ServedIs DEF Uncovered, Service!Mixture

LEMMA DecodeFails ==
  ASSUME CopyInv, NEW t \in Transfers, xfer[t].pc = "decode", Uncovered(xfer[t].gp),
         Reply(t, "error", {}), UNCHANGED host
  PROVE  Service!Fail(t)
<1>1. Service!Become(t, "over", xfer[t].data) /\ Clear' = Clear
  BY ReplyBecomes
<1>2. StatusOf(xfer[t]) = "holding" /\ xfer[t].push
  BY XferFacts DEF StatusOf, GuestSteps, XferOK
<1>3. xfer[t].trouble = {} => Service!PartOf(CallOf(xfer[t]))
  BY <1>2, ClearText, ServedIs DEF Uncovered, Service!PartOf, Service!Prefix
<1>4. Service!Mixture(CallOf(xfer[t]))
  BY <1>2, UncoveredIsMixture
<1> QED BY <1>1, <1>2, <1>3, <1>4, ServedIs DEF Service!Fail, Service!Open, Calls, Clear

LEMMA SucceedsUnclear ==
  ASSUME CopyInv, NEW t \in Transfers, NEW trouble, Reply(t, "ok", trouble),
         StatusOf(xfer[t]) = "holding", Service!Mixture(CallOf(xfer[t])),
         trouble # {} => Faults \cap {"failed", "notStarted"} # {},
         xfer[t].trouble \cup trouble # {}
  PROVE  Service!Succeed(t)
<1>1. /\ Service!Become(t, "ok", xfer[t].data)
      /\ trouble = {} => Clear' = Clear
      /\ trouble # {} => Clear' = Clear \ {t}
  BY ReplyBecomes
<1>2. Clear' = Clear \ {t}
  BY <1>1, ServedIs
<1> QED BY <1>1, <1>2, ServedIs DEF Service!Succeed, Calls, Clear

LEMMA DecodeImplements ==
  ASSUME CopyInv, ServiceInv, NEW t \in Transfers, Decode(t)
  PROVE  ServiceInv' /\ Implemented
<1> DEFINE p == xfer[t].gp
<1>1. xfer[t].pc = "decode" /\ "decode" \in GuestSteps /\ UNCHANGED <<host, up>>
  BY DEF Decode, Ends0, GuestSteps
<1>2. xfer[t].push /\ Active(xfer[t]) /\ p \in GuestPaths /\ StatusOf(xfer[t]) = "holding"
  BY <1>1, XferFacts DEF XferOK, Active, StatusOf, GuestSteps
<1>3. CASE \E end \in Ends :
             /\ Ends0(t, "decode", end) /\ InGuest(t, "decode", end)
             /\ Reply(t, IF ExecSucceeds(end, xfer[t].cancelled) THEN "ok" ELSE "error",
                      Unreported(t, end))
  <2>1. PICK end \in Ends :
          /\ Ends0(t, "decode", end) /\ InGuest(t, "decode", end)
          /\ Reply(t, IF ExecSucceeds(end, xfer[t].cancelled) THEN "ok" ELSE "error",
                   Unreported(t, end))
    BY <1>3
  <2>2. /\ \/ DecodeText(p)
           \/ DecodeBreaks(p) /\ UNCHANGED tmp
           \/ UNCHANGED <<guest, tmp>>
        /\ end = "exit0" => DecodeText(p)
        /\ end = "notStarted" => UNCHANGED guest
    BY <2>1 DEF InGuest, Does
  <2>3. Uncovered(p) /\ \A g \in GuestPaths : tmp'[g] \in {tmp[g], Absent}
    BY <1>2, <2>2, DecodeLeaves DEF Uncovered
  <2>4. /\ \A m \in late' : m \in late \/ (m.from = t /\ "killed" \in Faults /\ end = "killed")
        /\ end = "killed" => ~ExecSucceeds(end, xfer[t].cancelled)
    BY <1>1, <2>1, LeftBehind DEF CopyInv, ExecSucceeds
  <2>5. ServiceInv'
    BY <1>2, <2>1, <2>3, <2>4, ReplyKeeps
  <2>6. CASE ~ExecSucceeds(end, xfer[t].cancelled)
    <3>1. Unreported(t, end) = {}
      <4>1. xfer[t].cancelled \in BOOLEAN
        BY XferFacts DEF Transfer
      <4> QED BY <2>6, <4>1 DEF Unreported, ExecSucceeds, ExecErr, ExitCodeZero,
                                LooksLikeExecFailure
    <3>2. Service!Fail(t)
      BY <1>1, <2>1, <2>3, <2>6, <3>1, DecodeFails
    <3> QED BY <2>5, <3>2 DEF Implemented, Service!Next
  <2>7. CASE ExecSucceeds(end, xfer[t].cancelled)
    <3>1. Reply(t, "ok", Unreported(t, end))
      BY <2>1, <2>7
    <3>2. Service!Mixture(CallOf(xfer[t]))
      BY <1>1, <1>2, <2>3, UncoveredIsMixture
    <3>3. Unreported(t, end) # {} => Faults \cap {"failed", "notStarted"} # {}
      BY <2>1, UnreportedMisses
    <3>4. CASE xfer[t].trouble \cup Unreported(t, end) # {}
      BY <1>2, <2>5, <3>1, <3>2, <3>3, <3>4, SucceedsUnclear DEF Implemented, Service!Next
    <3>5. CASE xfer[t].trouble \cup Unreported(t, end) = {}
      <4>1. end = "exit0"
        BY <2>1, <2>7, <3>5, QuietEnds DEF CopyInv, ExecSucceeds, ExitCodeZero
      <4>2. guest' = [guest EXCEPT ![p] = tmp[p]] /\ tmp[p] # Absent
        BY <2>2, <4>1 DEF DecodeText, TmpOf
      <4>3. tmp[p] = xfer[t].data
        BY <1>1, <3>5, <4>2, ClearText DEF Text
      <4>4. Service!Copy(CallOf(xfer[t]))
        BY <1>1, <1>2, <4>2, <4>3, ServedIs DEF Service!Copy
      <4>5. Unreported(t, end) = {} /\ xfer[t].trouble = {}
        BY <3>5
      <4>6. Service!Become(t, "ok", xfer[t].data) /\ Clear' = Clear
        BY <3>1, <4>5, ReplyBecomes
      <4>7. Service!Succeed(t)
        BY <1>2, <4>4, <4>5, <4>6, ServedIs DEF Service!Succeed, Calls, Clear
      <4> QED BY <2>5, <4>7 DEF Implemented, Service!Next
    <3> QED BY <3>4, <3>5
  <2> QED BY <2>6, <2>7
<1>4. CASE DecodeBreaks(p) /\ Reply(t, "error", {}) /\ UNCHANGED <<tmp, late>>
  <2>1. Uncovered(p)
    BY <1>2, <1>4, DecodeLeaves DEF Uncovered
  <2>2. ServiceInv'
    BY <1>2, <1>4, ReplyKeeps
  <2> QED BY <1>1, <1>4, <2>1, <2>2, DecodeFails DEF Implemented, Service!Next
<1>5. CASE /\ "failed" \in Faults /\ DecodeBreaks(p)
           /\ tmp' = [tmp EXCEPT ![TmpOf(p)] = Absent]
           /\ Reply(t, "ok", {"decode"}) /\ UNCHANGED late
  <2>1. Uncovered(p) /\ \A g \in GuestPaths : tmp'[g] \in {tmp[g], Absent}
    BY <1>2, <1>5, DecodeLeaves DEF Uncovered
  <2>2. ServiceInv'
    BY <1>2, <1>5, <2>1, ReplyKeeps
  <2>3. Service!Mixture(CallOf(xfer[t]))
    BY <1>1, <1>2, <2>1, UncoveredIsMixture
  <2>4. Service!Succeed(t)
    BY <1>2, <1>5, <2>3, SucceedsUnclear
  <2> QED BY <2>2, <2>4 DEF Implemented, Service!Next
<1> QED BY <1>3, <1>4, <1>5 DEF Decode

LEMMA ReadGuestImplements ==
  ASSUME CopyInv, ServiceInv, NEW t \in Transfers, ReadGuest(t)
  PROVE  ServiceInv' /\ Implemented
<1>1. xfer[t].pc = "readGuest" /\ UNCHANGED <<host, guest, tmp, late, up>>
  BY DEF ReadGuest, Ends0
<1>2. /\ Active(xfer[t]) /\ xfer[t].data = <<>> /\ ~xfer[t].push
      /\ xfer[t] \in Transfer /\ StatusOf(xfer[t]) = "pending"
  BY <1>1, XferFacts DEF Active, ServiceInv, HeldOK, XferOK, StatusOf, GuestSteps
<1>3. CASE Reply(t, "error", {})
  BY <1>1, <1>2, <1>3, ReplyKeeps, FailsQuietly DEF Implemented, Service!Next
<1>4. CASE ~Reply(t, "error", {})
  <2>1. PICK end \in Ends :
          /\ Ends0(t, "readGuest", end)
          /\ ExecSucceeds(end, xfer[t].cancelled)
          /\ end = "exit0" => guest[xfer[t].gp] # Absent
          /\ xfer' = [xfer EXCEPT ![t] =
               [Moved(xfer[t], "open", 0, Unreported(t, end)) EXCEPT
                  !.data = IF end = "exit0" THEN guest[xfer[t].gp] ELSE <<>>]]
    BY <1>4 DEF ReadGuest
  <2> DEFINE d == IF end = "exit0" THEN guest[xfer[t].gp] ELSE <<>>
             trouble == Unreported(t, end)
             k == [Moved(xfer[t], "open", 0, trouble) EXCEPT !.data = d]
  <2>2. xfer' = [xfer EXCEPT ![t] = k]
    BY <2>1
  <2> HIDE DEF d, trouble
  <2>3. /\ k.push = xfer[t].push /\ k.hp = xfer[t].hp /\ k.gp = xfer[t].gp
        /\ k.data = d /\ k.pc = "open" /\ k.trouble = xfer[t].trouble \cup trouble
    BY <1>2 DEF Moved, Transfer
  <2> HIDE DEF k
  <2>4. StatusOf(k) = "holding" /\ HeldOK(k)
    BY <2>3 DEF StatusOf, HeldOK, GuestSteps
  <2>5. ServiceInv'
    BY <1>1, <1>2, <2>2, <2>3, <2>4, OwnKeeps
  <2>6. /\ Service!Become(t, "holding", d)
        /\ k.trouble = xfer[t].trouble => Clear' = Clear
        /\ k.trouble # {} => Clear' = Clear \ {t}
    BY <2>2, <2>3, <2>4, Becomes
  <2>7. CASE end = "exit0"
    <3>1. trouble = {} /\ d = guest[xfer[t].gp] /\ d # Absent
      BY <2>1, <2>7 DEF Unreported, d, trouble
    <3>2. Clear' = Clear
      BY <2>3, <2>6, <3>1
    <3>3. Service!Read(t)
      BY <1>1, <1>2, <2>6, <3>1, <3>2, ServedIs DEF Service!Read, Calls, Clear
    <3> QED BY <2>5, <3>3 DEF Implemented, Service!Next
  <2>8. CASE end # "exit0"
    <3>1. trouble # {} /\ d = <<>>
      BY <2>1, <2>8, QuietEnds DEF CopyInv, ExecSucceeds, ExitCodeZero, d, trouble
    <3>2. Clear' = Clear \ {t}
      BY <2>3, <2>6, <3>1
    <3>3. Faults \cap {"failed", "notStarted"} # {}
      BY <2>1, <3>1, UnreportedMisses DEF trouble
    <3>4. Service!Read(t)
      BY <1>1, <1>2, <2>6, <3>1, <3>2, <3>3, ServedIs DEF Service!Read, Calls, Clear
    <3> QED BY <2>5, <3>4 DEF Implemented, Service!Next
  <2> QED BY <2>7, <2>8
<1> QED BY <1>3, <1>4

LEMMA OpenHostImplements ==
  ASSUME CopyInv, ServiceInv, NEW t \in Transfers, OpenHost(t)
  PROVE  ServiceInv' /\ Implemented
<1>1. xfer[t].pc = "open" /\ UNCHANGED <<guest, tmp, late, up>>
  BY DEF OpenHost
<1>2. Active(xfer[t]) /\ ~xfer[t].push /\ StatusOf(xfer[t]) = "holding"
  BY <1>1, XferFacts DEF Active, XferOK, StatusOf, GuestSteps
<1>3. CASE Reply(t, "error", {}) /\ UNCHANGED host
  BY <1>1, <1>2, <1>3, ReplyKeeps, FailsQuietly DEF Implemented, Service!Next
<1>4. CASE GoOn(t, "write", 0, {}) /\ host' = [host EXCEPT ![xfer[t].hp] = <<>>]
  <2>1. ServiceInv'
    BY <1>1, <1>2, <1>4, GoOnKeeps
  <2>2. Calls' = Calls /\ Clear' = Clear
    BY <1>1, <1>4, GoOnIsQuiet
  <2>3. Service!Empty(t)
    BY <1>1, <1>2, <1>4, <2>2, ServedIs DEF Service!Empty, Calls, Clear
  <2> QED BY <2>1, <2>3 DEF Implemented, Service!Next
<1> QED BY <1>3, <1>4 DEF OpenHost

LEMMA WriteHostImplements ==
  ASSUME CopyInv, ServiceInv, NEW t \in Transfers, WriteHost(t)
  PROVE  ServiceInv' /\ Implemented
<1>1. PICK n \in 0..Len(xfer[t].data), reply \in {"ok", "error"} :
        /\ xfer[t].pc = "write"
        /\ reply = "ok" => n = Len(xfer[t].data)
        /\ host' = [host EXCEPT ![xfer[t].hp] = Over(@, xfer[t].data, n)]
        /\ Reply(t, reply, {})
        /\ UNCHANGED <<guest, tmp, late, up>>
  BY DEF WriteHost
<1> DEFINE h == xfer[t].hp
           d == xfer[t].data
<1>2. /\ Active(xfer[t]) /\ ~xfer[t].push /\ StatusOf(xfer[t]) = "holding"
      /\ h \in HostPaths /\ d \in Seq(Blocks) /\ host[h] \in Seq(Blocks)
      /\ PullOK(xfer[t], host[h])
  BY <1>1, XferFacts DEF Active, XferOK, StatusOf, GuestSteps, CopyInv, TypeOK
<1>3. ServiceInv'
  BY <1>1, <1>2, ReplyKeeps
<1>4. /\ Service!Become(t, IF reply = "ok" THEN "ok" ELSE "over", d)
      /\ Clear' = Clear
  BY <1>1, ReplyBecomes
<1>5. host'[h] = Over(host[h], d, n) /\ Service!Alone(host, host', h)
  BY <1>1, <1>2 DEF Service!Alone, CopyInv, TypeOK
<1>6. Service!Mixture(CallOf(xfer[t]))
  <2>1. Service!MadeOf(host'[h], {host[h], d})
    BY <1>2, <1>5, MadeOver
  <2> QED BY <1>1, <1>2, <1>5, <2>1, ServedIs DEF Service!Mixture
<1>7. xfer[t].trouble = {} => host[h] = <<>>
  BY <1>1, <1>2 DEF PullOK
<1>8. CASE reply = "ok"
  <2>1. CASE xfer[t].trouble = {}
    <3>1. host'[h] = d
      BY <1>1, <1>2, <1>5, <1>7, <1>8, <2>1, OverType, LenProperties
    <3>2. Service!Copy(CallOf(xfer[t]))
      BY <1>1, <1>2, <1>5, <3>1, ServedIs DEF Service!Copy, Service!Alone
    <3>3. Service!Succeed(t)
      BY <1>2, <1>4, <1>8, <2>1, <3>2, ServedIs DEF Service!Succeed, Calls, Clear
    <3> QED BY <1>3, <3>3 DEF Implemented, Service!Next
  <2>2. CASE xfer[t].trouble # {}
    <3>1. Service!Succeed(t)
      BY <1>1, <1>2, <1>6, <1>8, <2>2, SucceedsUnclear
    <3> QED BY <1>3, <3>1 DEF Implemented, Service!Next
  <2> QED BY <2>1, <2>2
<1>9. CASE reply = "error"
  <2>1. ASSUME xfer[t].trouble = {} PROVE Service!PartOf(CallOf(xfer[t]))
    <3>1. Over(<<>>, d, n) = SubSeq(d, 1, n)
      <4>1. SubSeq(d, 1, n) \in Seq(Blocks)
        BY <1>1, <1>2, PrefixType
      <4>2. SubSeq(<<>>, n + 1, 0) = <<>>
        BY <1>1, <1>2, SubSeqEmpty, LenProperties
      <4> QED BY <4>1, <4>2, ConcatEmptySeq DEF Over
    <3>2. host'[h] = SubSeq(d, 1, n)
      BY <1>5, <1>7, <2>1, <3>1
    <3> QED BY <1>1, <1>2, <1>5, <3>2, ServedIs DEF Service!PartOf, Service!Prefix
  <2>2. Service!Fail(t)
    BY <1>2, <1>4, <1>6, <1>9, <2>1, ServedIs DEF Service!Fail, Service!Open, Calls, Clear
  <2> QED BY <1>3, <2>2 DEF Implemented, Service!Next
<1> QED BY <1>8, <1>9

-----------------------------------------------------------------------------
(* The other steps. *)

(* A call comes in: those it meets are no longer clear, nor is it. *)
LEMMA EnterImplements ==
  ASSUME CopyInv, ServiceInv, NEW t \in Transfers, Enter(t)
  PROVE  ServiceInv' /\ Implemented
<1>1. PICK push \in BOOLEAN, h \in HostPaths, g \in GuestPaths :
        LET k == Entered(push, h, g, {})
            met == {s \in Transfers : Active(xfer[s]) /\ SameTarget(xfer[s], k)}
        IN  /\ xfer[t].pc = "idle"
            /\ xfer' = [s \in Transfers |->
                 CASE s = t -> IF met = {} THEN k ELSE Entered(push, h, g, {"overlap"})
                   [] s \in met -> Troubled(xfer[s], "overlap")
                   [] OTHER -> xfer[s]]
            /\ UNCHANGED <<host, guest, tmp, late, up>>
  BY DEF Enter
<1> DEFINE k == Entered(push, h, g, {})
           met == {s \in Transfers : Active(xfer[s]) /\ SameTarget(xfer[s], k)}
           k1 == IF met = {} THEN k ELSE Entered(push, h, g, {"overlap"})
           c == [push |-> push, hp |-> h, gp |-> g, data |-> <<>>, status |-> "pending"]
<1>2. /\ k1.push = push /\ k1.hp = h /\ k1.gp = g
      /\ k1.pc = "info" /\ k1.data = <<>>
      /\ (k1.trouble = {} <=> met = {})
  BY DEF Entered
<1>3. k.push = push /\ k.hp = h /\ k.gp = g
  BY DEF Entered
<1>4. /\ xfer[t].pc = "idle" /\ UNCHANGED <<host, guest, tmp, late, up>>
      /\ xfer' = [s \in Transfers |->
                    CASE s = t -> k1
                      [] s \in met -> Troubled(xfer[s], "overlap")
                      [] OTHER -> xfer[s]]
  BY <1>1
<1>5. t \notin met
  BY <1>4 DEF Active
<1>6. met = {s \in Transfers : Service!Open(Calls[s]) /\ Service!SameTarget(Calls[s], c)}
  <2>1. ASSUME NEW s \in Transfers
        PROVE  Service!Open(Calls[s]) <=> Active(xfer[s])
    BY XferFacts, ServedIs, ActiveIsOpen
  <2>2. ASSUME NEW s \in Transfers
        PROVE  Service!SameTarget(Calls[s], c) <=> SameTarget(xfer[s], k)
    BY <1>3, ServedIs DEF Service!SameTarget, SameTarget
  <2> QED BY <2>1, <2>2
<1> HIDE DEF k1, k
<1>7. /\ xfer'[t] = k1
      /\ \A s \in met : xfer'[s] = Troubled(xfer[s], "overlap")
      /\ \A s \in Transfers \ {t} : s \notin met => xfer'[s] = xfer[s]
  BY <1>4, <1>5
<1> HIDE DEF met
<1>8. met \subseteq Transfers
  BY DEF met
<1>9. ASSUME NEW s \in Transfers, s # t
      PROVE  /\ xfer'[s].push = xfer[s].push /\ xfer'[s].hp = xfer[s].hp
             /\ xfer'[s].gp = xfer[s].gp /\ xfer'[s].data = xfer[s].data
             /\ xfer'[s].pc = xfer[s].pc /\ StatusOf(xfer'[s]) = StatusOf(xfer[s])
             /\ xfer'[s].trouble = {} <=> xfer[s].trouble = {} /\ s \notin met
  <2>1. xfer[s] \in Transfer
    BY XferFacts
  <2>2. CASE s \in met
    <3>1. xfer'[s].reply = xfer[s].reply
      BY <1>7, <2>1, <2>2 DEF Troubled, Transfer
    <3>2. /\ xfer'[s].push = xfer[s].push /\ xfer'[s].hp = xfer[s].hp
          /\ xfer'[s].gp = xfer[s].gp /\ xfer'[s].data = xfer[s].data
          /\ xfer'[s].pc = xfer[s].pc /\ xfer'[s].trouble # {}
      BY <1>7, <2>1, <2>2, TroubledType DEF Troubles
    <3> QED BY <2>2, <3>1, <3>2 DEF StatusOf
  <2>3. CASE s \notin met
    BY <1>7, <1>9, <2>3
  <2> QED BY <2>2, <2>3
<1>10. StatusOf(k1) = "pending" /\ HeldOK(k1) /\ StatusOf(xfer[t]) = "idle"
       /\ xfer[t].data = <<>>
  <2>1. HeldOK(xfer[t])
    BY DEF ServiceInv
  <2>2. xfer[t].data = <<>> /\ HeldOK(k1)
    BY <1>2, <1>4, <2>1 DEF HeldOK
  <2>3. StatusOf(k1) = "pending" /\ StatusOf(xfer[t]) = "idle"
    BY <1>2, <1>4 DEF StatusOf, GuestSteps
  <2> QED BY <2>2, <2>3
<1>11. CallOf(k1) = c
  BY <1>2, <1>10 DEF CallOf
<1>12. Calls' = [Calls EXCEPT ![t] = c]
  <2>1. \A s \in Transfers : CallOf(xfer'[s]) = IF s = t THEN c ELSE CallOf(xfer[s])
    BY <1>7, <1>9, <1>11 DEF CallOf
  <2> QED BY <2>1 DEF Calls
<1>13. Clear' = IF met = {} THEN Clear ELSE Clear \ (met \cup {t})
  <2>2. \A s \in Transfers \ {t} : s \in Clear' <=> s \in Clear /\ s \notin met
    BY <1>9 DEF Clear
  <2>3. t \in Clear' <=> met = {}
    BY <1>2, <1>7 DEF Clear
  <2>4. t \in Clear
    BY <1>4 DEF ServiceInv, HeldOK, Clear
  <2> QED BY <1>8, <2>2, <2>3, <2>4 DEF Clear
<1>14. Service!Invoke(t)
  <2>1. Calls[t].status = "idle"
    BY <1>10, ServedIs
  <2>2. Service!Met(c) = met
    BY <1>6 DEF Service!Met, Calls
  <2> HIDE DEF c
  <2>3. Service!Begin(t, c)
    BY <1>4, <1>12, <1>13, <2>1, <2>2 DEF Service!Begin, Calls, Clear
  <2> QED BY <2>3 DEF Service!Invoke, c
<1>15. ServiceInv'
  <2>1. \A s \in Transfers : HeldOK(xfer'[s])
    <3>1. ASSUME NEW s \in Transfers, s # t PROVE HeldOK(xfer'[s])
      <4>1. HeldOK(xfer[s])
        BY DEF ServiceInv
      <4>2. s \in met => xfer[s].pc # "idle"
        BY DEF met, Active
      <4> QED BY <1>9, <3>1, <4>1, <4>2 DEF HeldOK
    <3> QED BY <1>7, <1>10, <3>1
  <2>2. \A s \in Transfers : StatusOf(xfer[s]) = "over" => StatusOf(xfer'[s]) = "over"
    BY <1>9, <1>10
  <2>3. \A s \in Transfers :
          \/ /\ xfer'[s].push = xfer[s].push /\ xfer'[s].gp = xfer[s].gp
             /\ xfer'[s].data = xfer[s].data
          \/ xfer[s].data = <<>>
    BY <1>9, <1>10
  <2> QED BY <1>4, <2>1, <2>2, <2>3, Keeps
<1> QED BY <1>14, <1>15 DEF Implemented, Service!Next

LEMMA ServerStopsImplements ==
  ASSUME CopyInv, ServiceInv, ServerStops
  PROVE  ServiceInv' /\ Implemented
<1>1. /\ UNCHANGED <<host, guest, tmp>> /\ "killed" \in Faults
      /\ \A t \in Transfers : xfer'[t] =
           IF Active(xfer[t]) THEN [xfer[t] EXCEPT !.pc = "lost"] ELSE xfer[t]
  BY DEF ServerStops
<1>2. ASSUME NEW t \in Transfers
      PROVE  /\ xfer'[t].push = xfer[t].push /\ xfer'[t].hp = xfer[t].hp
             /\ xfer'[t].gp = xfer[t].gp /\ xfer'[t].data = xfer[t].data
             /\ xfer'[t].trouble = xfer[t].trouble
             /\ StatusOf(xfer'[t]) = IF Active(xfer[t]) THEN "over" ELSE StatusOf(xfer[t])
             /\ HeldOK(xfer'[t])
             /\ Active(xfer[t]) <=> Service!Open(CallOf(xfer[t]))
  <2>1. xfer[t] \in Transfer /\ HeldOK(xfer[t])
    BY XferFacts DEF ServiceInv
  <2>2. Active(xfer[t]) <=> Service!Open(CallOf(xfer[t]))
    BY <2>1, ActiveIsOpen
  <2>3. CASE Active(xfer[t])
    <3> DEFINE l == [xfer[t] EXCEPT !.pc = "lost"]
    <3>1. l.pc = "lost" /\ l.push = xfer[t].push /\ l.hp = xfer[t].hp
          /\ l.gp = xfer[t].gp /\ l.data = xfer[t].data /\ l.trouble = xfer[t].trouble
      BY <2>1 DEF Transfer
    <3>2. xfer'[t] = l
      BY <1>1, <2>3
    <3> HIDE DEF l
    <3>3. StatusOf(l) = "over" /\ HeldOK(l)
      BY <3>1 DEF StatusOf, HeldOK, GuestSteps
    <3> QED BY <2>2, <2>3, <3>1, <3>2, <3>3
  <2>4. CASE ~Active(xfer[t])
    BY <1>1, <2>1, <2>2, <2>4
  <2> QED BY <2>3, <2>4
<1>3. Service!Stop
  <2>1. \A t \in Transfers : CallOf(xfer'[t]) =
          IF Service!Open(CallOf(xfer[t])) THEN [CallOf(xfer[t]) EXCEPT !.status = "over"]
          ELSE CallOf(xfer[t])
    BY <1>2 DEF CallOf
  <2>2. Calls' = [t \in Transfers |->
          IF Service!Open(Calls[t]) THEN [Calls[t] EXCEPT !.status = "over"] ELSE Calls[t]]
    BY <2>1 DEF Calls
  <2>3. Clear' = Clear
    BY <1>2 DEF Clear
  <2> QED BY <1>1, <2>2, <2>3 DEF Service!Stop, Calls, Clear
<1>4. ServiceInv'
  <2>1. ASSUME NEW m \in late'
        PROVE  m \in late \/ StatusOf(xfer'[m.from]) = "over"
    <3>1. PICK left \in SUBSET {t \in Transfers : xfer[t].running /\ xfer[t].pc \in GuestSteps} :
            late' = late \cup
              {[from |-> t, step |-> xfer[t].pc, sent |-> xfer[t].sent] : t \in left}
      BY DEF ServerStops
    <3>2. \A t \in left : Active(xfer[t]) /\ t \in Transfers
      BY DEF Active, GuestSteps
    <3> QED BY <1>2, <3>1, <3>2
  <2>2. \A s \in Transfers : StatusOf(xfer[s]) = "over" => StatusOf(xfer'[s]) = "over"
    BY <1>2
  <2> QED BY <1>1, <1>2, <2>1, <2>2, Keeps
<1> QED BY <1>3, <1>4 DEF Implemented, Service!Next

(* A command that outlived its process: the aftermath of a call that did   *)
(* not succeed.                                                            *)
LEMMA ExecuteLateImplements ==
  ASSUME CopyInv, ServiceInv, NEW m \in late, ExecuteLate(m)
  PROVE  ServiceInv' /\ Implemented
<1> DEFINE o == m.from
           p == xfer[o].gp
<1>1. /\ m \in Command /\ LateOK(m, xfer[o]) /\ OrphanOK(m) /\ o \in Transfers
      /\ p \in GuestPaths /\ xfer[o].push
  BY XferFacts DEF CopyInv, TypeOK, Command, ServiceInv, LateOK
<1>2. /\ \A t \in Transfers : xfer'[t] =
           IF Active(xfer[t]) /\ xfer[t].push /\ xfer[t].gp = p
           THEN Troubled(xfer[t], "late") ELSE xfer[t]
      /\ late' = late \ {m} /\ UNCHANGED <<host, up>>
      /\ \/ Does(m.step, p, xfer[o].data[m.sent + 1])
         \/ DecodeBreaks(p) /\ UNCHANGED tmp
  BY DEF ExecuteLate
<1>3. Uncovered(p) /\ \A g \in GuestPaths : tmp'[g] \in {tmp[g], Absent}
                   \/ Service!MadeOf(tmp'[g], Service!Pushed(g))
  <2>1. CASE SetUp(p)
    BY <1>1, <2>1 DEF SetUp, TmpOf, Uncovered, CopyInv, TypeOK
  <2>2. CASE m.step = "append" /\ AppendText(p, xfer[o].data[m.sent + 1])
    <3>1. m.sent \in Nat /\ m.sent < Len(xfer[o].data)
      BY <1>1, <2>2 DEF LateOK, Command
    <3> QED BY <1>1, <2>2, <3>1, AppendMix DEF Uncovered
  <2>3. CASE DecodeText(p) \/ (DecodeBreaks(p) /\ UNCHANGED tmp)
    BY <1>1, <2>3, DecodeLeaves DEF Uncovered
  <2> QED BY <1>2, <2>1, <2>2, <2>3 DEF Does
<1>4. Service!Mixture(CallOf(xfer[o]))
  BY <1>1, <1>2, <1>3, UncoveredIsMixture
<1> HIDE DEF o, p
<1>5. ASSUME NEW t \in Transfers
      PROVE  /\ xfer'[t].push = xfer[t].push /\ xfer'[t].hp = xfer[t].hp
             /\ xfer'[t].gp = xfer[t].gp /\ xfer'[t].data = xfer[t].data
             /\ StatusOf(xfer'[t]) = StatusOf(xfer[t]) /\ HeldOK(xfer'[t])
             /\ xfer'[t].trouble = {} <=>
                  xfer[t].trouble = {} /\ ~(Active(xfer[t]) /\ xfer[t].push /\ xfer[t].gp = p)
  <2>1. xfer[t] \in Transfer /\ HeldOK(xfer[t])
    BY XferFacts DEF ServiceInv
  <2>2. CASE Active(xfer[t]) /\ xfer[t].push /\ xfer[t].gp = p
    <3>1. xfer'[t] = Troubled(xfer[t], "late")
      BY <1>2, <2>2
    <3>2. xfer'[t].reply = xfer[t].reply
      BY <2>1, <3>1 DEF Troubled, Transfer
    <3>3. /\ xfer'[t].push = xfer[t].push /\ xfer'[t].hp = xfer[t].hp
          /\ xfer'[t].gp = xfer[t].gp /\ xfer'[t].data = xfer[t].data
          /\ xfer'[t].pc = xfer[t].pc /\ xfer'[t].trouble # {}
      BY <2>1, <3>1, TroubledType DEF Troubles
    <3>4. xfer[t].pc # "idle"
      BY <2>2 DEF Active
    <3> QED BY <2>1, <2>2, <3>2, <3>3, <3>4 DEF StatusOf, HeldOK
  <2>3. CASE ~(Active(xfer[t]) /\ xfer[t].push /\ xfer[t].gp = p)
    <3>1. xfer'[t] = xfer[t]
      BY <1>2, <2>3
    <3> QED BY <2>1, <2>3, <3>1
  <2> QED BY <2>2, <2>3
<1>6. Calls' = Calls
  <2>1. \A t \in Transfers : CallOf(xfer'[t]) = CallOf(xfer[t])
    BY <1>5 DEF CallOf
  <2> QED BY <2>1 DEF Calls
<1>7. Clear' = Clear \ {s \in Transfers :
                          Service!Open(Calls[s]) /\ Service!SameTarget(Calls[s], Calls[o])}
  <2>1. ASSUME NEW s \in Transfers
        PROVE  Service!Open(Calls[s]) /\ Service!SameTarget(Calls[s], Calls[o])
                 <=> Active(xfer[s]) /\ xfer[s].push /\ xfer[s].gp = p
    <3>1. Service!Open(Calls[s]) <=> Active(xfer[s])
      BY XferFacts, ServedIs, ActiveIsOpen
    <3>2. xfer[s].push \in BOOLEAN
      BY XferFacts DEF Transfer
    <3>3. Calls[o].push /\ Calls[o].gp = p
      BY <1>1, ServedIs DEF p
    <3> QED BY <3>1, <3>2, <3>3, ServedIs DEF Service!SameTarget
  <2> QED BY <1>5, <2>1 DEF Clear
<1>8. Service!Aftermath(o)
  <2>1. "killed" \in Faults /\ Calls[o].status = "over" /\ Calls[o].push
    BY <1>1, ServedIs DEF OrphanOK, o
  <2>2. Service!Mixture(Calls[o])
    BY <1>1, <1>4, ServedIs
  <2> QED BY <1>6, <1>7, <2>1, <2>2 DEF Service!Aftermath, Service!Met, Calls, Clear
<1>9. ServiceInv'
  BY <1>2, <1>3, <1>5, Keeps
<1> QED BY <1>1, <1>8, <1>9 DEF Implemented, Service!Next

-----------------------------------------------------------------------------
(* The theorem. *)

LEMMA ServiceInitRefines == Init => Service!Init
<1> SUFFICES ASSUME Init PROVE Service!Init OBVIOUS
<1>1. TypeOK
  BY CopyInvInit DEF CopyInv
<1>2. \A t \in Transfers : xfer[t].pc = "idle" /\ xfer[t].trouble = {} /\ xfer[t].data = <<>>
  BY DEF Init, Entered
<1>3. host \in [HostPaths -> Service!Files] /\ guest \in [GuestPaths -> Service!Files \cup {Absent}]
  BY <1>1 DEF TypeOK, File, Service!Files
<1>4. ASSUME NEW t \in Transfers
      PROVE  CallOf(xfer[t]) \in Service!Call /\ StatusOf(xfer[t]) = "idle"
  <2>1. StatusOf(xfer[t]) = "idle"
    BY <1>2 DEF StatusOf, GuestSteps
  <2>2. xfer[t] \in Transfer
    BY <1>1 DEF TypeOK
  <2> QED BY <2>1, <2>2 DEF CallOf, Transfer, Service!Call, Service!Files
<1>5. \A t \in Transfers : Calls[t].status = "idle" /\ Calls[t].data = <<>>
  BY <1>2, <1>4 DEF Calls, CallOf
<1>6. Calls \in [Transfers -> Service!Call]
  BY <1>4 DEF Calls
<1>7. Clear = Transfers
  BY <1>2 DEF Clear
<1> QED BY <1>3, <1>5, <1>6, <1>7 DEF Service!Init, Calls, Clear

LEMMA ServiceNextRefines ==
  CopyInv /\ ServiceInv /\ [Next]_vars => ServiceInv' /\ [Service!Next]_(Service!vars)
<1> SUFFICES ASSUME CopyInv, ServiceInv, [Next]_vars PROVE ServiceInv' /\ Implemented
  BY DEF Implemented
<1>1. ASSUME NEW t \in Transfers, Step(t) PROVE ServiceInv' /\ Implemented
  BY <1>1, SpawnImplements, InfoImplements, ReadHostImplements, SetupImplements,
     AppendImplements, DecodeImplements, ReadGuestImplements, OpenHostImplements,
     WriteHostImplements DEF Step
<1>2. CASE UNCHANGED vars
  <2>1. Calls' = Calls /\ Clear' = Clear
    BY <1>2 DEF vars, Calls, Clear
  <2>2. ServiceInv'
    <3>1. \A s \in Transfers : HeldOK(xfer'[s])
      BY <1>2 DEF vars, ServiceInv
    <3> QED BY <1>2, <3>1, Keeps DEF vars
  <2> QED BY <1>2, <2>1, <2>2, Quiet DEF vars
<1> QED BY <1>1, <1>2, EnterImplements, CancelImplements, ExecuteLateImplements,
           ServerStopsImplements DEF Next

(* What a client sees of the calls is CopyService: one read of the source  *)
(* and, for a call nothing got in the way of, one exact replacement of the *)
(* destination, however many transfers run and whatever faults occur.      *)
THEOREM CopyImplementsService == Spec => ImplementsService
<1>1. Init => CopyInv /\ ServiceInv
  BY CopyInvInit, ServiceInvInit
<1>2. CopyInv /\ ServiceInv /\ [Next]_vars => (CopyInv /\ ServiceInv)'
  BY CopyInvStep, ServiceNextRefines
<1>3. CopyInv /\ ServiceInv /\ [Next]_vars => [Service!Next]_(Service!vars)
  BY ServiceNextRefines
<1> QED BY <1>1, <1>2, <1>3, ServiceInitRefines, PTL
        DEF Spec, ImplementsService, Service!Spec
=============================================================================
