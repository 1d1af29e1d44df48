---------------------------- MODULE CopyService ----------------------------
(***************************************************************************)
(* What vm_file_copy promises its client, without commands, chunks and     *)
(* temporary files.  A call reads its source once; a clear call, one that  *)
(* nothing got in the way of, then replaces its destination by exactly     *)
(* those bytes when it succeeds, and leaves it as it was, or with a first  *)
(* part of them, when it fails.  Any other call may leave a mixture, but   *)
(* only of blocks that calls with this destination have read.  A call that *)
(* succeeded is over; one that failed may change the guest once more.      *)
(***************************************************************************)
EXTENDS Naturals, Sequences

CONSTANTS
  Transfers, HostPaths, GuestPaths,
  Block,
  Absent,   \* no such file
  Misses,   \* a command may have had no effect and still pass for done
  Orphans   \* a command may outlive its call

VARIABLES
  host, guest,  \* the files
  served,       \* the calls: what they copy, what they read, how far they are
  clear         \* the calls that nothing got in the way of

vars == <<host, guest, served, clear>>

Files == Seq(Block)

Call ==
  [push : BOOLEAN, hp : HostPaths, gp : GuestPaths, data : Files,
   status : {"idle", "pending", "holding", "ok", "over"}]

Open(c) == c.status \in {"pending", "holding"}

SameTarget(c, d) ==
  c.push = d.push /\ IF c.push THEN c.gp = d.gp ELSE c.hp = d.hp

Init ==
  /\ host \in [HostPaths -> Files]
  /\ guest \in [GuestPaths -> Files \cup {Absent}]
  /\ served \in [Transfers -> Call]
  /\ \A t \in Transfers : served[t].status = "idle" /\ served[t].data = <<>>
  /\ clear = Transfers

Met(c) == {s \in Transfers : Open(served[s]) /\ SameTarget(served[s], c)}

(* Two open calls with one destination are in each other's way. *)
Begin(t, c) ==
  /\ served[t].status = "idle"
  /\ served' = [served EXCEPT ![t] = c]
  /\ clear' = IF Met(c) = {} THEN clear ELSE clear \ (Met(c) \cup {t})
  /\ UNCHANGED <<host, guest>>

Invoke(t) ==
  \E push \in BOOLEAN, h \in HostPaths, g \in GuestPaths :
    Begin(t, [push |-> push, hp |-> h, gp |-> g, data |-> <<>>, status |-> "pending"])

Become(t, status, data) ==
  served' = [served EXCEPT ![t] = [@ EXCEPT !.status = status, !.data = data]]

(* The source is read at one moment; a read that was missed reads nothing. *)
Read(t) ==
  LET c == served[t]
      source == IF c.push THEN host[c.hp] ELSE guest[c.gp]
  IN  /\ c.status = "pending"
      /\ \/ source # Absent /\ Become(t, "holding", source) /\ UNCHANGED clear
         \/ Misses /\ Become(t, "holding", <<>>) /\ clear' = clear \ {t}
      /\ UNCHANGED <<host, guest>>

(* A call stops being clear by what its own commands missed. *)
Falter(t) ==
  /\ Misses
  /\ served[t].status = "holding"
  /\ clear' = clear \ {t}
  /\ UNCHANGED <<host, guest, served>>

-----------------------------------------------------------------------------
(* What a call that ends leaves behind. *)

MadeOf(file, sources) ==
  /\ file \in Files
  /\ \A i \in 1..Len(file) :
       \E source \in sources : \E j \in 1..Len(source) : file[i] = source[j]

Prefix(file, data) == \E n \in 0..Len(data) : file = SubSeq(data, 1, n)

(* What pushes to g have read. *)
Pushed(g) == {served[s].data : s \in {r \in Transfers : served[r].push /\ served[r].gp = g}}

Alone(f, g, p) == g = [f EXCEPT ![p] = g[p]]

(* Nothing, or a mixture, at the destination of c. *)
Mixture(c) ==
  \/ UNCHANGED <<host, guest>>
  \/ /\ c.push /\ UNCHANGED host
     /\ Alone(guest, guest', c.gp) /\ MadeOf(guest'[c.gp], Pushed(c.gp))
  \/ /\ ~c.push /\ UNCHANGED guest
     /\ Alone(host, host', c.hp) /\ MadeOf(host'[c.hp], {host[c.hp], c.data})

(* Exactly what was read. *)
Copy(c) ==
  IF c.push THEN guest' = [guest EXCEPT ![c.gp] = c.data] /\ UNCHANGED host
            ELSE host' = [host EXCEPT ![c.hp] = c.data] /\ UNCHANGED guest

(* Nothing, or a first part of what was read. *)
PartOf(c) ==
  \/ UNCHANGED <<host, guest>>
  \/ /\ c.push /\ UNCHANGED host
     /\ Alone(guest, guest', c.gp) /\ Prefix(guest'[c.gp], c.data)
  \/ /\ ~c.push /\ UNCHANGED guest
     /\ Alone(host, host', c.hp) /\ Prefix(host'[c.hp], c.data)

-----------------------------------------------------------------------------
(* A pull empties its destination before it writes. *)
Empty(t) ==
  /\ served[t].status = "holding" /\ ~served[t].push
  /\ host' = [host EXCEPT ![served[t].hp] = <<>>]
  /\ UNCHANGED <<guest, served, clear>>

Succeed(t) ==
  LET c == served[t]
  IN  /\ c.status = "holding"
      /\ Become(t, "ok", c.data)
      /\ \/ t \in clear /\ Copy(c) /\ UNCHANGED clear
         \/ /\ t \notin clear \/ Misses
            /\ Mixture(c) /\ clear' = clear \ {t}

Fail(t) ==
  LET c == served[t]
  IN  /\ Open(c)
      /\ Become(t, "over", c.data)
      /\ IF c.status = "pending" THEN UNCHANGED <<host, guest>>
         ELSE IF t \in clear THEN PartOf(c) ELSE Mixture(c)
      /\ UNCHANGED clear

(* The server ends. *)
Stop ==
  /\ served' = [t \in Transfers |->
       IF Open(served[t]) THEN [served[t] EXCEPT !.status = "over"] ELSE served[t]]
  /\ UNCHANGED <<host, guest, clear>>

(* A command of a push that failed executes, in the way of open pushes. *)
Aftermath(t) ==
  LET c == served[t]
  IN  /\ Orphans
      /\ c.status = "over" /\ c.push
      /\ Mixture(c)
      /\ clear' = clear \ Met(c)
      /\ UNCHANGED served

Next ==
  \/ \E t \in Transfers :
       \/ Invoke(t) \/ Read(t) \/ Falter(t) \/ Empty(t)
       \/ Succeed(t) \/ Fail(t) \/ Aftermath(t)
  \/ Stop

Spec == Init /\ [][Next]_vars
=============================================================================
