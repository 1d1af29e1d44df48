---------------------------- MODULE FileTransfer ----------------------------
(***************************************************************************)
(* vm_file_copy: a file moves between host and guest as base64 text in     *)
(* `prlctl exec` command lines.  A push appends chunks to a temporary file *)
(* named after the destination and decodes it there; nothing keeps two     *)
(* calls off one path, and what became of a guest command is known only    *)
(* through ExecOS (module Runner).                                         *)
(*                                                                         *)
(* A file is a sequence of blocks, one per chunk.  Base64 is left out but  *)
(* for the decoding step, which may fail.                                  *)
(***************************************************************************)
EXTENDS Runner, Integers, Sequences

CONSTANTS
  Transfers,   \* the calls, each made once
  HostPaths,
  GuestPaths,
  Length,      \* Length[p]: blocks of the file that is at p initially
  Windows,     \* the guest runs Windows
  Faults,      \* how processes may end other than by doing their work
  Absent       \* no such file

Blocks == (HostPaths \cup GuestPaths) \X Nat

ASSUME TransferAssumption ==
  /\ Length \in [HostPaths \cup GuestPaths -> Nat]
  /\ Windows \in BOOLEAN
  /\ Faults \subseteq Ends \ {"exit0"}
  /\ HostPaths # {} /\ GuestPaths # {}
  /\ Absent \notin Seq(Blocks)

Original(p) == [i \in 1..Length[p] |-> <<p, i>>]
File == Seq(Blocks) \cup {Absent}

VARIABLES
  host,   \* files on the host
  guest,  \* files in the guest
  tmp,    \* the temporary files in the guest
  xfer,   \* the calls
  late,   \* guest commands that outlived the process that sent them
  up      \* the server process is alive

vars == <<host, guest, tmp, xfer, late, up>>

(***************************************************************************)
(* pc names the next step of FileCopy, running that its process exists.    *)
(* data is b64 (push) or the payload read (pull), sent the chunks the loop *)
(* is done with.  trouble is history: what befell the call behind its back.*)
(***************************************************************************)
Troubles == {"overlap", "late", "setup", "notStarted", "decode"}
GuestSteps == {"setup", "append", "decode"}
CommandSteps == GuestSteps \cup {"info", "readGuest"}
Transfer ==
  [push : BOOLEAN, hp : HostPaths, gp : GuestPaths,
   pc : CommandSteps \cup {"idle", "readHost", "open", "write", "answered", "lost"},
   running : BOOLEAN, data : Seq(Blocks), sent : Nat, cancelled : BOOLEAN,
   reply : {"none", "ok", "error"}, trouble : SUBSET Troubles]

Command == [from : Transfers, step : GuestSteps, sent : Nat]

Entered(push, h, g, trouble) ==
  [push |-> push, hp |-> h, gp |-> g, pc |-> "info", running |-> FALSE,
   data |-> <<>>, sent |-> 0, cancelled |-> FALSE, reply |-> "none",
   trouble |-> trouble]

Init ==
  /\ host = [p \in HostPaths |-> Original(p)]
  /\ \E there \in SUBSET GuestPaths :
       guest = [p \in GuestPaths |-> IF p \in there THEN Original(p) ELSE Absent]
  /\ tmp = [p \in GuestPaths |-> Absent]
  /\ xfer = [t \in Transfers |->
               [Entered(TRUE, CHOOSE h \in HostPaths : TRUE,
                        CHOOSE g \in GuestPaths : TRUE, {}) EXCEPT !.pc = "idle"]]
  /\ late = {}
  /\ up = TRUE

-----------------------------------------------------------------------------
(* The guest: what the three commands of a push do. *)

Text(f) == IF f = Absent THEN <<>> ELSE f

(* Plausible bug: one fixed temporary file for every destination. *)
TmpOf_Shared(g) == CHOOSE p \in GuestPaths : TRUE

(* The temporary file of a push to g is g.tmp.b64. *)
TmpOf(g) == g

(* Plausible bug: the text an earlier push left behind is not removed. *)
SetUp_KeepsText(g) == UNCHANGED <<tmp, guest>>

SetUp(g) == tmp' = [tmp EXCEPT ![TmpOf(g)] = Absent] /\ UNCHANGED guest

(* Plausible bug: > for >>. *)
AppendText_Overwrites(g, block) ==
  tmp' = [tmp EXCEPT ![TmpOf(g)] = <<block>>] /\ UNCHANGED guest

AppendText(g, block) ==
  /\ tmp' = [tmp EXCEPT ![TmpOf(g)] = Append(Text(@), block)]
  /\ UNCHANGED guest

DecodeText(g) ==
  /\ tmp[TmpOf(g)] # Absent
  /\ guest' = [guest EXCEPT ![g] = tmp[TmpOf(g)]]
  /\ tmp' = [tmp EXCEPT ![TmpOf(g)] = Absent]

(* A failed decode may have truncated or partly written the destination. *)
DecodeBreaks(g) ==
  \/ UNCHANGED guest
  \/ \E n \in 0..Len(Text(tmp[TmpOf(g)])) :
       guest' = [guest EXCEPT ![g] = SubSeq(Text(tmp[TmpOf(g)]), 1, n)]

Does(step, g, block) ==
  \/ step = "setup" /\ SetUp(g)
  \/ step = "append" /\ AppendText(g, block)
  \/ step = "decode" /\ DecodeText(g)

(* Plausible bug: the file is read again chunk by chunk. *)
Chunk_Reread(k) ==
  IF k.sent < Len(host[k.hp]) THEN host[k.hp][k.sent + 1] ELSE k.data[k.sent + 1]

(* The chunk a push is about to append. *)
Chunk(k) == k.data[k.sent + 1]

-----------------------------------------------------------------------------
(* The server. *)

Active(k) == k.pc \notin {"idle", "answered", "lost"}
SameTarget(k, l) ==
  k.push = l.push /\ IF k.push THEN k.gp = l.gp ELSE k.hp = l.hp

Troubled(k, what) == [k EXCEPT !.trouble = k.trouble \cup {what}]

(* vmFileCopy is entered; two calls with one destination overlap. *)
Enter(t) ==
  \E push \in BOOLEAN, h \in HostPaths, g \in GuestPaths :
    LET k == Entered(push, h, g, {})
        met == {s \in Transfers : Active(xfer[s]) /\ SameTarget(xfer[s], k)}
    IN  /\ up
        /\ xfer[t].pc = "idle"
        /\ xfer' = [s \in Transfers |->
             CASE s = t -> IF met = {} THEN k ELSE Entered(push, h, g, {"overlap"})
               [] s \in met -> Troubled(xfer[s], "overlap")
               [] OTHER -> xfer[s]]
        /\ UNCHANGED <<host, guest, tmp, late, up>>

(* The process of the next command is created. *)
Spawn(t) ==
  /\ up
  /\ xfer[t].pc \in CommandSteps
  /\ ~xfer[t].running /\ ~xfer[t].cancelled
  /\ xfer' = [xfer EXCEPT ![t].running = TRUE]
  /\ UNCHANGED <<host, guest, tmp, late, up>>

(* How the process at step pc of t may end.  Unless its context is done, it *)
(* ends otherwise than with exit 0 only by a fault.                         *)
Ends0(t, pc, end) ==
  LET k == xfer[t]
  IN  /\ up
      /\ k.pc = pc
      /\ end \in {"exit0"} \cup Faults \cup (IF k.cancelled THEN {"notStarted"} ELSE {})
      /\ end = "notStarted" <=> ~k.running
      /\ end = "killed" => k.cancelled

(* Trouble that ExecOS does not report. *)
Unreported(t, end) ==
  IF end = "notStarted" /\ ~xfer[t].cancelled THEN {"notStarted"} ELSE {}

(* The call record after a step that goes on to pc, or that replies. *)
Moved(k, pc, sent, trouble) ==
  [k EXCEPT !.pc = pc, !.running = FALSE, !.sent = sent,
            !.trouble = k.trouble \cup trouble]

Answered(k, reply, trouble) ==
  [k EXCEPT !.pc = "answered", !.running = FALSE, !.reply = reply,
            !.trouble = k.trouble \cup trouble]

GoOn(t, pc, sent, trouble) ==
  xfer' = [xfer EXCEPT ![t] = Moved(xfer[t], pc, sent, trouble)]

Reply(t, reply, trouble) ==
  xfer' = [xfer EXCEPT ![t] = Answered(xfer[t], reply, trouble)]

(* Info; an empty or unparsable answer is an error as well. *)
Info(t) ==
  \E end \in Ends :
    /\ Ends0(t, "info", end)
    /\ \/ /\ RunErr(end, xfer[t].cancelled) = "nil"
          /\ GoOn(t, IF xfer[t].push THEN "readHost" ELSE "readGuest", 0, {})
       \/ /\ RunErr(end, xfer[t].cancelled) # "nil" \/ Faults # {}
          /\ Reply(t, "error", {})
    /\ UNCHANGED <<host, guest, tmp, late, up>>

ReadHost(t) ==
  /\ up
  /\ xfer[t].pc = "readHost"
  /\ \/ xfer' = [xfer EXCEPT ![t] =
                  [@ EXCEPT !.pc = "setup", !.data = host[xfer[t].hp]]]
     \/ Faults # {} /\ Reply(t, "error", {})
  /\ UNCHANGED <<host, guest, tmp, late, up>>

(* Plausible bug: the last chunk is dropped. *)
AfterChunks_Short(k, sent) == IF sent + 1 < Len(k.data) THEN "append" ELSE "decode"

(* The head of the chunk loop: i < len(b64). *)
AfterChunks(k, sent) == IF sent < Len(k.data) THEN "append" ELSE "decode"

(***************************************************************************)
(* The guest side of one command of a push.  A killed prlctl may have had  *)
(* its command executed, may leave it to execute later, or never.  The     *)
(* Windows decode is a `;` sequence ending in a Remove-Item: it exits 0    *)
(* after a decode that failed.                                             *)
(***************************************************************************)
InGuest(t, pc, end) ==
  LET k == xfer[t]
  IN  \/ end \in {"exit0", "killed"} /\ Does(pc, k.gp, Chunk(k)) /\ late' = late
      \/ /\ end # "exit0"
         /\ IF pc = "decode" /\ end = "failed" THEN DecodeBreaks(k.gp) ELSE UNCHANGED guest
         /\ UNCHANGED tmp
         /\ \/ late' = late
            \/ /\ end = "killed"
               /\ late' = late \cup {[from |-> t, step |-> pc, sent |-> k.sent]}

(* Only the error is looked at: a setup that exited non-zero is ignored. *)
Setup(t) ==
  \E end \in Ends :
    /\ Ends0(t, "setup", end)
    /\ InGuest(t, "setup", end)
    /\ IF ExecErr(end, xfer[t].cancelled) = "nil"
       THEN GoOn(t, AfterChunks(xfer[t], 0), 0,
                 Unreported(t, end) \cup IF end = "failed" THEN {"setup"} ELSE {})
       ELSE Reply(t, "error", {})
    /\ UNCHANGED <<host, up>>

(* Plausible bug: a chunk that failed is sent again, for ever. *)
AppendChunk_Retries(t) ==
  \E end \in Ends :
    /\ Ends0(t, "append", end)
    /\ InGuest(t, "append", end)
    /\ LET sent == xfer[t].sent + IF ExecSucceeds(end, xfer[t].cancelled) THEN 1 ELSE 0
       IN  GoOn(t, AfterChunks(xfer[t], sent), sent, {})
    /\ UNCHANGED <<host, up>>

AppendChunk(t) ==
  \E end \in Ends :
    /\ Ends0(t, "append", end)
    /\ InGuest(t, "append", end)
    /\ IF ExecSucceeds(end, xfer[t].cancelled)
       THEN GoOn(t, AfterChunks(xfer[t], xfer[t].sent + 1), xfer[t].sent + 1,
                 Unreported(t, end))
       ELSE Reply(t, "error", {})
    /\ UNCHANGED <<host, up>>

Decode(t) ==
  /\ \/ \E end \in Ends :
          /\ Ends0(t, "decode", end)
          /\ InGuest(t, "decode", end)
          /\ Reply(t, IF ExecSucceeds(end, xfer[t].cancelled) THEN "ok" ELSE "error",
                   Unreported(t, end))
     \/ /\ Ends0(t, "decode", "exit0")      \* nothing to decode
        /\ tmp[TmpOf(xfer[t].gp)] = Absent
        /\ DecodeBreaks(xfer[t].gp)
        /\ Reply(t, "error", {})
        /\ UNCHANGED <<tmp, late>>
     \/ /\ Ends0(t, "decode", "exit0")      \* failed, then removed the text
        /\ Windows /\ "failed" \in Faults
        /\ tmp[TmpOf(xfer[t].gp)] # Absent
        /\ DecodeBreaks(xfer[t].gp)
        /\ tmp' = [tmp EXCEPT ![TmpOf(xfer[t].gp)] = Absent]
        /\ Reply(t, "ok", {"decode"})
        /\ UNCHANGED late
  /\ UNCHANGED <<host, up>>

(* Plausible bug: the exit code of the read is not looked at. *)
ReadGuest_AnyFile(t) ==
  /\ Ends0(t, "readGuest", "exit0")
  /\ xfer' = [xfer EXCEPT ![t] =
       [Moved(xfer[t], "open", 0, {}) EXCEPT !.data = guest[xfer[t].gp]]]
  /\ UNCHANGED <<host, guest, tmp, late, up>>

(* readGuestFile and DecodeString; stdout is empty if nothing ran. *)
ReadGuest(t) ==
  \E end \in Ends :
    LET file == guest[xfer[t].gp]
        read == ExecSucceeds(end, xfer[t].cancelled) /\ (end = "exit0" => file # Absent)
    IN  /\ Ends0(t, "readGuest", end)
        /\ IF read
           THEN xfer' = [xfer EXCEPT ![t] =
                  [Moved(xfer[t], "open", 0, Unreported(t, end)) EXCEPT
                     !.data = IF end = "exit0" THEN file ELSE <<>>]]
           ELSE Reply(t, "error", {})
        /\ UNCHANGED <<host, guest, tmp, late, up>>

(* MkdirAll and the truncating open of os.WriteFile. *)
OpenHost(t) ==
  /\ up
  /\ xfer[t].pc = "open"
  /\ \/ GoOn(t, "write", 0, {}) /\ host' = [host EXCEPT ![xfer[t].hp] = <<>>]
     \/ Faults # {} /\ Reply(t, "error", {}) /\ UNCHANGED host
  /\ UNCHANGED <<guest, tmp, late, up>>

(* The first n blocks of data written from offset 0 over file. *)
Over(file, data, n) == SubSeq(data, 1, n) \o SubSeq(file, n + 1, Len(file))

(* The write: over whatever another call wrote since the open. *)
WriteHost(t) ==
  \E n \in 0..Len(xfer[t].data), reply \in {"ok", "error"} :
    /\ up
    /\ xfer[t].pc = "write"
    /\ IF reply = "ok" THEN n = Len(xfer[t].data) ELSE Faults # {}
    /\ host' = [host EXCEPT ![xfer[t].hp] = Over(@, xfer[t].data, n)]
    /\ Reply(t, reply, {})
    /\ UNCHANGED <<guest, tmp, late, up>>

Cancel(t) ==
  /\ up /\ "killed" \in Faults
  /\ Active(xfer[t]) /\ ~xfer[t].cancelled
  /\ xfer' = [xfer EXCEPT ![t].cancelled = TRUE]
  /\ UNCHANGED <<host, guest, tmp, late, up>>

(* The server ends; guest commands it had running may still execute. *)
ServerStops ==
  /\ up /\ "killed" \in Faults
  /\ up' = FALSE
  /\ \E left \in SUBSET {t \in Transfers : xfer[t].running /\ xfer[t].pc \in GuestSteps} :
       late' = late \cup {[from |-> t, step |-> xfer[t].pc, sent |-> xfer[t].sent] : t \in left}
  /\ xfer' = [t \in Transfers |->
               IF Active(xfer[t]) THEN [xfer[t] EXCEPT !.pc = "lost"] ELSE xfer[t]]
  /\ UNCHANGED <<host, guest, tmp>>

(* A command whose prlctl is gone executes, in the way of who is at work. *)
ExecuteLate(m) ==
  LET k == xfer[m.from]
  IN  /\ m \in late
      /\ late' = late \ {m}
      /\ \/ Does(m.step, k.gp, k.data[m.sent + 1])
         \/ m.step = "decode" /\ DecodeBreaks(k.gp) /\ UNCHANGED tmp
      /\ xfer' = [t \in Transfers |->
           IF Active(xfer[t]) /\ xfer[t].push /\ xfer[t].gp = k.gp
           THEN Troubled(xfer[t], "late") ELSE xfer[t]]
      /\ UNCHANGED <<host, up>>

Step(t) ==
  \/ Spawn(t) \/ Info(t) \/ ReadHost(t) \/ Setup(t) \/ AppendChunk(t)
  \/ Decode(t) \/ ReadGuest(t) \/ OpenHost(t) \/ WriteHost(t)

Next ==
  \/ \E t \in Transfers : Enter(t) \/ Step(t) \/ Cancel(t)
  \/ \E m \in late : ExecuteLate(m)
  \/ ServerStops

Spec == Init /\ [][Next]_vars

(* A handler blocks only in cmd.Run; prlctl exec ends with its command. *)
FairSpec == Spec /\ \A t \in Transfers : WF_vars(Step(t))

-----------------------------------------------------------------------------
(* Properties. *)

TypeOK ==
  /\ host \in [HostPaths -> Seq(Blocks)]
  /\ guest \in [GuestPaths -> File]
  /\ tmp \in [GuestPaths -> File]
  /\ xfer \in [Transfers -> Transfer]
  /\ late \subseteq Command
  /\ up \in BOOLEAN

(***************************************************************************)
(* A transfer that reports success, and had no trouble of the five kinds,  *)
(* left exactly the bytes it read at its destination and no temporary file,*)
(* whatever earlier transfers that failed, were cancelled or lost with the *)
(* server had left there (file_copy.go FileCopy, writeGuestFile).          *)
(***************************************************************************)
OkMeansDelivered ==
  [][\A t \in Transfers :
       xfer[t].reply # "ok" /\ xfer'[t].reply = "ok" /\ xfer'[t].trouble = {} =>
         IF xfer[t].push
         THEN guest'[xfer[t].gp] = xfer[t].data /\ tmp'[TmpOf(xfer[t].gp)] = Absent
         ELSE host'[xfer[t].hp] = xfer[t].data]_vars

(***************************************************************************)
(* Between its setup and its decode an untroubled push has in the          *)
(* temporary file what its loop has sent: nothing stale before it, no      *)
(* chunk twice or out of order.                                            *)
(***************************************************************************)
TracksLoop(k, text) ==
  k.push /\ k.pc \in {"append", "decode"} /\ k.trouble = {} =>
    text = IF k.sent = 0 THEN Absent ELSE SubSeq(k.data, 1, k.sent)

TmpTracksLoop == \A t \in Transfers : TracksLoop(xfer[t], tmp[TmpOf(xfer[t].gp)])

(***************************************************************************)
(* A destination in the guest changes only at the decode of a push to it   *)
(* whose loop had gone through the whole file: a push that failed or was   *)
(* cancelled while appending leaves the old file as it was.                *)
(***************************************************************************)
GuestFileHeld ==
  [][\A g \in GuestPaths :
       guest'[g] # guest[g] =>
         \E t \in Transfers :
           /\ xfer[t].push /\ xfer[t].gp = g
           /\ xfer[t].sent = Len(xfer[t].data)
           /\ \/ xfer[t].pc = "decode"
              \/ \E m \in late : m.from = t /\ m.step = "decode"]_vars

(***************************************************************************)
(* The calls implement CopyService: with every chunk, fault and command    *)
(* that outlives its process, what a client sees is one read of the source *)
(* and, if nothing came in the way of the call, one exact replacement of   *)
(* its destination, or a failure that left a first part there; and no file *)
(* is ever made of blocks that were not copied to it (file_copy.go).       *)
(***************************************************************************)
StatusOf(k) ==
  CASE k.pc = "idle" -> "idle"
    [] k.pc \in {"info", "readHost", "readGuest"} -> "pending"
    [] k.pc \in GuestSteps \cup {"open", "write"} -> "holding"
    [] k.pc = "answered" /\ k.reply = "ok" -> "ok"
    [] OTHER -> "over"

CallOf(k) ==
  [push |-> k.push, hp |-> k.hp, gp |-> k.gp, data |-> k.data,
   status |-> StatusOf(k)]

Service == INSTANCE CopyService WITH
  Block <- Blocks,
  Misses <- Faults \cap {"failed", "notStarted"} # {},
  Orphans <- "killed" \in Faults,
  served <- [t \in Transfers |-> CallOf(xfer[t])],
  clear <- {t \in Transfers : xfer[t].trouble = {}}

ImplementsService == Service!Spec

(* Every transfer is answered: the chunk loop ends, whatever fails. *)
EveryTransferIsAnswered ==
  \A t \in Transfers : Active(xfer[t]) ~> xfer[t].pc \in {"answered", "lost"}

(***************************************************************************)
(* A push that read a non-empty file is answered with success, or else it  *)
(* was cancelled or lost with the server, or another push or a late        *)
(* command came in its way.  (For cancellation as the only fault.)         *)
(***************************************************************************)
PushArrives ==
  \A t \in Transfers :
    xfer[t].pc = "setup" /\ xfer[t].data # <<>>
      ~> \/ xfer[t].reply = "ok"
         \/ xfer[t].cancelled \/ xfer[t].pc = "lost"
         \/ xfer[t].trouble # {}

(***************************************************************************)
(* What the source says of the program, and the code does not do.          *)
(***************************************************************************)

(* "decode file failed" is an error of writeGuestFile (file_copy.go), so a *)
(* push whose decode failed is not a success.                              *)
DecodeFailureIsReported ==
  \A t \in Transfers : "decode" \in xfer[t].trouble => xfer[t].reply # "ok"
=============================================================================
