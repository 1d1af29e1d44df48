------------------------------ MODULE VmTools ------------------------------
(***************************************************************************)
(* The tools that configure a VM or work inside its guest: devices, disks, *)
(* CD drive, network adapters, shared folders, snapshots, bundles,         *)
(* vm_configure, vm_exec and vm_smb.                                       *)
(*                                                                         *)
(* Each handler checks its arguments and runs one prlctl command, or reads *)
(* a table; the guest tools ask Info for the guest's system first and pick *)
(* the shell by it.  A client that wants to change an adapter names it as  *)
(* the table it read does, while other calls and the desktop user add and  *)
(* remove adapters.                                                        *)
(***************************************************************************)
EXTENDS VmRequests, Runner

CONSTANTS
  Calls,       \* the calls, each made once
  Requests,    \* what a call may ask for
  Folders,     \* names of shared folders
  NetCounts,   \* how many adapters the VM may start with
  MaxOutside,  \* bound: changes made on the desktop
  None         \* "no such call, folder or adapter"

(***************************************************************************)
(* device is empty or holds the device given, of which only the kind is    *)
(* used to add one; folder is the value of "name" where that is a shared   *)
(* folder; on is the value of "enabled"; text is how the user's command    *)
(* line starts; keyword: the arguments that hold one of the pipeline       *)
(* cmdlets that isPowerShellCommand looks for.                             *)
(***************************************************************************)
Request ==
  [tool : Tools, action : Actions, device : SUBSET Devices, given : SUBSET Fields,
   blank : SUBSET Fields, folder : Folders, on : BOOLEAN, text : Starts,
   keyword : SUBSET Fields]

ASSUME ToolsAssumption ==
  /\ Requests # {} /\ Requests \subseteq Request
  /\ NetCounts # {} /\ NetCounts \subseteq {n \in Nat : 0..n \subseteq Slots}
  /\ None \notin Calls \cup Folders /\ None \notin Nat
  /\ MaxOutside \in Nat
  /\ 0 \in Slots

VARIABLES
  vm,       \* the VM, as Parallels keeps it
  call,     \* the calls
  did,      \* history: the commands that took effect
  missed,   \* history: calls whose guest command was never started
  up,       \* the server process is alive
  outside   \* changes made on the desktop so far

vars == <<vm, call, did, missed, up, outside>>

Entry == [id : Nat, on : BOOLEAN]
IsHardware(hw) == DOMAIN hw \subseteq Slots /\ hw \in [DOMAIN hw -> Entry]

Systems == {"windows", "linux"}
Pcs == {"idle", "info", "command", "exec", "use", "answered", "lost"}

(***************************************************************************)
(* os: what Info said, "" before.  seen, listed: the hardware and folders  *)
(* a table was made from.  base: removals until then.  meant: the adapter  *)
(* in the row whose label the client took, and since: base of that table.  *)
(* due: folders that earlier calls said they added.                        *)
(***************************************************************************)
At(pc, r) ==
  [asks |-> r, pc |-> pc, running |-> FALSE, os |-> "", seen |-> <<>>,
   listed |-> {}, base |-> 0, meant |-> None, since |-> 0, due |-> {},
   cancelled |-> FALSE, reply |-> "none"]

(* n devices of one kind, the first of them switched on or off. *)
Fresh(n, on) == [i \in 0..n - 1 |-> [id |-> i, on |-> i > 0 \/ on]]

(* made numbers new devices; removed counts what took a device away. *)
Init ==
  /\ \E n \in NetCounts, on \in BOOLEAN, os \in Systems :
       vm = [dev |-> [k \in Kinds |-> CASE k = "net" -> Fresh(n, on)
                                        [] k = "serial" -> <<>>
                                        [] OTHER -> Fresh(1, TRUE)],
             made |-> Cardinality(Slots), removed |-> 0, folders |-> {}, saved |-> {},
             os |-> os, running |-> TRUE, registered |-> TRUE]
  /\ call = [c \in Calls |-> At("idle", CHOOSE r \in Requests : TRUE)]
  /\ did = {} /\ missed = {}
  /\ up = TRUE
  /\ outside = 0

-----------------------------------------------------------------------------
(* Parallels. *)

(* A device is added in the first free slot, with an identity of its own. *)
WithNew(hw, id) ==
  LET i == CHOOSE j \in Slots \ DOMAIN hw : \A k \in Slots \ DOMAIN hw : j <= k
  IN  [j \in DOMAIN hw \cup {i} |-> IF j = i THEN [id |-> id, on |-> TRUE] ELSE hw[j]]

Without(hw, i) == [j \in DOMAIN hw \ {i} |-> hw[j]]

Adds(kind) ==
  /\ Slots \ DOMAIN vm.dev[kind] # {}
  /\ vm' = [vm EXCEPT !.dev[kind] = WithNew(@, vm.made), !.made = @ + 1]

Removes(kind, slot) ==
  /\ slot \in DOMAIN vm.dev[kind]
  /\ vm' = [vm EXCEPT !.dev[kind] = Without(@, slot), !.removed = @ + 1]

(* A command of c takes effect on the device, folder or snapshot it names; *)
(* a snapshot keeps the configuration along with the disks.                *)
Does(c) ==
  LET r == call[c].asks
      d == Device(r)
      hit == IF d.slot \in DOMAIN vm.dev[d.kind] THEN vm.dev[d.kind][d.slot].id ELSE None
  IN  /\ vm.registered \/ r.action = "register"
      /\ CASE Verb(r) = "--device-add" -> Adds(d.kind)
           [] Verb(r) = "--device-del" -> Removes(d.kind, d.slot)
           [] Verb(r) = "--device-set" ->
                /\ hit # None
                /\ vm' = [vm EXCEPT !.dev[d.kind][d.slot].on =
                            CASE r.tool = "vm_cdrom" -> r.action = "attach"
                              [] r.tool = "vm_network" /\ Has(r, "enabled") -> r.on
                              [] OTHER -> @]
           [] Verb(r) = "--shf-host-add" ->
                r.folder \notin vm.folders /\ vm' = [vm EXCEPT !.folders = @ \cup {r.folder}]
           [] Verb(r) = "--shf-host-del" ->
                r.folder \in vm.folders /\ vm' = [vm EXCEPT !.folders = @ \ {r.folder}]
           [] r.tool = "vm_bundle" ->
                /\ vm.registered # (r.action = "register")
                /\ vm' = [vm EXCEPT !.registered = (r.action = "register")]
           [] r.tool = "vm_snapshot_create" ->
                vm' = [vm EXCEPT !.saved = @ \cup {[dev |-> vm.dev, folders |-> vm.folders]}]
           [] r.tool = "vm_snapshot_restore" ->
                \E s \in vm.saved :
                  vm' = [vm EXCEPT !.dev = s.dev, !.folders = s.folders, !.removed = @ + 1]
           [] r.tool = "vm_snapshot_delete" ->
                \E s \in vm.saved : vm' = [vm EXCEPT !.saved = @ \ {s}]
           [] OTHER -> UNCHANGED vm
      /\ did' = did \cup {[call |-> c, id |-> hit, removed |-> vm.removed, shell |-> None]}

(* A guest command needs the shell it is given to, and Parallels Tools. *)
Executes(c) ==
  LET shell == Shell(call[c].os, Text(call[c].asks))
  IN  /\ vm.registered /\ vm.running
      /\ shell = "/bin/sh" <=> vm.os = "linux"
      /\ did' = did \cup {[call |-> c, id |-> None, removed |-> vm.removed, shell |-> shell]}
      /\ UNCHANGED vm

-----------------------------------------------------------------------------
(* The server. *)

Active(k) == k.pc \in {"info", "command", "exec", "use"}

Answered(c, k, reply) ==
  call' = [call EXCEPT ![c] = [k EXCEPT !.pc = "answered", !.running = FALSE, !.reply = reply]]

GoOn(c, k, pc) == call' = [call EXCEPT ![c] = [k EXCEPT !.pc = pc, !.running = FALSE]]

FirstPc(r) ==
  IF r.tool \in {"vm_exec", "vm_smb"} \/ r.action = "list" THEN "info" ELSE "command"

(* The client took the label of row p from the table of call d. *)
FromRow(r, d, p) ==
  /\ call[d].reply = "ok" /\ call[d].asks.tool = "vm_network" /\ call[d].asks.action = "list"
  /\ p \in DOMAIN Nets(call[d].seen)
  /\ r.tool \in {"vm_device", "vm_network"} /\ r.device = {[kind |-> "net", slot |-> p]}

(* What the folder calls answered so far say was added. *)
AddedSoFar ==
  {call[d].asks.folder : d \in
     {e \in Calls : Verb(call[e].asks) = "--shf-host-add" /\ call[e].reply = "ok"}}

Entered(r) == [At(FirstPc(r), r) EXCEPT !.due = AddedSoFar]

Enter(c) ==
  \E r \in Requests :
    /\ up
    /\ call[c].pc = "idle"
    /\ IF ~Accepted(r) THEN Answered(c, At("idle", r), "refused")
       ELSE \/ call' = [call EXCEPT ![c] = Entered(r)]
            \/ \E d \in Calls : \E p \in DOMAIN Nets(call[d].seen) :
                 /\ FromRow(r, d, p)
                 /\ call' = [call EXCEPT ![c] =
                      [Entered(r) EXCEPT !.meant = Nets(call[d].seen)[p], !.since = call[d].base]]
    /\ UNCHANGED <<vm, did, missed, up, outside>>

Spawn(c) ==
  /\ up
  /\ Active(call[c]) /\ ~call[c].running /\ ~call[c].cancelled
  /\ call' = [call EXCEPT ![c].running = TRUE]
  /\ UNCHANGED <<vm, did, missed, up, outside>>

MayEnd(c, end) ==
  /\ up
  /\ Active(call[c])
  /\ end = "notStarted" <=> ~call[c].running
  /\ end = "killed" => call[c].cancelled
  /\ end = "notExecuted" => call[c].pc \in {"exec", "use"}

(* Info answers a table at once; vm_exec goes on without it, into the      *)
(* default shell; vm_smb does not.                                         *)
InfoReturns(c) ==
  \E end \in Ends :
    LET k == call[c]
        r == k.asks
        ok == RunErr(end, k.cancelled) = "nil"
        known == [k EXCEPT !.os = vm.os]
    IN  /\ k.pc = "info"
        /\ MayEnd(c, end)
        /\ end = "exit0" => vm.registered
        /\ CASE ~ok /\ r.tool = "vm_exec" -> GoOn(c, k, "exec")
             [] ~ok /\ r.tool # "vm_exec" -> Answered(c, k, "error")
             [] ok /\ r.action = "list" /\ r.tool # "vm_smb" ->
                  Answered(c, [known EXCEPT !.seen = vm.dev["net"], !.base = vm.removed,
                                            !.listed = SharedFolders(vm.folders)], "ok")
             [] ok /\ (r.action # "list" \/ r.tool = "vm_smb") ->
                  IF GuestAccepted(r, vm.os) THEN GoOn(c, known, "exec")
                  ELSE Answered(c, known, "error")
        /\ UNCHANGED <<vm, did, missed, up, outside>>

(* The one command of a configuration tool; a killed one may have worked. *)
CommandReturns(c) ==
  \E end \in Ends :
    LET ok == RunErr(end, call[c].cancelled) = "nil"
    IN  /\ call[c].pc = "command"
        /\ MayEnd(c, end)
        /\ \/ end \in {"exit0", "killed"} /\ Does(c)
           \/ end # "exit0" /\ UNCHANGED <<vm, did>>
        /\ Answered(c, call[c], IF ok THEN "ok" ELSE "error")
        /\ UNCHANGED <<missed, up, outside>>

(***************************************************************************)
(* A guest command.  vm_exec shows whatever exit code there was; share,    *)
(* mount and unmount want 0; the list runs `net share` and then `net use`  *)
(* and shows what either printed.                                          *)
(***************************************************************************)
ExecReturns(c) ==
  \E end \in Ends :
    LET k == call[c]
        r == k.asks
        err == ExecErr(end, k.cancelled)
    IN  /\ k.pc \in {"exec", "use"}
        /\ MayEnd(c, end)
        /\ \/ end \in {"exit0", "killed"} /\ Executes(c)
           \/ end # "exit0" /\ UNCHANGED <<vm, did>>
        /\ missed' = IF end = "notStarted" THEN missed \cup {c} ELSE missed
        /\ CASE r.action = "list" /\ k.pc = "exec" -> GoOn(c, k, "use")
             [] r.action = "list" /\ k.pc = "use" -> Answered(c, k, "ok")
             [] r.action # "list" /\ r.tool = "vm_exec" ->
                  Answered(c, k, CASE err # "nil" -> "error"
                                   [] err = "nil" /\ ExitCodeZero(end) -> "ok"
                                   [] OTHER -> "exit code")
             [] r.action # "list" /\ r.tool # "vm_exec" ->
                  Answered(c, k, IF ExecSucceeds(end, k.cancelled) THEN "ok" ELSE "error")
        /\ UNCHANGED <<up, outside>>

Returns(c) == InfoReturns(c) \/ CommandReturns(c) \/ ExecReturns(c)

Cancel(c) ==
  /\ up
  /\ Active(call[c]) /\ ~call[c].cancelled
  /\ call' = [call EXCEPT ![c].cancelled = TRUE]
  /\ UNCHANGED <<vm, did, missed, up, outside>>

ServerStops ==
  /\ up
  /\ up' = FALSE
  /\ call' = [c \in Calls |->
                IF Active(call[c]) THEN [call[c] EXCEPT !.pc = "lost"] ELSE call[c]]
  /\ UNCHANGED <<vm, did, missed, outside>>

(* The desktop user adds or removes an adapter, stops or starts the VM. *)
Desktop ==
  /\ outside < MaxOutside
  /\ \/ Adds("net")
     \/ \E i \in Slots : Removes("net", i)
     \/ vm' = [vm EXCEPT !.running = ~@]
  /\ outside' = outside + 1
  /\ UNCHANGED <<call, did, missed, up>>

Next ==
  \/ \E c \in Calls : Enter(c) \/ Spawn(c) \/ Returns(c) \/ Cancel(c)
  \/ Desktop
  \/ ServerStops

Spec == Init /\ [][Next]_vars

-----------------------------------------------------------------------------
(* Properties. *)

TypeOK ==
  /\ DOMAIN vm.dev = Kinds /\ \A k \in Kinds : IsHardware(vm.dev[k])
  /\ vm.made \in Nat /\ vm.removed \in Nat
  /\ vm.folders \subseteq Folders
  /\ \A s \in vm.saved : s.folders \subseteq Folders /\ \A k \in Kinds : IsHardware(s.dev[k])
  /\ vm.os \in Systems /\ vm.running \in BOOLEAN /\ vm.registered \in BOOLEAN
  /\ \A c \in Calls :
       LET k == call[c]
       IN  /\ k.asks \in Request /\ k.pc \in Pcs
           /\ k.os \in Systems \cup {""}
           /\ IsHardware(k.seen) /\ k.listed \subseteq Folders
           /\ k.meant \in Nat \cup {None}
           /\ k.reply \in {"none", "ok", "error", "exit code", "refused"}
  /\ did \subseteq [call : Calls, id : Nat \cup {None}, removed : Nat,
                    shell : Shells \cup {None}]
  /\ missed \subseteq Calls /\ up \in BOOLEAN /\ outside \in 0..MaxOutside

Changes(r) == r.action # "list" /\ r.tool # "vm_snapshot_list"

(***************************************************************************)
(* A call that reports success did what it was asked: its command took     *)
(* effect, in Parallels or in the guest.  Left out is a guest command that *)
(* could not be started at all, which ExecOS takes for exit code 0.        *)
(***************************************************************************)
OkMeansDone ==
  \A c \in Calls \ missed :
    call[c].reply = "ok" /\ Changes(call[c].asks) => \E m \in did : m.call = c

(* The tables can be relied on: no gap in the slots, at most ten of them. *)
Straight(hw) == \E n \in 0..10 : DOMAIN hw = 0..n - 1

(***************************************************************************)
(* The adapter that a call changes is the one whose row the client took    *)
(* the label from, as long as no adapter was removed in between and the    *)
(* slots had no gap and numbers of one digit: labels are positions in the  *)
(* table, and prlctl takes them for device names (types.go Nets,           *)
(* network.go list).                                                       *)
(***************************************************************************)
HitsWhatWasListed ==
  \A m \in did :
    LET k == call[m.call]
    IN  k.meant # None /\ k.since = m.removed
          /\ (\A d \in Calls : call[d].reply = "ok" => Straight(call[d].seen))
        => m.id = k.meant

(***************************************************************************)
(* What the SMB tool sends to a Windows guest runs in the shell it is      *)
(* written for (smb.go, and isPowerShellCommand in ops.go, which tells the *)
(* shells apart by the whole line): New-SmbShare and Remove-SmbShare in    *)
(* PowerShell whatever the arguments, `net use` and `net share` in cmd.exe *)
(* as long as no argument that is in the line holds a pipeline cmdlet such *)
(* as "select-object" - a password that does turns `net use` over to       *)
(* PowerShell, but one given without a user name does not.                 *)
(***************************************************************************)
RightShell(r, shell) ==
  LET inPowerShell == r.action = "share" \/ UnmountsShare(r)
      suspect == IF Has(r, "username") THEN r.keyword ELSE r.keyword \ {"password"}
  IN  /\ inPowerShell => shell = "powershell"
      /\ ~inPowerShell /\ suspect = {} => shell = "cmd.exe"

ShellFits ==
  \A m \in did :
    LET r == call[m.call].asks
    IN  m.shell # None /\ r.tool = "vm_smb" /\ vm.os = "windows" => RightShell(r, m.shell)

(***************************************************************************)
(* A folder that a call said it added is in every later table, unless a    *)
(* folder is removed or a snapshot restored: the flag that shares the JSON *)
(* object with the folders hides none but a folder of its own name.        *)
(***************************************************************************)
AddedIsListed ==
  \A c \in Calls :
    /\ call[c].reply = "ok" /\ call[c].asks.tool = "vm_shared_folders"
    /\ call[c].asks.action = "list"
    /\ \A d \in Calls :
         call[d].pc # "idle" =>
           Verb(call[d].asks) \notin {"--shf-host-del", "vm_snapshot_restore"}
    => call[c].due \ {"enabled"} \subseteq call[c].listed

(***************************************************************************)
(* What the source says of the program, and the code does not do.          *)
(***************************************************************************)

(* "only a failure to execute at all (e.g. Parallels Tools not running) is *)
(* an error" (ops.go Exec): a guest command that was never started is no   *)
(* success.                                                                *)
UnstartedIsAnError ==
  \A c \in missed : call[c].asks.action # "list" => call[c].reply # "ok"
=============================================================================
