----------------------------- MODULE VmRequests -----------------------------
(***************************************************************************)
(* What the handlers of the configuration and guest tools make of their    *)
(* arguments: which requests are refused before any process runs, which    *)
(* prlctl command the others become, and in which shell a guest command    *)
(* runs.  And what the tables show of the hardware they list.              *)
(***************************************************************************)
EXTENDS Integers, FiniteSets

CONSTANTS Slots   \* the numbers a device name can end in

ASSUME SlotAssumption == Slots \subseteq Nat /\ IsFiniteSet(Slots)

Kinds == {"net", "hdd", "cdrom", "serial"}
Devices == [kind : Kinds, slot : Slots]

Tools ==
  {"vm_cdrom", "vm_disk_manage", "vm_device", "vm_network", "vm_shared_folders",
   "vm_configure", "vm_snapshot_create", "vm_snapshot_list", "vm_snapshot_restore",
   "vm_snapshot_delete", "vm_bundle", "vm_compact", "vm_install_tools",
   "vm_screenshot", "vm_exec", "vm_smb"}

(* Of the words a handler takes for one action, the first one it lists. *)
Actions ==
  {"list", "add", "remove", "set", "attach", "disconnect", "detach", "register",
   "unregister", "share", "mount", "unmount", "other"}

Fields ==
  {"image", "size", "type", "name", "path", "iface", "enabled", "cpus",
   "memory_mb", "id", "command", "share_name", "folder_path", "remote_ip",
   "drive_letter", "username", "password"}

-----------------------------------------------------------------------------
(* Arguments.  given: the fields that are not "" or 0; blank: those of     *)
(* them that strings.TrimSpace makes empty.                                *)

Has(r, f) == f \in r.given
Says(r, f) == f \in r.given \ r.blank

(* The checks of handler and client before the first process. *)
Accepted(r) ==
  CASE r.tool = "vm_cdrom" ->
         \/ r.action = "attach" /\ Says(r, "image")
         \/ r.action \in {"disconnect", "detach"}
    [] r.tool = "vm_disk_manage" -> Says(r, "size") /\ r.action \in {"add", "set"}
    [] r.tool = "vm_device" ->
         \/ r.action = "add" /\ Says(r, "type")
         \/ r.action = "remove" /\ Says(r, "name")
    [] r.tool = "vm_network" ->
         \/ r.action = "list"
         \/ r.action = "set" /\ \E f \in {"type", "iface", "enabled"} : Has(r, f)
    [] r.tool = "vm_shared_folders" ->
         \/ r.action = "list"
         \/ r.action = "add" /\ Says(r, "name") /\ Says(r, "path")
         \/ r.action = "remove" /\ Says(r, "name")
    [] r.tool = "vm_configure" -> Has(r, "cpus") \/ Has(r, "memory_mb") \/ Says(r, "name")
    [] r.tool = "vm_snapshot_create" -> Has(r, "name")
    [] r.tool = "vm_snapshot_restore" -> Says(r, "id") \/ Says(r, "name")
    [] r.tool = "vm_snapshot_delete" -> Says(r, "id")
    [] r.tool = "vm_bundle" ->
         \/ r.action = "register" /\ Says(r, "path")
         \/ r.action = "unregister"
    [] r.tool = "vm_exec" -> Says(r, "command")
    [] r.tool = "vm_smb" ->
         \/ r.action \in {"list", "unmount"}
         \/ r.action = "share" /\ Says(r, "share_name") /\ Says(r, "folder_path")
         \/ r.action = "mount" /\ Says(r, "remote_ip") /\ Says(r, "share_name")
    [] OTHER -> TRUE

(* The device a command names: the one given, or the first of its kind. *)
Device(r) ==
  IF r.device # {} THEN CHOOSE d \in r.device : TRUE
  ELSE [kind |-> CASE r.tool = "vm_cdrom" -> "cdrom"
                   [] r.tool = "vm_disk_manage" -> "hdd"
                   [] OTHER -> "net",
        slot |-> 0]

(* The prlctl option that does the work; detaching an image deletes the    *)
(* drive.                                                                  *)
Verb(r) ==
  CASE r.tool = "vm_cdrom" ->
         IF r.action = "detach" THEN "--device-del" ELSE "--device-set"
    [] r.tool = "vm_disk_manage" ->
         IF r.action = "add" THEN "--device-add" ELSE "--device-set"
    [] r.tool = "vm_device" ->
         IF r.action = "add" THEN "--device-add" ELSE "--device-del"
    [] r.tool = "vm_network" -> "--device-set"
    [] r.tool = "vm_shared_folders" /\ r.action = "add" -> "--shf-host-add"
    [] r.tool = "vm_shared_folders" /\ r.action = "remove" -> "--shf-host-del"
    [] r.tool = "vm_bundle" -> r.action
    [] OTHER -> r.tool

-----------------------------------------------------------------------------
(* Guest commands. *)

(***************************************************************************)
(* A command line, as far as isPowerShellCommand looks at it: how it       *)
(* starts once trimmed, with $ or [ ("dollar"), with a verb of its list    *)
(* such as "remove-" ("cmdlet") or otherwise, and whether one of five      *)
(* pipeline cmdlets, select-object and the like, is anywhere in it.        *)
(***************************************************************************)
Starts == {"dollar", "cmdlet", "other"}
Lines == [start : Starts, keyword : BOOLEAN]

(* Plausible bug: only the cmdlets are looked for. *)
IsPowerShellCommand_Cmdlets(line) == line.start = "cmdlet" \/ line.keyword

IsPowerShellCommand(line) == line.start # "other" \/ line.keyword

Shells == {"/bin/sh", "cmd.exe", "powershell"}

(* Plausible bug: no shell for a system that is not known. *)
Shell_Unknown(os, line) ==
  CASE os = "" -> ""
    [] os = "linux" -> "/bin/sh"
    [] OTHER -> IF IsPowerShellCommand(line) THEN "powershell" ELSE "cmd.exe"

(* os: what Info says of the guest, or "" when it is not known. *)
Shell(os, line) ==
  CASE os # "windows" -> "/bin/sh"
    [] os = "windows" /\ IsPowerShellCommand(line) -> "powershell"
    [] OTHER -> "cmd.exe"

(* A drive letter wins over a share name. *)
UnmountsShare(r) == r.action = "unmount" /\ ~Has(r, "drive_letter")

(* The arguments that become part of the line; a password only along with  *)
(* a user name.  None of the texts around them ends or begins like one of  *)
(* the pipeline cmdlets, so the line holds one if an argument in it does.  *)
Inserted(r) ==
  CASE r.tool = "vm_exec" -> {"command"}
    [] r.action = "share" -> {"share_name", "folder_path"}
    [] r.action = "mount" ->
         {"drive_letter", "remote_ip", "share_name"}
           \cup IF Has(r, "username") THEN {"username", "password"} ELSE {}
    [] r.action = "unmount" ->
         IF UnmountsShare(r) THEN {"share_name"} ELSE {"drive_letter"}
    [] OTHER -> {}

(* The line a tool sends: the user's; $dir = ..., Remove-SmbShare ..., or  *)
(* `net ...` and `cmd.exe /c net ...`.                                     *)
Text(r) ==
  [start |-> CASE r.tool = "vm_exec" -> r.text
               [] r.action = "share" -> "dollar"
               [] UnmountsShare(r) -> "cmdlet"
               [] OTHER -> "other",
   keyword |-> Inserted(r) \cap r.given \cap r.keyword # {}]

(* After Info: SMB shares are for Windows, an unmount needs a target. *)
GuestAccepted(r, os) ==
  r.tool = "vm_smb" =>
    CASE r.action = "share" -> os = "windows"
      [] r.action = "unmount" -> Has(r, "drive_letter") \/ Has(r, "share_name")
      [] OTHER -> TRUE

-----------------------------------------------------------------------------
(* Tables.  hw maps the slots in use to their devices. *)

(***************************************************************************)
(* sort.Strings on "net0", "net1", "net10", ...: of two slots below 100    *)
(* the one whose digits come first as a string.                            *)
(***************************************************************************)
Key(i) == IF i < 10 THEN 11 * i ELSE 11 * (i \div 10) + 1 + (i % 10)

Position(S, i) == Cardinality({j \in S : Key(j) < Key(i)})

(* Plausible bug: disabled adapters are not listed. *)
Nets_Enabled(hw) ==
  LET S == {i \in DOMAIN hw : hw[i].on}
  IN  [p \in 0..Cardinality(S) - 1 |-> hw[CHOOSE i \in S : Position(S, i) = p].id]

(* The rows of a table, which label row p with net<p>. *)
Nets(hw) ==
  LET S == DOMAIN hw
  IN  [p \in 0..Cardinality(S) - 1 |-> hw[CHOOSE i \in S : Position(S, i) = p].id]

(* Plausible bug: break for continue, where the flag happens to come first. *)
SharedFolders_Break(names) == {}

(* The object that holds the folders holds a flag "enabled" as well. *)
SharedFolders(names) == names \ {"enabled"}
=============================================================================
