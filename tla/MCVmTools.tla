----------------------------- MODULE MCVmTools -----------------------------
(* VmTools on a small instance: one request for each way through the       *)
(* handlers.                                                               *)
EXTENDS VmTools, TLC

Base ==
  [tool |-> "vm_configure", action |-> "other", device |-> {}, given |-> {},
   blank |-> {}, folder |-> "code", on |-> FALSE, text |-> "other",
   keyword |-> {}]

Dev(kind, slot) == {[kind |-> kind, slot |-> slot]}

To(tool, action, given) ==
  [Base EXCEPT !.tool = tool, !.action = action, !.given = given]

DeviceRequests ==
  {To("vm_cdrom", "attach", {"image"}), To("vm_cdrom", "disconnect", {}),
   To("vm_cdrom", "detach", {}), To("vm_disk_manage", "add", {"size"}),
   To("vm_disk_manage", "set", {"size"}),
   [To("vm_device", "add", {"type"}) EXCEPT !.device = Dev("net", 0)],
   [To("vm_device", "remove", {"name"}) EXCEPT !.device = Dev("net", 0)]}

NetworkRequests ==
  {To("vm_network", "list", {})} \cup
  {[To("vm_network", "set", {"enabled"}) EXCEPT !.device = d, !.on = TRUE] :
     d \in {{}, Dev("net", 0), Dev("net", 1)}}

FolderRequests ==
  {To("vm_shared_folders", "list", {})} \cup
  {[To("vm_shared_folders", a, {"name", "path"}) EXCEPT !.folder = f] :
     a \in {"add", "remove"}, f \in {"code", "enabled"}}

OtherRequests ==
  {To("vm_snapshot_create", "other", {"name"}), To("vm_snapshot_list", "other", {}),
   To("vm_snapshot_restore", "other", {"id"}), To("vm_snapshot_delete", "other", {"id"}),
   To("vm_bundle", "register", {"path"}), To("vm_bundle", "unregister", {}),
   To("vm_configure", "other", {"cpus"}),
   [To("vm_configure", "other", {"name"}) EXCEPT !.blank = {"name"}]}

GuestRequests ==
  {[To("vm_exec", "other", {"command"}) EXCEPT !.text = t] : t \in {"dollar", "other"}} \cup
  {To("vm_smb", "list", {}), To("vm_smb", "share", {"share_name", "folder_path"}),
   To("vm_smb", "mount", {"remote_ip", "share_name"}),
   [To("vm_smb", "mount", {"remote_ip", "share_name", "password"})
      EXCEPT !.keyword = {"password"}],
   [To("vm_smb", "mount", {"remote_ip", "share_name", "username", "password"})
      EXCEPT !.keyword = {"password"}],
   [To("vm_smb", "unmount", {"share_name"}) EXCEPT !.keyword = {"share_name"}],
   To("vm_smb", "unmount", {"drive_letter"}), To("vm_smb", "unmount", {})}

EveryRequest ==
  DeviceRequests \cup NetworkRequests \cup FolderRequests \cup OtherRequests \cup GuestRequests

CallSymmetry == Permutations(Calls)

MCSlots == 0..3
=============================================================================
