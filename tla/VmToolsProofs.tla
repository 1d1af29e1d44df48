--------------------------- MODULE VmToolsProofs ---------------------------
(***************************************************************************)
(* What the configuration and guest tools guarantee for any number of      *)
(* calls, devices, folders and changes on the desktop.                     *)
(***************************************************************************)
EXTENDS VmTools, FiniteSetTheorems, WellFoundedInduction, TLAPS

(***************************************************************************)
(* Tables.                                                                 *)
(***************************************************************************)

(* No two slots sort alike. *)
LEMMA KeysDiffer ==
  ASSUME NEW i \in Nat, NEW j \in Nat, i # j
  PROVE  Key(i) \in Nat /\ Key(j) \in Nat /\ Key(i) # Key(j)
<1>1. \A n \in Nat : /\ n \div 10 \in Nat /\ n % 10 \in 0..9
                     /\ n = 10 * (n \div 10) + (n % 10)
  OBVIOUS
<1> DEFINE q == i \div 10
           r == i % 10
           s == j \div 10
           t == j % 10
<1>2. q \in Nat /\ r \in 0..9 /\ i = 10 * q + r /\ s \in Nat /\ t \in 0..9 /\ j = 10 * s + t
  BY <1>1
<1>3. /\ Key(i) = IF i < 10 THEN 11 * i ELSE 11 * q + 1 + r
      /\ Key(j) = IF j < 10 THEN 11 * j ELSE 11 * s + 1 + t
  BY DEF Key
<1> HIDE DEF q, r, s, t
<1> QED BY <1>2, <1>3

LEMMA KeyIsNat == \A i \in Nat : Key(i) \in Nat
<1>1. \A n \in Nat : n \div 10 \in Nat /\ n % 10 \in 0..9
  OBVIOUS
<1> QED BY <1>1 DEF Key

(* The set of the slots before one. *)
Before(S, i) == {j \in S : Key(j) < Key(i)}

LEMMA PositionGrows ==
  ASSUME NEW S, S \subseteq Nat, IsFiniteSet(S), NEW i \in S, NEW j \in S, Key(i) < Key(j)
  PROVE  Position(S, i) \in Nat /\ Position(S, j) \in Nat /\ Position(S, i) < Position(S, j)
<1>1. IsFiniteSet(Before(S, i)) /\ IsFiniteSet(Before(S, j))
  BY FS_Subset DEF Before
<1>2. /\ Cardinality(Before(S, i)) \in Nat /\ Cardinality(Before(S, j)) \in Nat
  BY <1>1, FS_CardinalityType
<1>3. Before(S, i) \subseteq Before(S, j) /\ i \in Before(S, j) /\ i \notin Before(S, i)
  <2>1. Key(i) \in Nat /\ Key(j) \in Nat
    BY KeyIsNat
  <2>2. ASSUME NEW k \in S, Key(k) < Key(i) PROVE Key(k) < Key(j)
    <3>1. Key(k) \in Nat
      BY KeyIsNat
    <3> QED BY <2>1, <2>2, <3>1
  <2>3. ~(Key(i) < Key(i))
    BY <2>1
  <2> QED BY <2>2, <2>3 DEF Before
<1>4. Before(S, i) \in SUBSET Before(S, j) /\ Before(S, i) # Before(S, j)
  BY <1>3
<1>5. Cardinality(Before(S, i)) < Cardinality(Before(S, j))
  BY <1>1, <1>2, <1>4, FS_Subset
<1> QED BY <1>2, <1>5 DEF Position, Before

(* Every row of a table is one of the slots. *)
LEMMA RowIsSlot ==
  ASSUME NEW S, S \subseteq Nat, IsFiniteSet(S), NEW p \in 0..Cardinality(S) - 1
  PROVE  \E i \in S : Position(S, i) = p
<1> DEFINE n == Cardinality(S)
           T == (0..n - 1) \ {p}
           f == [i \in S |-> Position(S, i)]
<1> SUFFICES ASSUME \A i \in S : Position(S, i) # p PROVE FALSE
  OBVIOUS
<1>1. n \in Nat
  BY FS_CardinalityType
<1>2. ASSUME NEW i \in S PROVE Position(S, i) \in 0..n - 1
  <2>1. IsFiniteSet(Before(S, i)) /\ Cardinality(Before(S, i)) <= n
        /\ (n = Cardinality(Before(S, i)) => S = Before(S, i))
    BY FS_Subset DEF Before
  <2>2. i \notin Before(S, i)
    BY KeyIsNat DEF Before
  <2>3. Cardinality(Before(S, i)) \in Nat
    BY <2>1, FS_CardinalityType
  <2>4. Cardinality(Before(S, i)) # n
    BY <2>1, <2>2
  <2> HIDE DEF n
  <2> QED BY <1>1, <2>1, <2>3, <2>4 DEF Position, Before
<1>3. f \in [S -> T]
  BY <1>2
<1>4. IsFiniteSet(T) /\ Cardinality(T) < n
  <2>1. IsFiniteSet(0..n - 1) /\ Cardinality(0..n - 1) = n
    BY <1>1, FS_Interval
  <2>2. T \in SUBSET (0..n - 1) /\ T # 0..n - 1
    OBVIOUS
  <2>3. IsFiniteSet(T) /\ Cardinality(T) <= n /\ Cardinality(T) # n
    BY <2>1, <2>2, FS_Subset
  <2>4. Cardinality(T) \in Nat
    BY <2>3, FS_CardinalityType
  <2> QED BY <1>1, <2>3, <2>4
<1>5. PICK i, j \in S : i # j /\ Position(S, i) = Position(S, j)
  <2> HIDE DEF f, T, n
  <2>1. \E i, j \in S : i # j /\ f[i] = f[j]
    BY <1>3, <1>4, FS_PigeonHole DEF n
  <2> USE DEF f
  <2> QED BY <2>1
<1>6. Key(i) < Key(j) \/ Key(j) < Key(i)
  BY <1>5, KeysDiffer
<1>7. Position(S, i) # Position(S, j)
  <2>1. CASE Key(i) < Key(j)
    <3>1. /\ Position(S, i) \in Nat /\ Position(S, j) \in Nat
          /\ Position(S, i) < Position(S, j)
      BY <2>1, PositionGrows
    <3> QED BY <3>1
  <2>2. CASE Key(j) < Key(i)
    <3>1. /\ Position(S, i) \in Nat /\ Position(S, j) \in Nat
          /\ Position(S, j) < Position(S, i)
      BY <2>2, PositionGrows
    <3> QED BY <3>1
  <2> QED BY <1>6, <2>1, <2>2
<1> QED BY <1>5, <1>7

(***************************************************************************)
(* With no gap and at most ten slots, a label is the number of its slot.   *)
(***************************************************************************)
LEMMA LabelsAreSlots ==
  ASSUME NEW hw, Straight(hw), NEW p \in DOMAIN Nets(hw)
  PROVE  p \in DOMAIN hw /\ Nets(hw)[p] = hw[p].id
<1>1. PICK n \in 0..10 : DOMAIN hw = 0..n - 1
  BY DEF Straight
<1> DEFINE S == 0..n - 1
<1>2. Cardinality(S) = n /\ IsFiniteSet(S)
  BY FS_Interval
<1>3. p \in S
  BY <1>1, <1>2 DEF Nets
<1>4. ASSUME NEW i \in S PROVE Position(S, i) = i
  <2>1. {j \in S : Key(j) < Key(i)} = 0..i - 1
    BY DEF Key
  <2>2. Cardinality(0..i - 1) = i
    BY FS_Interval
  <2> QED BY <2>1, <2>2 DEF Position
<1>5. (CHOOSE i \in S : Position(S, i) = p) = p
  BY <1>3, <1>4
<1>6. Nets(hw)[p] = hw[CHOOSE i \in S : Position(S, i) = p].id
  BY <1>1, <1>2, <1>3 DEF Nets
<1> QED BY <1>1, <1>3, <1>5, <1>6

(* The first free slot. *)
LEMMA FirstSlot ==
  ASSUME NEW S \in SUBSET Nat, S # {}
  PROVE  (CHOOSE j \in S : \A k \in S : j <= k) \in S
<1>1. PICK j \in S : \A k \in S : ~(<<k, j>> \in OpToRel(<, Nat))
  BY NatLessThanWellFounded, WFMin
<1>2. ASSUME NEW k \in S PROVE j <= k
  <2>1. ~(k < j)
    BY <1>1 DEF OpToRel
  <2> QED BY <2>1
<1> QED BY <1>2

(***************************************************************************)
(* The types.                                                              *)
(***************************************************************************)
Hardware == UNION {[S -> Entry] : S \in SUBSET Slots}

VM ==
  [dev : [Kinds -> Hardware], made : Nat, removed : Nat, folders : SUBSET Folders,
   saved : SUBSET [dev : [Kinds -> Hardware], folders : SUBSET Folders],
   os : Systems, running : BOOLEAN, registered : BOOLEAN]

Task ==
  [asks : Request, pc : Pcs, running : BOOLEAN, os : Systems \cup {""},
   seen : Hardware, listed : SUBSET Folders, base : Nat, meant : Nat \cup {None},
   since : Nat, due : SUBSET Folders, cancelled : BOOLEAN,
   reply : {"none", "ok", "error", "exit code", "refused"}]

Deed ==
  [call : Calls, id : Nat \cup {None}, removed : Nat, shell : Shells \cup {None}]

Typed ==
  /\ vm \in VM /\ call \in [Calls -> Task] /\ did \subseteq Deed
  /\ missed \subseteq Calls /\ up \in BOOLEAN /\ outside \in 0..MaxOutside

LEMMA HardwareIs ==
  ASSUME NEW hw \in Hardware
  PROVE  /\ hw \in [DOMAIN hw -> Entry] /\ DOMAIN hw \subseteq Slots
         /\ DOMAIN hw \subseteq Nat /\ IsFiniteSet(DOMAIN hw)
<1>1. PICK S \in SUBSET Slots : hw \in [S -> Entry]
  BY DEF Hardware
<1>2. DOMAIN hw = S
  BY <1>1
<1>3. IsFiniteSet(S)
  BY SlotAssumption, FS_Subset
<1> QED BY <1>1, <1>2, <1>3, SlotAssumption

LEMMA HardwareMade ==
  ASSUME NEW S \in SUBSET Slots, NEW hw \in [S -> Entry]
  PROVE  hw \in Hardware
BY DEF Hardware

LEMMA FreshTyped ==
  ASSUME NEW n \in Nat, 0..n - 1 \subseteq Slots, NEW on \in BOOLEAN
  PROVE  Fresh(n, on) \in Hardware
<1>1. Fresh(n, on) \in [0..n - 1 -> Entry]
  BY DEF Fresh, Entry
<1> QED BY <1>1, HardwareMade

LEMMA EmptyTyped == <<>> \in Hardware /\ DOMAIN <<>> = {}
<1>1. <<>> \in [{} -> Entry] /\ DOMAIN <<>> = {}
  OBVIOUS
<1> QED BY <1>1, HardwareMade

(* The initial states have the types of their variables. *)
LEMMA ToolsTypeInit == Init => Typed
<1> SUFFICES ASSUME Init PROVE Typed OBVIOUS
<1>1. vm \in VM
  <2>1. PICK n \in NetCounts, on \in BOOLEAN, os \in Systems :
          vm = [dev |-> [k \in Kinds |-> CASE k = "net" -> Fresh(n, on)
                                           [] k = "serial" -> <<>>
                                           [] OTHER -> Fresh(1, TRUE)],
                made |-> Cardinality(Slots), removed |-> 0, folders |-> {}, saved |-> {},
                os |-> os, running |-> TRUE, registered |-> TRUE]
    BY DEF Init
  <2>2. Fresh(n, on) \in Hardware
    <3>1. n \in Nat /\ 0..n - 1 \subseteq Slots
      BY ToolsAssumption
    <3> QED BY <3>1, FreshTyped
  <2>3. Fresh(1, TRUE) \in Hardware
    <3>1. 0..1 - 1 \subseteq Slots
      BY ToolsAssumption
    <3> QED BY <3>1, FreshTyped
  <2>4. Cardinality(Slots) \in Nat
    BY SlotAssumption, FS_CardinalityType
  <2>5. [k \in Kinds |-> CASE k = "net" -> Fresh(n, on)
                          [] k = "serial" -> <<>>
                          [] OTHER -> Fresh(1, TRUE)] \in [Kinds -> Hardware]
    BY <2>2, <2>3, EmptyTyped
  <2> QED BY <2>1, <2>4, <2>5 DEF VM
<1>2. call \in [Calls -> Task]
  <2>1. (CHOOSE r \in Requests : TRUE) \in Request
    BY ToolsAssumption
  <2>2. \A r \in Request : At("idle", r) \in Task
    BY EmptyTyped DEF At, Task, Pcs
  <2> QED BY <2>1, <2>2 DEF Init
<1> QED BY <1>1, <1>2, ToolsAssumption DEF Init, Typed

(***************************************************************************)
(* What a command does to the VM: it removes adapters or leaves those that *)
(* are there in their slots, and it removes folders only if it is made to. *)
(***************************************************************************)
Kept(old, new) == \A i \in DOMAIN old : i \in DOMAIN new /\ new[i].id = old[i].id

Takes(r) == Verb(r) \in {"--shf-host-del", "vm_snapshot_restore"}

GoesOn(old, new) ==
  /\ new \in VM /\ new.os = old.os
  /\ new.removed >= old.removed
  /\ new.removed = old.removed => Kept(old.dev["net"], new.dev["net"])

LEMMA AddsTyped ==
  ASSUME vm \in VM, NEW kind \in Kinds, Adds(kind)
  PROVE  GoesOn(vm, vm') /\ vm'.folders = vm.folders
<1> DEFINE hw == vm.dev[kind]
           free == Slots \ DOMAIN hw
           i == CHOOSE j \in free : \A k \in free : j <= k
           new == WithNew(hw, vm.made)
<1>1. free # {} /\ vm' = [vm EXCEPT !.dev[kind] = new, !.made = @ + 1]
  BY DEF Adds
<1>2. hw \in Hardware /\ vm.made \in Nat /\ vm.dev \in [Kinds -> Hardware] /\ vm.removed \in Nat
  BY DEF VM
<1>3. hw \in [DOMAIN hw -> Entry] /\ DOMAIN hw \subseteq Slots
  BY <1>2, HardwareIs
<1>4. i \in free
  BY <1>1, SlotAssumption, FirstSlot
<1> HIDE DEF i
<1>5. new = [j \in DOMAIN hw \cup {i} |-> IF j = i THEN [id |-> vm.made, on |-> TRUE] ELSE hw[j]]
  BY DEF WithNew, i
<1> HIDE DEF new, free
<1>6. [id |-> vm.made, on |-> TRUE] \in Entry
  BY <1>2 DEF Entry
<1>7. new \in Hardware /\ DOMAIN new = DOMAIN hw \cup {i} /\ Kept(hw, new)
  <2>1. \A j \in DOMAIN hw : hw[j] \in Entry /\ j # i
    BY <1>3, <1>4 DEF free
  <2>2. new \in [DOMAIN hw \cup {i} -> Entry]
    BY <1>5, <1>6, <2>1
  <2>3. DOMAIN hw \cup {i} \in SUBSET Slots
    BY <1>3, <1>4 DEF free
  <2>4. new \in Hardware
    BY <2>2, <2>3, HardwareMade
  <2> QED BY <1>5, <2>1, <2>4 DEF Kept
<1>8. [vm.dev EXCEPT ![kind] = new] \in [Kinds -> Hardware]
  BY <1>2, <1>7
<1>9. /\ vm' \in VM /\ vm'.os = vm.os /\ vm'.removed = vm.removed /\ vm'.folders = vm.folders
      /\ vm'.dev = [vm.dev EXCEPT ![kind] = new]
  <2> DEFINE D == [vm.dev EXCEPT ![kind] = new]
  <2>1. vm' = [vm EXCEPT !.dev = D, !.made = vm.made + 1]
    BY <1>1
  <2>2. D \in [Kinds -> Hardware] /\ vm.made + 1 \in Nat
    BY <1>2, <1>8
  <2> HIDE DEF D
  <2>3. /\ vm' \in VM /\ vm'.os = vm.os /\ vm'.removed = vm.removed
        /\ vm'.folders = vm.folders /\ vm'.dev = D
    BY <2>1, <2>2 DEF VM
  <2> QED BY <2>3 DEF D
<1>10. Kept(vm.dev["net"], vm'.dev["net"])
  <2>1. CASE kind = "net"
    BY <1>2, <1>7, <1>9, <2>1
  <2>2. CASE kind # "net"
    BY <1>2, <1>9, <2>2 DEF Kept, Kinds
  <2> QED BY <2>1, <2>2
<1> QED BY <1>2, <1>9, <1>10 DEF GoesOn

LEMMA RemovesTyped ==
  ASSUME vm \in VM, NEW kind \in Kinds, NEW slot \in Slots, Removes(kind, slot)
  PROVE  GoesOn(vm, vm') /\ vm'.folders = vm.folders
<1> DEFINE hw == vm.dev[kind]
           new == Without(hw, slot)
<1>1. vm' = [vm EXCEPT !.dev[kind] = new, !.removed = @ + 1]
  BY DEF Removes
<1>2. hw \in Hardware /\ vm.removed \in Nat /\ vm.dev \in [Kinds -> Hardware]
  BY DEF VM
<1>3. hw \in [DOMAIN hw -> Entry] /\ DOMAIN hw \subseteq Slots
  BY <1>2, HardwareIs
<1>4. new \in [DOMAIN hw \ {slot} -> Entry]
  BY <1>3 DEF Without
<1>5. new \in Hardware
  BY <1>3, <1>4, HardwareMade
<1> HIDE DEF new
<1>6. [vm.dev EXCEPT ![kind] = new] \in [Kinds -> Hardware]
  BY <1>2, <1>5
<1>7. /\ vm' \in VM /\ vm'.os = vm.os /\ vm'.removed = vm.removed + 1
      /\ vm'.folders = vm.folders
  <2> DEFINE D == [vm.dev EXCEPT ![kind] = new]
  <2>1. vm' = [vm EXCEPT !.dev = D, !.removed = vm.removed + 1]
    BY <1>1
  <2>2. D \in [Kinds -> Hardware] /\ vm.removed + 1 \in Nat
    BY <1>2, <1>6
  <2> HIDE DEF D
  <2> QED BY <2>1, <2>2 DEF VM
<1> QED BY <1>2, <1>7 DEF GoesOn

(* Nothing changes but the power, the registration, folders or snapshots.  *)
LEMMA SameHardware ==
  ASSUME vm \in VM, NEW new \in VM, new.dev = vm.dev, new.os = vm.os,
         new.removed = vm.removed
  PROVE  GoesOn(vm, new)
BY DEF GoesOn, Kept, VM

(* A device is switched on or off, or left as it is.                       *)
LEMMA SwitchTyped ==
  ASSUME vm \in VM, NEW kind \in Kinds, NEW slot \in DOMAIN vm.dev[kind],
         NEW on \in BOOLEAN, vm' = [vm EXCEPT !.dev[kind][slot].on = on]
  PROVE  GoesOn(vm, vm') /\ vm'.folders = vm.folders
<1> DEFINE hw == vm.dev[kind]
           entry == [hw[slot] EXCEPT !.on = on]
           new == [hw EXCEPT ![slot] = entry]
           D == [vm.dev EXCEPT ![kind] = new]
<1>1. hw \in Hardware /\ vm.removed \in Nat /\ vm.dev \in [Kinds -> Hardware]
  BY DEF VM
<1>2. hw \in [DOMAIN hw -> Entry] /\ DOMAIN hw \subseteq Slots
  BY <1>1, HardwareIs
<1>3. entry \in Entry /\ entry.id = hw[slot].id
  BY <1>2 DEF Entry
<1>4. vm' = [vm EXCEPT !.dev = D]
  OBVIOUS
<1> HIDE DEF entry
<1>5. new \in [DOMAIN hw -> Entry]
  BY <1>2, <1>3
<1>6. new \in Hardware /\ Kept(hw, new)
  <2>1. new \in Hardware
    BY <1>2, <1>5, HardwareMade
  <2> QED BY <1>2, <1>3, <2>1 DEF Kept
<1> HIDE DEF new
<1>7. D \in [Kinds -> Hardware]
  BY <1>1, <1>6
<1>8. Kept(vm.dev["net"], D["net"])
  <2>1. CASE kind = "net"
    BY <1>1, <1>6, <2>1
  <2>2. CASE kind # "net"
    BY <1>1, <2>2 DEF Kept, Kinds
  <2> QED BY <2>1, <2>2
<1> HIDE DEF D
<1>9. /\ vm' \in VM /\ vm'.os = vm.os /\ vm'.removed = vm.removed /\ vm'.dev = D
      /\ vm'.folders = vm.folders
  BY <1>1, <1>4, <1>7 DEF VM
<1>10. Kept(vm.dev["net"], vm'.dev["net"])
  BY <1>8, <1>9
<1> QED BY <1>1, <1>9, <1>10 DEF GoesOn

(***************************************************************************)
(* The command of a call: what it does to the VM, and its deed.            *)
(***************************************************************************)
Hit(r) ==
  LET d == Device(r)
  IN  IF d.slot \in DOMAIN vm.dev[d.kind] THEN vm.dev[d.kind][d.slot].id ELSE None

LEMMA DeviceTyped ==
  ASSUME NEW r \in Request
  PROVE  Device(r).kind \in Kinds /\ Device(r).slot \in Slots
<1>1. CASE r.device # {}
  <2>1. (CHOOSE d \in r.device : TRUE) \in Devices
    BY <1>1 DEF Request
  <2> QED BY <1>1, <2>1 DEF Device, Devices
<1>2. CASE r.device = {}
  BY <1>2, ToolsAssumption DEF Device, Kinds
<1> QED BY <1>1, <1>2

LEMMA HitTyped ==
  ASSUME vm \in VM, NEW r \in Request
  PROVE  Hit(r) \in Nat \cup {None}
<1>1. vm.dev[Device(r).kind] \in Hardware
  BY DeviceTyped DEF VM
<1>2. vm.dev[Device(r).kind] \in [DOMAIN vm.dev[Device(r).kind] -> Entry]
  BY <1>1, HardwareIs
<1> QED BY <1>2 DEF Hit, Entry

(* Options and names of tools, and what they stand for, are all different. *)
LEMMA VerbOfTool ==
  ASSUME NEW r \in Request
  PROVE  /\ r.tool = "vm_bundle" => Verb(r) \in Actions
         /\ r.tool \in {"vm_snapshot_create", "vm_snapshot_restore", "vm_snapshot_delete"}
              => Verb(r) = r.tool
         /\ Verb(r) = "vm_snapshot_restore" <=> r.tool = "vm_snapshot_restore"
<1>1. r.action \in Actions
  BY DEF Request
<1> QED BY <1>1 DEF Verb, Actions

LEMMA ToolsDoes ==
  ASSUME Typed, NEW c \in Calls, Does(c)
  PROVE  LET r == call[c].asks
             m == [call |-> c, id |-> Hit(r), removed |-> vm.removed, shell |-> None]
         IN  /\ GoesOn(vm, vm')
             /\ ~Takes(r) => vm.folders \subseteq vm'.folders
             /\ Verb(r) = "--shf-host-add" => r.folder \in vm'.folders
             /\ did' = did \cup {m} /\ m \in Deed
<1> DEFINE r == call[c].asks
           d == Device(r)
           m == [call |-> c, id |-> Hit(r), removed |-> vm.removed, shell |-> None]
           hit == IF d.slot \in DOMAIN vm.dev[d.kind] THEN vm.dev[d.kind][d.slot].id ELSE None
<1>1. r \in Request /\ vm \in VM
  BY DEF Typed, Task
<1>2. d.kind \in Kinds /\ d.slot \in Slots
  BY <1>1, DeviceTyped
<1>3. did' = did \cup {m} /\ m \in Deed
  <2>1. did' = did \cup {m}
    BY DEF Does, Hit
  <2>2. vm.removed \in Nat
    BY <1>1 DEF VM
  <2> QED BY <1>1, <2>1, <2>2, HitTyped DEF Deed
<1> DEFINE Effect ==
      /\ GoesOn(vm, vm')
      /\ ~Takes(r) => vm.folders \subseteq vm'.folders
      /\ Verb(r) = "--shf-host-add" => r.folder \in vm'.folders
<1> SUFFICES Effect
  BY <1>3
<1> DEFINE Options == {"--device-add", "--device-del", "--device-set", "--shf-host-add",
                       "--shf-host-del"}
<1>o. Verb(r) \in Options =>
        r.tool \notin {"vm_bundle", "vm_snapshot_create", "vm_snapshot_restore",
                      "vm_snapshot_delete"}
  BY <1>1, VerbOfTool DEF Actions
<1>4. CASE Verb(r) = "--device-add"
  <2>1. Adds(d.kind)
    BY <1>o, <1>4 DEF Does
  <2>2. GoesOn(vm, vm') /\ vm'.folders = vm.folders
    BY <1>1, <1>2, <2>1, AddsTyped
  <2> QED BY <1>4, <2>2
<1>5. CASE Verb(r) = "--device-del"
  <2>1. Removes(d.kind, d.slot)
    BY <1>o, <1>5 DEF Does
  <2>2. GoesOn(vm, vm') /\ vm'.folders = vm.folders
    BY <1>1, <1>2, <2>1, RemovesTyped
  <2> QED BY <1>5, <2>2
<1>6. CASE Verb(r) = "--device-set"
  <2> DEFINE on == CASE r.tool = "vm_cdrom" -> r.action = "attach"
                     [] r.tool = "vm_network" /\ Has(r, "enabled") -> r.on
                     [] OTHER -> vm.dev[d.kind][d.slot].on
  <2>1. hit # None /\ vm' = [vm EXCEPT !.dev[d.kind][d.slot].on = on]
    BY <1>o, <1>6 DEF Does
  <2>2. d.slot \in DOMAIN vm.dev[d.kind]
    BY <2>1
  <2>3. vm.dev[d.kind][d.slot].on \in BOOLEAN
    <3>1. vm.dev[d.kind] \in Hardware
      BY <1>1, <1>2 DEF VM
    <3>2. vm.dev[d.kind][d.slot] \in Entry
      BY <2>2, <3>1, HardwareIs
    <3> QED BY <3>2 DEF Entry
  <2>4. on \in BOOLEAN
    <3>1. r.on \in BOOLEAN
      BY <1>1 DEF Request
    <3>2. (r.action = "attach") \in BOOLEAN
      OBVIOUS
    <3>3. CASE r.tool = "vm_cdrom"
      BY <3>2, <3>3
    <3>4. CASE r.tool = "vm_network" /\ Has(r, "enabled")
      BY <3>1, <3>4
    <3>5. CASE r.tool # "vm_cdrom" /\ ~(r.tool = "vm_network" /\ Has(r, "enabled"))
      BY <2>3, <3>5
    <3> QED BY <3>3, <3>4, <3>5
  <2> HIDE DEF on
  <2>5. GoesOn(vm, vm') /\ vm'.folders = vm.folders
    BY <1>1, <1>2, <2>1, <2>2, <2>4, SwitchTyped
  <2> QED BY <1>6, <2>5
<1>7. CASE Verb(r) = "--shf-host-add"
  <2>1. vm' = [vm EXCEPT !.folders = @ \cup {r.folder}]
    BY <1>o, <1>7 DEF Does
  <2>2. r.folder \in Folders
    BY <1>1 DEF Request
  <2>3. vm' \in VM /\ vm'.dev = vm.dev /\ vm'.os = vm.os /\ vm'.removed = vm.removed
        /\ vm'.folders = vm.folders \cup {r.folder}
    BY <1>1, <2>1, <2>2 DEF VM
  <2> QED BY <1>1, <2>3, SameHardware
<1>8. CASE Verb(r) = "--shf-host-del"
  <2>1. vm' = [vm EXCEPT !.folders = @ \ {r.folder}]
    BY <1>o, <1>8 DEF Does
  <2>2. vm' \in VM /\ vm'.dev = vm.dev /\ vm'.os = vm.os /\ vm'.removed = vm.removed
    BY <1>1, <2>1 DEF VM
  <2> QED BY <1>1, <1>8, <2>2, SameHardware DEF Takes
<1>9. CASE Verb(r) \notin Options /\ r.tool = "vm_bundle"
  <2>1. vm' = [vm EXCEPT !.registered = (r.action = "register")]
    BY <1>9 DEF Does
  <2>2. (r.action = "register") \in BOOLEAN
    OBVIOUS
  <2>3. vm' \in VM /\ vm'.dev = vm.dev /\ vm'.os = vm.os /\ vm'.removed = vm.removed
        /\ vm'.folders = vm.folders
    BY <1>1, <2>1, <2>2 DEF VM
  <2> QED BY <1>1, <1>9, <2>3, SameHardware
<1>10. CASE Verb(r) \notin Options /\ r.tool = "vm_snapshot_create"
  <2> DEFINE s == [dev |-> vm.dev, folders |-> vm.folders]
  <2>1. vm' = [vm EXCEPT !.saved = @ \cup {s}]
    BY <1>10 DEF Does
  <2>2. s \in [dev : [Kinds -> Hardware], folders : SUBSET Folders]
    BY <1>1 DEF VM
  <2> HIDE DEF s
  <2>3. vm' \in VM /\ vm'.dev = vm.dev /\ vm'.os = vm.os /\ vm'.removed = vm.removed
        /\ vm'.folders = vm.folders
    BY <1>1, <2>1, <2>2 DEF VM
  <2> QED BY <1>1, <1>10, <2>3, SameHardware
<1>11. CASE Verb(r) \notin Options /\ r.tool = "vm_snapshot_restore"
  <2>1. PICK s \in vm.saved :
          vm' = [vm EXCEPT !.dev = s.dev, !.folders = s.folders, !.removed = @ + 1]
    BY <1>11 DEF Does
  <2>2. /\ s.dev \in [Kinds -> Hardware] /\ s.folders \in SUBSET Folders
        /\ vm.removed \in Nat /\ vm.removed + 1 \in Nat
    BY <1>1 DEF VM
  <2>3. vm' \in VM /\ vm'.os = vm.os /\ vm'.removed = vm.removed + 1
    BY <1>1, <2>1, <2>2 DEF VM
  <2>4. Takes(r)
    BY <1>1, <1>11, VerbOfTool DEF Takes
  <2> QED BY <1>11, <2>2, <2>3, <2>4 DEF GoesOn
<1>12. CASE Verb(r) \notin Options /\ r.tool = "vm_snapshot_delete"
  <2>1. PICK s \in vm.saved : vm' = [vm EXCEPT !.saved = @ \ {s}]
    BY <1>12 DEF Does
  <2>2. vm' \in VM /\ vm'.dev = vm.dev /\ vm'.os = vm.os /\ vm'.removed = vm.removed
        /\ vm'.folders = vm.folders
    BY <1>1, <2>1 DEF VM
  <2> QED BY <1>1, <1>12, <2>2, SameHardware
<1>13. CASE /\ Verb(r) \notin Options
            /\ r.tool \notin {"vm_bundle", "vm_snapshot_create", "vm_snapshot_restore",
                              "vm_snapshot_delete"}
  <2>1. vm' = vm
    BY <1>13 DEF Does
  <2> QED BY <1>1, <1>13, <2>1, SameHardware
<1> QED BY <1>4, <1>5, <1>6, <1>7, <1>8, <1>9, <1>10, <1>11, <1>12, <1>13

(* A guest command: its deed, and the shell it ran in. *)
LEMMA ToolsExecutes ==
  ASSUME Typed, NEW c \in Calls, Executes(c)
  PROVE  LET m == [call |-> c, id |-> None, removed |-> vm.removed,
                   shell |-> Shell(call[c].os, Text(call[c].asks))]
         IN  vm' = vm /\ did' = did \cup {m} /\ m \in Deed
<1>1. Shell(call[c].os, Text(call[c].asks)) \in Shells
  BY DEF Shell, Shells
<1>2. vm.removed \in Nat
  BY DEF Typed, VM
<1> QED BY <1>1, <1>2 DEF Executes, Deed

(***************************************************************************)
(* The invariant.  Ready: where a call is, and what brought it there.      *)
(* Current: a table is right while nothing was removed.  Labelled: a label *)
(* is from a table that a call was given.  Listed: folders stay, if no     *)
(* call takes one away.  Backed: success has a deed.  Told: what is known  *)
(* of a deed.                                                              *)
(***************************************************************************)
Ready(k) ==
  /\ k.reply # "none" => k.pc = "answered"
  /\ k.pc = "info" => FirstPc(k.asks) = "info"
  /\ k.pc = "command" => FirstPc(k.asks) = "command"
  /\ k.pc \in {"exec", "use"} =>
       /\ k.asks.tool \in {"vm_exec", "vm_smb"}
       /\ k.asks.tool = "vm_smb" => k.os = vm.os

Current(k) ==
  k.base <= vm.removed /\ (k.base = vm.removed => Kept(k.seen, vm.dev["net"]))

Labelled(k) ==
  k.meant # None =>
    /\ k.asks.tool \in {"vm_device", "vm_network"}
    /\ \E d \in Calls :
         /\ call[d].reply = "ok" /\ call[d].base = k.since
         /\ \E p \in DOMAIN Nets(call[d].seen) :
              /\ k.meant = Nets(call[d].seen)[p]
              /\ k.asks.device = {[kind |-> "net", slot |-> p]}

Quiet == \A d \in Calls : call[d].pc # "idle" => ~Takes(call[d].asks)

IsList(r) == r.tool = "vm_shared_folders" /\ r.action = "list"

Listed(k) ==
  Quiet =>
    /\ k.due \subseteq vm.folders
    /\ k.reply = "ok" /\ Verb(k.asks) = "--shf-host-add" => k.asks.folder \in vm.folders
    /\ k.reply = "ok" /\ IsList(k.asks) => k.due \ {"enabled"} \subseteq k.listed

Backed(c) ==
  call[c].reply = "ok" /\ Changes(call[c].asks) /\ c \notin missed
    => \E m \in did : m.call = c

Told(m) ==
  LET k == call[m.call]
  IN  /\ k.pc # "idle"
      /\ m.shell # None /\ k.asks.tool = "vm_smb" /\ vm.os = "windows"
           => RightShell(k.asks, m.shell)
      /\ k.meant # None /\ k.since = m.removed
           => \E d \in Calls : /\ call[d].reply = "ok"
                               /\ Straight(call[d].seen) => m.id = k.meant

Holds(c) ==
  /\ Ready(call[c]) /\ Current(call[c]) /\ Labelled(call[c]) /\ Listed(call[c])
  /\ Backed(c)

ToolsInv == Typed /\ (\A c \in Calls : Holds(c)) /\ (\A m \in did : Told(m))

LEMMA ToolsInvInit == Init => ToolsInv
<1> SUFFICES ASSUME Init PROVE ToolsInv OBVIOUS
<1>1. Typed
  BY ToolsTypeInit
<1>2. ASSUME NEW c \in Calls PROVE Holds(c)
  <2>1. /\ call[c].pc = "idle" /\ call[c].reply = "none" /\ call[c].seen = <<>>
        /\ call[c].base = 0 /\ call[c].meant = None /\ call[c].due = {}
    BY DEF Init, At
  <2>2. vm.removed = 0
    BY DEF Init
  <2>3. Kept(<<>>, vm.dev["net"])
    BY EmptyTyped DEF Kept
  <2>4. Ready(call[c]) /\ Labelled(call[c]) /\ Listed(call[c]) /\ Backed(c)
    BY <2>1 DEF Ready, Labelled, Listed, Backed
  <2>5. Current(call[c])
    BY <2>1, <2>2, <2>3 DEF Current
  <2> QED BY <2>4, <2>5 DEF Holds
<1> QED BY <1>1, <1>2 DEF Init, ToolsInv

LEMMA KeptOn ==
  ASSUME NEW a, NEW b, NEW d, Kept(a, b), Kept(b, d)
  PROVE  Kept(a, d)
BY DEF Kept

(* A table stays right, or something was removed. *)
LEMMA CurrentStays ==
  ASSUME Typed, GoesOn(vm, vm'), NEW k \in Task, Current(k)
  PROVE  Current(k)'
<1>1. /\ k.base \in Nat /\ vm.removed \in Nat /\ vm'.removed \in Nat
      /\ k.base <= vm.removed /\ vm.removed <= vm'.removed
  BY DEF Typed, GoesOn, Task, VM, Current
<1>2. ASSUME k.base = vm'.removed PROVE Kept(k.seen, vm'.dev["net"])
  <2>1. k.base = vm.removed /\ vm'.removed = vm.removed
    BY <1>1, <1>2
  <2> QED BY <2>1, KeptOn DEF Current, GoesOn
<1> QED BY <1>1, <1>2 DEF Current

(***************************************************************************)
(* A step that puts j in the place of one call that is not answered yet,   *)
(* while the VM goes on.                                                   *)
(***************************************************************************)
Same(j, k) ==
  j.asks = k.asks /\ j.meant = k.meant /\ j.since = k.since /\ j.due = k.due

Turns(c, j) ==
  /\ call[c].pc # "answered" /\ j \in Task /\ call' = [call EXCEPT ![c] = j]
  /\ j.pc # "idle"
  /\ call[c].pc = "idle" \/ Same(j, call[c])
  /\ GoesOn(vm, vm')
  /\ Quiet' => vm.folders \subseteq vm'.folders
  /\ did \subseteq did' /\ did' \subseteq Deed
  /\ missed \subseteq missed' /\ missed' \subseteq Calls
  /\ up' = up /\ outside' = outside

LEMMA OthersStay ==
  ASSUME ToolsInv, NEW c \in Calls, NEW j, Turns(c, j)
  PROVE  /\ Typed'
         /\ Quiet' => Quiet
         /\ \A d \in Calls : call[d].reply = "ok" => call'[d] = call[d]
         /\ \A d \in Calls \ {c} : Holds(d)'
         /\ \A m \in did : Told(m)'
         /\ call[c].pc # "idle" => Labelled(j)'
<1>1. Typed'
  BY DEF ToolsInv, Typed, Turns, GoesOn
<1>2. call[c].reply = "none"
  BY DEF ToolsInv, Holds, Ready, Turns
<1>3. /\ call'[c] = j
      /\ \A d \in Calls \ {c} : call'[d] = call[d]
  BY DEF ToolsInv, Typed, Turns
<1>4. \A d \in Calls : call[d].reply = "ok" => call'[d] = call[d]
  BY <1>2, <1>3
<1>5. ASSUME Quiet' PROVE Quiet
  <2>1. ASSUME NEW d \in Calls, call[d].pc # "idle" PROVE ~Takes(call[d].asks)
    <3>1. call'[d].pc # "idle" /\ call'[d].asks = call[d].asks
      BY <1>3, <2>1 DEF Turns, Same
    <3>2. ~Takes(call'[d].asks)
      BY <1>5, <3>1 DEF Quiet
    <3> QED BY <3>1, <3>2
  <2> QED BY <2>1 DEF Quiet
<1>6. ASSUME NEW k, Labelled(k) PROVE Labelled(k)'
  BY <1>4, <1>6 DEF Labelled
<1>7. ASSUME NEW d \in Calls \ {c} PROVE Holds(d)'
  <2>1. PICK k \in Task : k = call[d] /\ k = call'[d]
    BY <1>3, <1>7 DEF ToolsInv, Typed
  <2>h. Ready(k) /\ Current(k) /\ Labelled(k) /\ Listed(k) /\ Backed(d)
    BY <1>7, <2>1 DEF ToolsInv, Holds
  <2>2. Ready(k)'
    BY <2>h DEF Ready, Turns, GoesOn
  <2>3. Current(k)'
    BY <2>h, CurrentStays DEF ToolsInv, Turns
  <2>4. Labelled(k)'
    BY <1>6, <2>h
  <2>5. Listed(k)'
    BY <1>5, <2>h DEF Listed, Turns
  <2>6. Backed(d)'
    BY <2>1, <2>h DEF Backed, Turns
  <2> QED BY <2>1, <2>2, <2>3, <2>4, <2>5, <2>6 DEF Holds
<1>8. ASSUME NEW m \in did PROVE Told(m)'
  <2> DEFINE k == call[m.call]
             i == call'[m.call]
  <2>1. Told(m) /\ m.call \in Calls
    BY DEF ToolsInv, Typed, Deed
  <2>2. k.pc # "idle"
    BY <2>1 DEF Told
  <2>3. i.pc # "idle" /\ i.asks = k.asks /\ i.meant = k.meant /\ i.since = k.since
    BY <1>3, <2>1, <2>2 DEF Turns, Same
  <2>4. vm'.os = vm.os
    BY DEF Turns, GoesOn
  <2>5. ASSUME k.meant # None, k.since = m.removed
        PROVE  \E d \in Calls : /\ call'[d].reply = "ok"
                                /\ Straight(call'[d].seen) => m.id = k.meant
    <3>1. PICK d \in Calls : /\ call[d].reply = "ok"
                             /\ Straight(call[d].seen) => m.id = k.meant
      BY <2>1, <2>5 DEF Told
    <3> QED BY <1>4, <3>1
  <2> QED BY <2>1, <2>3, <2>4, <2>5 DEF Told
<1>9. ASSUME call[c].pc # "idle" PROVE Labelled(j)'
  <2>1. Labelled(j)
    BY <1>9 DEF ToolsInv, Holds, Labelled, Turns, Same
  <2> QED BY <1>6, <2>1
<1> QED BY <1>1, <1>4, <1>5, <1>7, <1>8, <1>9

LEMMA OneTurns ==
  ASSUME ToolsInv, NEW c \in Calls, NEW j, Turns(c, j),
         Ready(j)', Current(j)', Listed(j)', Backed(c)',
         call[c].pc # "idle" \/ Labelled(j)',
         \A m \in did' : m \in did \/ Told(m)'
  PROVE  ToolsInv'
<1>1. Labelled(j)'
  BY OthersStay
<1>2. call'[c] = j
  BY DEF ToolsInv, Typed, Turns
<1>3. Holds(c)'
  BY <1>1, <1>2 DEF Holds
<1>4. (\A d \in Calls : Holds(d)') /\ (\A m \in did' : Told(m)') /\ Typed'
  BY <1>3, OthersStay
<1> QED BY <1>4 DEF ToolsInv

(* A call that has just come in. *)
LEMMA AtFields ==
  ASSUME NEW r \in Request, NEW pc \in Pcs
  PROVE  /\ At(pc, r) \in Task
         /\ At(pc, r).asks = r /\ At(pc, r).pc = pc /\ At(pc, r).reply = "none"
         /\ At(pc, r).seen = <<>> /\ At(pc, r).base = 0 /\ At(pc, r).meant = None
         /\ At(pc, r).due = {}
BY EmptyTyped DEF At, Task

(* Nothing of the VM changes. *)
LEMMA SameGoesOn == ASSUME vm \in VM, vm' = vm PROVE GoesOn(vm, vm')
BY SameHardware

LEMMA NoTable == Typed => \A k \in Task : k.seen = <<>> /\ k.base = 0 => Current(k)
<1> SUFFICES ASSUME Typed, NEW k \in Task, k.seen = <<>>, k.base = 0 PROVE Current(k)
  OBVIOUS
<1>1. Kept(k.seen, vm.dev["net"])
  BY EmptyTyped DEF Kept
<1>2. vm.removed \in Nat
  BY DEF Typed, VM
<1> QED BY <1>1, <1>2 DEF Current

(* The rows of a table show devices. *)
LEMMA RowTyped ==
  ASSUME NEW hw \in Hardware, NEW p \in DOMAIN Nets(hw)
  PROVE  Nets(hw)[p] \in Nat
<1> DEFINE S == DOMAIN hw
<1>1. hw \in [S -> Entry] /\ S \subseteq Nat /\ IsFiniteSet(S)
  BY HardwareIs
<1>2. p \in 0..Cardinality(S) - 1 /\ Nets(hw)[p] = hw[CHOOSE i \in S : Position(S, i) = p].id
  BY DEF Nets
<1>3. \E i \in S : Position(S, i) = p
  BY <1>1, <1>2, RowIsSlot
<1>4. (CHOOSE i \in S : Position(S, i) = p) \in S
  BY <1>3
<1>5. hw[CHOOSE i \in S : Position(S, i) = p] \in Entry
  BY <1>1, <1>4
<1> QED BY <1>2, <1>5 DEF Entry

LEMMA ToolsEnter ==
  ASSUME ToolsInv, NEW c \in Calls, Enter(c)
  PROVE  ToolsInv'
<1>1. PICK r \in Request :
        /\ call[c].pc = "idle"
        /\ IF ~Accepted(r) THEN Answered(c, At("idle", r), "refused")
           ELSE \/ call' = [call EXCEPT ![c] = Entered(r)]
                \/ \E d \in Calls : \E p \in DOMAIN Nets(call[d].seen) :
                     /\ FromRow(r, d, p)
                     /\ call' = [call EXCEPT ![c] =
                          [Entered(r) EXCEPT !.meant = Nets(call[d].seen)[p], !.since = call[d].base]]
        /\ UNCHANGED <<vm, did, missed, up, outside>>
  BY ToolsAssumption DEF Enter
<1>2. Typed /\ vm \in VM /\ GoesOn(vm, vm')
  BY <1>1, SameGoesOn DEF ToolsInv, Typed
<1>3. ASSUME NEW j \in Task, call' = [call EXCEPT ![c] = j], j.pc # "idle"
      PROVE  Turns(c, j)
  BY <1>1, <1>2, <1>3 DEF Turns, Typed
<1>4. ASSUME NEW j \in Task, call' = [call EXCEPT ![c] = j], j.pc # "idle", j.asks = r,
             j.pc \in {"info", "command"} => j.pc = FirstPc(r), j.pc \notin {"exec", "use"},
             j.reply = "none" \/ (j.reply = "refused" /\ j.pc = "answered"),
             j.seen = <<>>, j.base = 0, Labelled(j)', j.due = AddedSoFar \/ j.due = {}
      PROVE  ToolsInv'
  <2>1. Turns(c, j)
    BY <1>3, <1>4
  <2>2. Ready(j)'
    BY <1>4 DEF Ready
  <2>3. Current(j)'
    <3>1. Current(j)
      BY <1>2, <1>4, NoTable
    <3> QED BY <1>1, <3>1 DEF Current
  <2>4. Listed(j)'
    <3>1. ASSUME Quiet' PROVE j.due \subseteq vm'.folders
      <4>1. Quiet
        BY <2>1, <3>1, OthersStay
      <4>2. \A d \in Calls : Listed(call[d])
        BY DEF ToolsInv, Holds
      <4>3. AddedSoFar \subseteq vm.folders
        BY <4>1, <4>2 DEF Listed, AddedSoFar
      <4> QED BY <1>1, <1>4, <4>3
    <3> QED BY <1>4, <3>1 DEF Listed
  <2>5. Backed(c)'
    <3>1. call'[c] = j
      BY <1>2, <1>4 DEF Typed
    <3> QED BY <1>4, <3>1 DEF Backed
  <2> QED BY <1>1, <1>4, <2>1, <2>2, <2>3, <2>4, <2>5, OneTurns
<1>5. FirstPc(r) \in {"info", "command"} /\ FirstPc(r) \in Pcs
  BY DEF FirstPc, Pcs
<1>6. AddedSoFar \in SUBSET Folders
  <2>1. ASSUME NEW d \in Calls PROVE call[d].asks.folder \in Folders
    <3>1. call[d] \in Task
      BY <1>2 DEF Typed
    <3>2. call[d].asks \in Request
      BY <3>1 DEF Task
    <3> QED BY <3>2 DEF Request
  <2> QED BY <2>1 DEF AddedSoFar
<1>7. PICK k \in Task :
        /\ k = Entered(r)
        /\ k.asks = r /\ k.pc = FirstPc(r) /\ k.reply = "none"
        /\ k.seen = <<>> /\ k.base = 0 /\ k.meant = None /\ k.due = AddedSoFar
  <2>1. PICK h \in Task : h = At(FirstPc(r), r)
    BY <1>5, AtFields
  <2>2. [h EXCEPT !.due = AddedSoFar] \in Task
    BY <1>6 DEF Task
  <2>3. Entered(r) = [h EXCEPT !.due = AddedSoFar]
    BY <2>1 DEF Entered
  <2>4. /\ Entered(r).asks = r /\ Entered(r).pc = FirstPc(r) /\ Entered(r).reply = "none"
        /\ Entered(r).seen = <<>> /\ Entered(r).base = 0 /\ Entered(r).meant = None
        /\ Entered(r).due = AddedSoFar
    <3>1. /\ h.asks = r /\ h.pc = FirstPc(r) /\ h.reply = "none"
          /\ h.seen = <<>> /\ h.base = 0 /\ h.meant = None
      BY <1>5, <2>1, AtFields
    <3> QED BY <2>3, <3>1 DEF Task
  <2> QED BY <2>2, <2>3, <2>4
<1>8. CASE ~Accepted(r)
  <2>1. PICK h \in Task : h = At("idle", r)
    BY AtFields DEF Pcs
  <2> DEFINE j == [h EXCEPT !.pc = "answered", !.running = FALSE, !.reply = "refused"]
  <2>2. /\ h.asks = r /\ h.seen = <<>> /\ h.base = 0 /\ h.meant = None /\ h.due = {}
    BY <2>1, AtFields DEF Pcs
  <2>3. /\ j \in Task /\ j.asks = r /\ j.pc = "answered" /\ j.reply = "refused"
        /\ j.seen = <<>> /\ j.base = 0 /\ j.meant = None /\ j.due = {}
    BY <2>2 DEF Task, Pcs
  <2>4. call' = [call EXCEPT ![c] = j]
    BY <1>1, <1>8, <2>1 DEF Answered
  <2>5. PICK i \in Task : i = j
    BY <2>3
  <2> HIDE DEF j
  <2>6. Labelled(i)'
    BY <2>3, <2>5 DEF Labelled
  <2> QED BY <1>4, <2>3, <2>4, <2>5, <2>6
<1>9. CASE call' = [call EXCEPT ![c] = Entered(r)]
  <2>1. Labelled(k)'
    BY <1>7 DEF Labelled
  <2> QED BY <1>4, <1>5, <1>7, <1>9, <2>1
<1>10. ASSUME NEW d \in Calls, NEW p \in DOMAIN Nets(call[d].seen), FromRow(r, d, p),
              call' = [call EXCEPT ![c] =
                [Entered(r) EXCEPT !.meant = Nets(call[d].seen)[p], !.since = call[d].base]]
       PROVE  ToolsInv'
  <2>1. call[d] \in Task
    BY <1>2 DEF Typed
  <2>2. Nets(call[d].seen)[p] \in Nat /\ call[d].base \in Nat
    BY <2>1, RowTyped DEF Task
  <2>3. PICK n \in Nat, b \in Nat : n = Nets(call[d].seen)[p] /\ b = call[d].base
    BY <2>2
  <2> DEFINE j == [k EXCEPT !.meant = n, !.since = b]
  <2>4. /\ j \in Task /\ j.asks = r /\ j.pc = FirstPc(r) /\ j.reply = "none"
        /\ j.seen = <<>> /\ j.base = 0 /\ j.meant = n /\ j.since = b /\ j.due = AddedSoFar
    BY <1>7 DEF Task
  <2>5. PICK i \in Task : i = j
    BY <2>4
  <2>6. call' = [call EXCEPT ![c] = i]
    BY <1>7, <1>10, <2>3, <2>5
  <2> HIDE DEF j
  <2>7. d # c /\ call'[d] = call[d]
    <3>1. call[d].reply = "ok" /\ Ready(call[d])
      BY <1>10 DEF FromRow, ToolsInv, Holds
    <3>2. d # c
      BY <1>1, <3>1 DEF Ready
    <3> QED BY <1>2, <2>6, <3>2 DEF Typed
  <2>8. /\ call[d].reply = "ok" /\ r.device = {[kind |-> "net", slot |-> p]}
        /\ r.tool \in {"vm_device", "vm_network"}
    BY <1>10 DEF FromRow
  <2>9. Labelled(i)'
    BY <2>3, <2>4, <2>5, <2>7, <2>8 DEF Labelled
  <2> QED BY <1>4, <1>5, <2>4, <2>5, <2>6, <2>9
<1> QED BY <1>1, <1>8, <1>9, <1>10

(***************************************************************************)
(* A call that is running: what its next record must be for the invariant  *)
(* to hold.                                                                *)
(***************************************************************************)
LEMMA RunningTurns ==
  ASSUME ToolsInv, NEW c \in Calls, NEW j \in Task, call[c].pc \in {"info", "command", "exec", "use"},
         call' = [call EXCEPT ![c] = j], Same(j, call[c]), j.pc # "idle",
         GoesOn(vm, vm'), ~Takes(call[c].asks) => vm.folders \subseteq vm'.folders,
         did \subseteq did', did' \subseteq Deed, missed \subseteq missed', missed' \subseteq Calls,
         up' = up, outside' = outside,
         Ready(j)', Current(j)', Backed(c)',
         j.reply # "ok" \/ ~IsList(j.asks) \/ (j.due \cap vm'.folders) \ {"enabled"} \subseteq j.listed,
         j.reply # "ok" \/ Verb(j.asks) # "--shf-host-add" \/ j.asks.folder \in vm'.folders,
         \A m \in did' : m \in did \/ Told(m)'
  PROVE  ToolsInv'
<1>1. Turns(c, j)
  <2>1. ASSUME Quiet' PROVE ~Takes(call[c].asks)
    <3>1. call'[c] = j
      BY DEF ToolsInv, Typed
    <3> QED BY <2>1, <3>1 DEF Quiet, Same
  <2> QED BY <2>1 DEF Turns
<1>2. ASSUME Quiet' PROVE j.due \subseteq vm'.folders
  <2>1. Quiet /\ vm.folders \subseteq vm'.folders
    BY <1>1, <1>2, OthersStay DEF Turns
  <2>2. Listed(call[c])
    BY DEF ToolsInv, Holds
  <2> QED BY <2>1, <2>2 DEF Listed, Same
<1>3. Listed(j)'
  BY <1>2 DEF Listed
<1> QED BY <1>1, <1>3, OneTurns

(* Spawn and Cancel change nothing that the invariant speaks of. *)
LEMMA ToolsSpawnCancel ==
  ASSUME ToolsInv, NEW c \in Calls, Spawn(c) \/ Cancel(c)
  PROVE  ToolsInv'
<1>1. PICK k \in Task : k = call[c]
  BY DEF ToolsInv, Typed
<1>2. PICK j \in Task :
        /\ call' = [call EXCEPT ![c] = j]
        /\ Same(j, k) /\ j.pc = k.pc /\ j.reply = k.reply /\ j.os = k.os
        /\ j.seen = k.seen /\ j.base = k.base /\ j.listed = k.listed
  <2>1. /\ [k EXCEPT !.running = TRUE] \in Task /\ [k EXCEPT !.cancelled = TRUE] \in Task
    BY DEF Task
  <2>2. \/ call' = [call EXCEPT ![c] = [k EXCEPT !.running = TRUE]]
        \/ call' = [call EXCEPT ![c] = [k EXCEPT !.cancelled = TRUE]]
    BY <1>1 DEF Spawn, Cancel
  <2> QED BY <2>1, <2>2 DEF Same, Task
<1>3. k.pc \in {"info", "command", "exec", "use"} /\ UNCHANGED <<vm, did, missed, up, outside>>
  BY <1>1 DEF Spawn, Cancel, Active
<1>4. Ready(k) /\ Current(k) /\ k.reply # "ok"
  BY <1>1, <1>3 DEF ToolsInv, Holds, Ready
<1>5. Ready(j)' /\ Current(j)'
  BY <1>2, <1>3, <1>4 DEF Ready, Current, Same
<1>6. Backed(c)'
  <2>1. call'[c] = j
    BY <1>2 DEF ToolsInv, Typed
  <2> QED BY <1>2, <1>4, <2>1 DEF Backed
<1>7. GoesOn(vm, vm') /\ did' \subseteq Deed /\ missed' \subseteq Calls
  BY <1>3, SameGoesOn DEF ToolsInv, Typed
<1> QED BY <1>1, <1>2, <1>3, <1>4, <1>5, <1>6, <1>7, RunningTurns

(* The VM goes on without the calls. *)
LEMMA ToolsDesktop ==
  ASSUME ToolsInv, Desktop
  PROVE  ToolsInv'
<1>1. vm \in VM /\ UNCHANGED <<call, did, missed, up>>
  BY DEF ToolsInv, Typed, Desktop
<1>2. GoesOn(vm, vm') /\ vm'.folders = vm.folders
  <2>1. CASE Adds("net")
    BY <1>1, <2>1, AddsTyped DEF Kinds
  <2>2. CASE \E i \in Slots : Removes("net", i)
    BY <1>1, <2>2, RemovesTyped DEF Kinds
  <2>3. CASE vm' = [vm EXCEPT !.running = ~@]
    <3>1. vm' \in VM /\ vm'.dev = vm.dev /\ vm'.os = vm.os /\ vm'.removed = vm.removed
          /\ vm'.folders = vm.folders
      BY <1>1, <2>3 DEF VM
    <3> QED BY <1>1, <3>1, SameHardware
  <2> QED BY <2>1, <2>2, <2>3 DEF Desktop
<1>3. Typed'
  <2>1. outside' \in 0..MaxOutside
    BY ToolsAssumption DEF Desktop, ToolsInv, Typed
  <2> QED BY <1>1, <1>2, <2>1 DEF ToolsInv, Typed, GoesOn
<1>4. ASSUME NEW c \in Calls PROVE Holds(c)'
  <2>1. PICK k \in Task : k = call[c] /\ k = call'[c]
    BY <1>1 DEF ToolsInv, Typed
  <2>2. Ready(k) /\ Current(k) /\ Labelled(k) /\ Listed(k) /\ Backed(c)
    BY <2>1 DEF ToolsInv, Holds
  <2>3. Current(k)'
    BY <1>2, <2>2, CurrentStays DEF ToolsInv
  <2>4. Ready(k)' /\ Labelled(k)' /\ Backed(c)'
    BY <1>1, <1>2, <2>2 DEF Ready, Labelled, Backed, GoesOn
  <2>5. Listed(k)'
    BY <1>1, <1>2, <2>2 DEF Listed, Quiet
  <2> QED BY <2>1, <2>3, <2>4, <2>5 DEF Holds
<1>5. ASSUME NEW m \in did' PROVE Told(m)'
  <2>1. Told(m) /\ vm'.os = vm.os
    BY <1>1, <1>2 DEF ToolsInv, GoesOn
  <2> QED BY <1>1, <2>1 DEF Told
<1> QED BY <1>3, <1>4, <1>5 DEF ToolsInv

(* The end of the server. *)
LEMMA ToolsServerStops ==
  ASSUME ToolsInv, ServerStops
  PROVE  ToolsInv'
<1>1. /\ up' = FALSE /\ UNCHANGED <<vm, did, missed, outside>>
      /\ call' = [c \in Calls |->
                  IF Active(call[c]) THEN [call[c] EXCEPT !.pc = "lost"] ELSE call[c]]
  BY DEF ServerStops
<1>2. ASSUME NEW c \in Calls
      PROVE  /\ call'[c] \in Task /\ Same(call'[c], call[c])
             /\ call'[c].reply = call[c].reply /\ call'[c].seen = call[c].seen
             /\ call'[c].base = call[c].base /\ call'[c].listed = call[c].listed
             /\ call'[c].os = call[c].os
             /\ call'[c].pc = call[c].pc \/ (Active(call[c]) /\ call'[c].pc = "lost")
  <2>1. call[c] \in Task
    BY DEF ToolsInv, Typed
  <2> QED BY <1>1, <2>1 DEF Task, Pcs, Same
<1>3. Typed'
  BY <1>1, <1>2 DEF ToolsInv, Typed
<1>4. Quiet' => Quiet
  BY <1>2 DEF Quiet, Same, Active
<1>5. ASSUME NEW c \in Calls PROVE Holds(c)'
  <2>1. /\ Ready(call[c]) /\ Current(call[c]) /\ Labelled(call[c]) /\ Listed(call[c])
        /\ Backed(c)
    BY DEF ToolsInv, Holds
  <2>2. Ready(call[c])'
    BY <1>1, <1>2, <2>1 DEF Ready, Same, Active
  <2>3. Current(call[c])' /\ Listed(call[c])' /\ Backed(c)'
    BY <1>1, <1>2, <1>4, <2>1 DEF Current, Listed, Backed, Same
  <2>4. Labelled(call[c])'
    BY <1>2, <2>1 DEF Labelled, Same
  <2> QED BY <2>2, <2>3, <2>4 DEF Holds
<1>6. ASSUME NEW m \in did' PROVE Told(m)'
  <2>1. m \in did /\ Told(m) /\ m.call \in Calls
    BY <1>1 DEF ToolsInv, Typed, Deed
  <2> QED BY <1>1, <1>2, <2>1 DEF Told, Same, Active
<1> QED BY <1>3, <1>5, <1>6 DEF ToolsInv

(***************************************************************************)
(* The ends of processes.                                                  *)
(***************************************************************************)

(* A record that goes on or is answered. *)
LEMMA RecordsTyped ==
  ASSUME NEW k \in Task
  PROVE  /\ \A reply \in {"ok", "error", "exit code"} :
              LET j == [k EXCEPT !.pc = "answered", !.running = FALSE, !.reply = reply]
              IN  /\ j \in Task /\ Same(j, k) /\ j.pc = "answered" /\ j.reply = reply
                  /\ j.os = k.os /\ j.seen = k.seen /\ j.base = k.base /\ j.listed = k.listed
         /\ \A pc \in {"exec", "use"} :
              LET j == [k EXCEPT !.pc = pc, !.running = FALSE]
              IN  /\ j \in Task /\ Same(j, k) /\ j.pc = pc /\ j.reply = k.reply
                  /\ j.os = k.os /\ j.seen = k.seen /\ j.base = k.base /\ j.listed = k.listed
BY DEF Task, Pcs, Same

(* Deeds and tables aside, nothing is to be shown of a call that goes on   *)
(* or fails while the VM stays as it is.                                   *)
LEMMA ToolsInfo ==
  ASSUME ToolsInv, NEW c \in Calls, InfoReturns(c)
  PROVE  ToolsInv'
<1> DEFINE hw == vm.dev["net"]
<1>1. PICK k \in Task : k = call[c]
  BY DEF ToolsInv, Typed
<1>2. /\ k.pc = "info" /\ UNCHANGED <<vm, did, missed, up, outside>>
  BY <1>1 DEF InfoReturns
<1>3. /\ Ready(k) /\ Current(k) /\ k.reply = "none" /\ FirstPc(k.asks) = "info"
      /\ vm \in VM /\ k.asks \in Request
  <2>1. Ready(k) /\ Current(k)
    BY <1>1 DEF ToolsInv, Holds
  <2> QED BY <1>2, <2>1 DEF Ready, ToolsInv, Typed, Task
<1>4. GoesOn(vm, vm') /\ did' \subseteq Deed /\ missed' \subseteq Calls
  BY <1>2, <1>3, SameGoesOn DEF ToolsInv, Typed
<1>5. ASSUME NEW j \in Task, call' = [call EXCEPT ![c] = j], Same(j, k), j.pc # "idle",
             Ready(j), Current(j), j.reply = "ok" => j.asks.action = "list",
             j.reply = "ok" => j.listed = SharedFolders(vm.folders)
      PROVE  ToolsInv'
  <2>1. Ready(j)' /\ Current(j)'
    BY <1>2, <1>5 DEF Ready, Current
  <2>2. Backed(c)'
    <3>1. call'[c] = j
      BY <1>5 DEF ToolsInv, Typed
    <3> QED BY <1>5, <3>1 DEF Backed, Changes
  <2>3. j.reply # "ok" \/ Verb(j.asks) # "--shf-host-add"
    <3> SUFFICES ASSUME j.asks.action = "list" PROVE Verb(j.asks) # "--shf-host-add"
      BY <1>5
    <3>1. j.asks.tool \in Tools
      BY DEF Task, Request
    <3> QED BY <3>1 DEF Verb, Tools
  <2>4. j.reply # "ok" \/ (j.due \cap vm'.folders) \ {"enabled"} \subseteq j.listed
    BY <1>2, <1>5 DEF SharedFolders
  <2> QED BY <1>1, <1>2, <1>4, <1>5, <2>1, <2>2, <2>3, <2>4, RunningTurns
<1>6. PICK end \in Ends :
        LET r == k.asks
            ok == RunErr(end, k.cancelled) = "nil"
            known == [k EXCEPT !.os = vm.os]
        IN  CASE ~ok /\ r.tool = "vm_exec" -> GoOn(c, k, "exec")
              [] ~ok /\ r.tool # "vm_exec" -> Answered(c, k, "error")
              [] ok /\ r.action = "list" /\ r.tool # "vm_smb" ->
                   Answered(c, [known EXCEPT !.seen = vm.dev["net"], !.base = vm.removed,
                                             !.listed = SharedFolders(vm.folders)], "ok")
              [] ok /\ (r.action # "list" \/ r.tool = "vm_smb") ->
                   IF GuestAccepted(r, vm.os) THEN GoOn(c, known, "exec")
                   ELSE Answered(c, known, "error")
  BY <1>1 DEF InfoReturns
<1> DEFINE r == k.asks
           ok == RunErr(end, k.cancelled) = "nil"
           known == [k EXCEPT !.os = vm.os]
<1>7. CASE ~ok /\ r.tool = "vm_exec"
  <2>1. GoOn(c, k, "exec")
    BY <1>6, <1>7
  <2>2. PICK j \in Task : j = [k EXCEPT !.pc = "exec", !.running = FALSE]
    BY RecordsTyped
  <2>3. /\ Same(j, k) /\ j.pc = "exec" /\ j.reply = "none" /\ j.seen = k.seen
        /\ j.base = k.base
    BY <1>3, <2>2, RecordsTyped
  <2>4. Ready(j) /\ Current(j)
    BY <1>3, <1>7, <2>3 DEF Ready, Current, Same
  <2> QED BY <1>5, <2>1, <2>2, <2>3, <2>4 DEF GoOn
<1>8. CASE ~ok /\ r.tool # "vm_exec"
  <2>1. Answered(c, k, "error")
    BY <1>6, <1>8
  <2>2. PICK j \in Task : j = [k EXCEPT !.pc = "answered", !.running = FALSE, !.reply = "error"]
    BY RecordsTyped
  <2>3. /\ Same(j, k) /\ j.pc = "answered" /\ j.reply = "error" /\ j.seen = k.seen
        /\ j.base = k.base
    BY <2>2, RecordsTyped
  <2>4. Ready(j) /\ Current(j)
    BY <1>3, <2>3 DEF Ready, Current
  <2> QED BY <1>5, <2>1, <2>2, <2>3, <2>4 DEF Answered
<1>9. known \in Task /\ Same(known, k) /\ known.os = vm.os /\ known.seen = k.seen
      /\ known.base = k.base /\ known.reply = "none" /\ known.listed = k.listed
  BY <1>3 DEF VM, Task, Same
<1>10. CASE ok /\ r.action = "list" /\ r.tool # "vm_smb"
  <2> DEFINE h == [known EXCEPT !.seen = vm.dev["net"], !.base = vm.removed,
                                !.listed = SharedFolders(vm.folders)]
  <2>1. Answered(c, h, "ok")
    BY <1>6, <1>10
  <2>2. /\ hw \in Hardware /\ vm.removed \in Nat /\ SharedFolders(vm.folders) \in SUBSET Folders
    BY <1>3 DEF VM, SharedFolders, Kinds
  <2>3. /\ h \in Task /\ Same(h, k) /\ h.seen = hw /\ h.base = vm.removed
        /\ h.listed = SharedFolders(vm.folders)
    BY <1>9, <2>2 DEF Task, Same
  <2> HIDE DEF h
  <2>4. PICK j \in Task : j = [h EXCEPT !.pc = "answered", !.running = FALSE, !.reply = "ok"]
    BY <2>3, RecordsTyped
  <2>5. /\ Same(j, k) /\ j.pc = "answered" /\ j.reply = "ok" /\ j.seen = hw
        /\ j.base = vm.removed /\ j.listed = SharedFolders(vm.folders)
    BY <2>3, <2>4, RecordsTyped DEF Same
  <2>6. Ready(j) /\ Current(j)
    <3>1. Kept(hw, hw)
      BY DEF Kept
    <3> QED BY <2>2, <2>5, <3>1 DEF Ready, Current
  <2>7. j.asks.action = "list"
    BY <1>10, <2>5 DEF Same
  <2> QED BY <1>5, <2>1, <2>4, <2>5, <2>6, <2>7 DEF Answered
<1>11. CASE ok /\ (r.action # "list" \/ r.tool = "vm_smb")
  <2> HIDE DEF known
  <2>1. GoOn(c, known, "exec") \/ Answered(c, known, "error")
    BY <1>6, <1>11 DEF known
  <2>2. CASE GoOn(c, known, "exec")
    <3>1. PICK j \in Task : j = [known EXCEPT !.pc = "exec", !.running = FALSE]
      BY <1>9, RecordsTyped
    <3>2. /\ Same(j, k) /\ j.pc = "exec" /\ j.reply = "none" /\ j.os = vm.os
          /\ j.seen = k.seen /\ j.base = k.base
      BY <1>9, <3>1, RecordsTyped DEF Same
    <3>3. r.tool \in {"vm_exec", "vm_smb"}
      BY <1>3, <1>11 DEF FirstPc
    <3>4. Ready(j) /\ Current(j)
      BY <1>3, <3>2, <3>3 DEF Ready, Current, Same
    <3> QED BY <1>5, <2>2, <3>1, <3>2, <3>4 DEF GoOn
  <2>3. CASE Answered(c, known, "error")
    <3>1. PICK j \in Task :
            j = [known EXCEPT !.pc = "answered", !.running = FALSE, !.reply = "error"]
      BY <1>9, RecordsTyped
    <3>2. /\ Same(j, k) /\ j.pc = "answered" /\ j.reply = "error" /\ j.seen = k.seen
          /\ j.base = k.base
      BY <1>9, <3>1, RecordsTyped DEF Same
    <3>3. Ready(j) /\ Current(j)
      BY <1>3, <3>2 DEF Ready, Current
    <3> QED BY <1>5, <2>3, <3>1, <3>2, <3>3 DEF Answered
  <2> QED BY <2>1, <2>2, <2>3
<1> QED BY <1>7, <1>8, <1>10, <1>11

(***************************************************************************)
(* A command hits the device whose row the client took the label from.     *)
(***************************************************************************)
LEMMA LabelHits ==
  ASSUME ToolsInv, NEW k \in Task, Labelled(k), k.meant # None, k.since = vm.removed
  PROVE  \E d \in Calls : /\ call[d].reply = "ok"
                          /\ Straight(call[d].seen) => Hit(k.asks) = k.meant
<1>1. PICK d \in Calls :
        /\ call[d].reply = "ok" /\ call[d].base = k.since
        /\ \E p \in DOMAIN Nets(call[d].seen) :
              /\ k.meant = Nets(call[d].seen)[p]
              /\ k.asks.device = {[kind |-> "net", slot |-> p]}
  BY DEF Labelled
<1>2. PICK p \in DOMAIN Nets(call[d].seen) :
        k.meant = Nets(call[d].seen)[p] /\ k.asks.device = {[kind |-> "net", slot |-> p]}
  BY <1>1
<1>3. Device(k.asks) = [kind |-> "net", slot |-> p]
  BY <1>2 DEF Device
<1>4. Kept(call[d].seen, vm.dev["net"])
  BY <1>1 DEF ToolsInv, Holds, Current
<1>5. ASSUME Straight(call[d].seen) PROVE Hit(k.asks) = k.meant
  <2>1. p \in DOMAIN call[d].seen /\ k.meant = call[d].seen[p].id
    BY <1>2, <1>5, LabelsAreSlots
  <2>2. p \in DOMAIN vm.dev["net"] /\ vm.dev["net"][p].id = k.meant
    BY <1>4, <2>1 DEF Kept
  <2> QED BY <1>3, <2>2 DEF Hit
<1> QED BY <1>1, <1>5

LEMMA ToolsCommand ==
  ASSUME ToolsInv, NEW c \in Calls, CommandReturns(c)
  PROVE  ToolsInv'
<1>1. PICK k \in Task : k = call[c]
  BY DEF ToolsInv, Typed
<1> DEFINE r == k.asks
           m == [call |-> c, id |-> Hit(r), removed |-> vm.removed, shell |-> None]
<1>2. PICK end \in Ends :
        /\ \/ end \in {"exit0", "killed"} /\ Does(c)
           \/ end # "exit0" /\ UNCHANGED <<vm, did>>
        /\ Answered(c, k, IF RunErr(end, k.cancelled) = "nil" THEN "ok" ELSE "error")
        /\ k.pc = "command" /\ UNCHANGED <<missed, up, outside>>
  BY <1>1 DEF CommandReturns
<1> DEFINE reply == IF RunErr(end, k.cancelled) = "nil" THEN "ok" ELSE "error"
<1>3. PICK j \in Task :
        /\ call' = [call EXCEPT ![c] = j] /\ Same(j, k) /\ j.pc = "answered"
        /\ j.reply = reply /\ j.seen = k.seen /\ j.base = k.base
  <2>1. reply \in {"ok", "error", "exit code"} /\ Answered(c, k, reply)
    BY <1>2
  <2> HIDE DEF reply
  <2>2. PICK j \in Task : j = [k EXCEPT !.pc = "answered", !.running = FALSE, !.reply = reply]
    BY <2>1, RecordsTyped
  <2>3. call' = [call EXCEPT ![c] = j]
    BY <2>1, <2>2 DEF Answered
  <2>4. /\ Same(j, k) /\ j.pc = "answered" /\ j.reply = reply /\ j.seen = k.seen
        /\ j.base = k.base
    BY <2>1, <2>2 DEF Task, Same
  <2> QED BY <2>3, <2>4
<1>4. Ready(k) /\ Current(k) /\ Labelled(k) /\ FirstPc(r) = "command" /\ vm \in VM
  BY <1>1, <1>2 DEF ToolsInv, Holds, Ready, Typed
<1>5. reply = "ok" => end = "exit0" /\ Does(c)
  BY <1>2 DEF RunErr
<1>6. /\ GoesOn(vm, vm')
      /\ ~Takes(r) => vm.folders \subseteq vm'.folders
      /\ Does(c) /\ Verb(r) = "--shf-host-add" => r.folder \in vm'.folders
      /\ (Does(c) => did' = did \cup {m}) /\ (did' = did \/ did' = did \cup {m})
      /\ did' \subseteq Deed
  <2>1. CASE Does(c)
    BY <1>1, <2>1, ToolsDoes DEF ToolsInv, Typed
  <2>2. CASE ~Does(c)
    <3>1. vm' = vm /\ did' = did
      BY <1>2, <2>2
    <3> QED BY <1>4, <2>2, <3>1, SameGoesOn DEF ToolsInv, Typed
  <2> QED BY <2>1, <2>2
<1>7. Ready(j)' /\ Current(j)'
  <2>1. Current(j)
    BY <1>3, <1>4 DEF Current
  <2>2. Current(j)'
    BY <1>6, <2>1, CurrentStays DEF ToolsInv
  <2> QED BY <1>3, <2>2 DEF Ready
<1>8. call'[c] = j
  BY <1>3 DEF ToolsInv, Typed
<1>9. Backed(c)'
  <2>1. reply = "ok" => m \in did'
    BY <1>5, <1>6
  <2> QED BY <1>3, <1>8, <2>1 DEF Backed
<1>10. ~IsList(j.asks)
  BY <1>3, <1>4 DEF IsList, FirstPc, Same
<1>11. ASSUME NEW n \in did', n \notin did PROVE Told(n)'
  <2>1. n = m
    BY <1>6, <1>11
  <2>2. n.call = c /\ n.id = Hit(r) /\ n.removed = vm.removed /\ n.shell = None
    BY <2>1
  <2>3. ASSUME j.meant # None, j.since = n.removed
        PROVE  \E d \in Calls : /\ call'[d].reply = "ok"
                                /\ Straight(call'[d].seen) => n.id = j.meant
    <3>1. k.meant # None /\ k.since = vm.removed
      BY <1>3, <2>2, <2>3 DEF Same
    <3>2. PICK d \in Calls : /\ call[d].reply = "ok"
                             /\ Straight(call[d].seen) => Hit(r) = k.meant
      BY <1>4, <3>1, LabelHits
    <3>3. call'[d] = call[d]
      <4>1. d # c
        BY <1>1, <1>2, <1>4, <3>2 DEF Ready
      <4> QED BY <1>3, <4>1 DEF ToolsInv, Typed
    <3> QED BY <1>3, <2>2, <3>2, <3>3 DEF Same
  <2> HIDE DEF m, r
  <2> QED BY <1>3, <1>8, <2>2, <2>3 DEF Told
<1>12. j.reply # "ok" \/ Verb(j.asks) # "--shf-host-add" \/ j.asks.folder \in vm'.folders
  BY <1>3, <1>5, <1>6 DEF Same
<1> HIDE DEF m, reply
<1>13. missed' \subseteq Calls /\ did \subseteq did'
  BY <1>2, <1>6 DEF ToolsInv, Typed
<1> QED BY <1>1, <1>2, <1>3, <1>6, <1>7, <1>9, <1>10, <1>11, <1>12, <1>13, RunningTurns

LEMMA ToolsExec ==
  ASSUME ToolsInv, NEW c \in Calls, ExecReturns(c)
  PROVE  ToolsInv'
<1>1. PICK k \in Task : k = call[c]
  BY DEF ToolsInv, Typed
<1> DEFINE r == k.asks
           m == [call |-> c, id |-> None, removed |-> vm.removed, shell |-> Shell(k.os, Text(r))]
<1>2. PICK end \in Ends :
        /\ \/ end \in {"exit0", "killed"} /\ Executes(c)
           \/ end # "exit0" /\ UNCHANGED <<vm, did>>
        /\ missed' = IF end = "notStarted" THEN missed \cup {c} ELSE missed
        /\ CASE r.action = "list" /\ k.pc = "exec" -> GoOn(c, k, "use")
             [] r.action = "list" /\ k.pc = "use" -> Answered(c, k, "ok")
             [] r.action # "list" /\ r.tool = "vm_exec" ->
                  Answered(c, k, CASE ExecErr(end, k.cancelled) # "nil" -> "error"
                                   [] ExecErr(end, k.cancelled) = "nil" /\ ExitCodeZero(end) -> "ok"
                                   [] OTHER -> "exit code")
             [] r.action # "list" /\ r.tool # "vm_exec" ->
                  Answered(c, k, IF ExecSucceeds(end, k.cancelled) THEN "ok" ELSE "error")
        /\ k.pc \in {"exec", "use"} /\ UNCHANGED <<up, outside>>
  BY <1>1 DEF ExecReturns
<1>3. PICK j \in Task :
        /\ call' = [call EXCEPT ![c] = j] /\ Same(j, k)
        /\ j.seen = k.seen /\ j.base = k.base /\ j.os = k.os
        /\ \/ j.pc = "use" /\ j.reply = k.reply
           \/ /\ j.pc = "answered"
              /\ j.reply = "ok" /\ r.action # "list" => end \in {"exit0", "notStarted"}
  <2>1. \/ GoOn(c, k, "use")
        \/ \E reply \in {"ok", "error", "exit code"} :
             /\ Answered(c, k, reply)
             /\ reply = "ok" /\ r.action # "list" => end \in {"exit0", "notStarted"}
    <3>1. CASE r.action = "list"
      BY <1>2, <3>1
    <3>2. CASE r.action # "list" /\ r.tool = "vm_exec"
      <4> DEFINE reply == CASE ExecErr(end, k.cancelled) # "nil" -> "error"
                            [] ExecErr(end, k.cancelled) = "nil" /\ ExitCodeZero(end) -> "ok"
                            [] OTHER -> "exit code"
      <4>1. Answered(c, k, reply)
        BY <1>2, <3>2
      <4>2. reply \in {"ok", "error", "exit code"} /\ (reply = "ok" => ExitCodeZero(end))
        OBVIOUS
      <4> HIDE DEF reply
      <4> QED BY <4>1, <4>2 DEF ExitCodeZero
    <3>3. CASE r.action # "list" /\ r.tool # "vm_exec"
      BY <1>2, <3>3 DEF ExecSucceeds, ExitCodeZero
    <3> QED BY <3>1, <3>2, <3>3
  <2>2. CASE GoOn(c, k, "use")
    <3>1. PICK j \in Task : j = [k EXCEPT !.pc = "use", !.running = FALSE]
      BY RecordsTyped
    <3>2. call' = [call EXCEPT ![c] = j]
      BY <2>2, <3>1 DEF GoOn
    <3>3. /\ Same(j, k) /\ j.pc = "use" /\ j.reply = k.reply /\ j.seen = k.seen
          /\ j.base = k.base /\ j.os = k.os
      BY <3>1, RecordsTyped
    <3> QED BY <3>2, <3>3
  <2>3. ASSUME NEW reply \in {"ok", "error", "exit code"}, Answered(c, k, reply),
               reply = "ok" /\ r.action # "list" => end \in {"exit0", "notStarted"}
        PROVE  \E j \in Task :
                 /\ call' = [call EXCEPT ![c] = j] /\ Same(j, k)
                 /\ j.seen = k.seen /\ j.base = k.base /\ j.os = k.os
                 /\ j.pc = "answered" /\ j.reply = reply
    <3>1. PICK j \in Task : j = [k EXCEPT !.pc = "answered", !.running = FALSE, !.reply = reply]
      BY RecordsTyped
    <3>2. call' = [call EXCEPT ![c] = j]
      BY <2>3, <3>1 DEF Answered
    <3>3. /\ Same(j, k) /\ j.pc = "answered" /\ j.reply = reply /\ j.seen = k.seen
          /\ j.base = k.base /\ j.os = k.os
      BY <3>1 DEF Task, Same
    <3> QED BY <3>2, <3>3
  <2> QED BY <2>1, <2>2, <2>3
<1>4. /\ Ready(k) /\ Current(k) /\ Labelled(k) /\ k.reply = "none"
      /\ r.tool \in {"vm_exec", "vm_smb"} /\ (r.tool = "vm_smb" => k.os = vm.os)
  BY <1>1, <1>2 DEF ToolsInv, Holds, Ready
<1>5. /\ vm' = vm /\ vm \in VM
      /\ (end = "exit0" => did' = did \cup {m}) /\ (did' = did \/ did' = did \cup {m})
      /\ did' \subseteq Deed
  <2>1. CASE Executes(c)
    BY <1>1, <2>1, ToolsExecutes DEF ToolsInv, Typed
  <2>2. CASE ~Executes(c)
    BY <1>2, <2>2 DEF ToolsInv, Typed
  <2> QED BY <2>1, <2>2
<1>6. GoesOn(vm, vm') /\ did \subseteq did' /\ missed \subseteq missed' /\ missed' \subseteq Calls
  BY <1>2, <1>5, SameGoesOn DEF ToolsInv, Typed
<1>7. call'[c] = j
  BY <1>3 DEF ToolsInv, Typed
<1>8. Ready(j)' /\ Current(j)'
  BY <1>3, <1>4, <1>5 DEF Ready, Current, Same
<1>9. Backed(c)'
  <2> SUFFICES ASSUME j.reply = "ok", Changes(r), c \notin missed'
               PROVE  \E n \in did' : n.call = c
    BY <1>3, <1>7 DEF Backed, Same
  <2>1. r.action # "list"
    BY DEF Changes
  <2>2. end = "exit0"
    BY <1>2, <1>3, <1>4, <2>1
  <2>3. m \in did'
    BY <1>5, <2>2
  <2> QED BY <2>3
<1>10. ~IsList(j.asks) /\ Verb(j.asks) # "--shf-host-add"
  <2>1. j.asks.tool \in {"vm_exec", "vm_smb"}
    BY <1>3, <1>4 DEF Same
  <2> QED BY <2>1 DEF IsList, Verb
<1>11. ASSUME NEW n \in did', n \notin did PROVE Told(n)'
  <2>1. n = m
    BY <1>5, <1>11
  <2>2. n.call = c /\ n.shell = Shell(k.os, Text(r))
    BY <2>1
  <2>3. j.meant = None
    BY <1>3, <1>4 DEF Labelled, Same
  <2>4. ASSUME r.tool = "vm_smb", vm.os = "windows"
        PROVE  RightShell(r, Shell(k.os, Text(r)))
    <3> DEFINE suspect == IF Has(r, "username") THEN r.keyword ELSE r.keyword \ {"password"}
    <3>1. k.os = "windows"
      BY <1>4, <2>4
    <3>2. ASSUME r.action = "share" \/ UnmountsShare(r)
          PROVE  Shell(k.os, Text(r)) = "powershell"
      <4>1. Text(r).start \in {"dollar", "cmdlet"}
        BY <2>4, <3>2 DEF Text
      <4> QED BY <3>1, <4>1 DEF Shell, IsPowerShellCommand
    <3>3. ASSUME ~(r.action = "share" \/ UnmountsShare(r)), suspect = {}
          PROVE  Shell(k.os, Text(r)) = "cmd.exe"
      <4>1. Text(r).start = "other"
        BY <2>4, <3>3 DEF Text
      <4>2. Inserted(r) \cap r.keyword = {}
        BY <2>4, <3>3 DEF Inserted, UnmountsShare
      <4>3. ~Text(r).keyword
        BY <4>2 DEF Text
      <4> QED BY <3>1, <4>1, <4>3 DEF Shell, IsPowerShellCommand
    <3> QED BY <3>2, <3>3 DEF RightShell
  <2> HIDE DEF m
  <2> QED BY <1>3, <1>5, <1>7, <2>2, <2>3, <2>4 DEF Told, Same
<1> QED BY <1>1, <1>2, <1>3, <1>5, <1>6, <1>8, <1>9, <1>10, <1>11, RunningTurns

LEMMA ToolsInvStep == ToolsInv /\ [Next]_vars => ToolsInv'
<1> SUFFICES ASSUME ToolsInv, [Next]_vars PROVE ToolsInv' OBVIOUS
<1>1. ASSUME NEW c \in Calls, Enter(c) PROVE ToolsInv'
  BY <1>1, ToolsEnter
<1>2. ASSUME NEW c \in Calls, Spawn(c) \/ Cancel(c) PROVE ToolsInv'
  BY <1>2, ToolsSpawnCancel
<1>3. ASSUME NEW c \in Calls, InfoReturns(c) PROVE ToolsInv'
  BY <1>3, ToolsInfo
<1>4. ASSUME NEW c \in Calls, CommandReturns(c) PROVE ToolsInv'
  BY <1>4, ToolsCommand
<1>5. ASSUME NEW c \in Calls, ExecReturns(c) PROVE ToolsInv'
  BY <1>5, ToolsExec
<1>6. CASE Desktop
  BY <1>6, ToolsDesktop
<1>7. CASE ServerStops
  BY <1>7, ToolsServerStops
<1>8. CASE UNCHANGED vars
  <2>1. /\ vm' = vm /\ call' = call /\ did' = did /\ missed' = missed /\ up' = up
        /\ outside' = outside
    BY <1>8 DEF vars
  <2>2. Typed'
    BY <2>1 DEF ToolsInv, Typed
  <2>3. ASSUME NEW c \in Calls PROVE Holds(c)'
    <3>1. Holds(c)
      BY DEF ToolsInv
    <3>2. Ready(call[c])' /\ Current(call[c])' /\ Labelled(call[c])' /\ Backed(c)'
      BY <2>1, <3>1 DEF Holds, Ready, Current, Labelled, Backed
    <3>3. Listed(call[c])'
      BY <2>1, <3>1 DEF Holds, Listed, Quiet
    <3> QED BY <3>2, <3>3 DEF Holds
  <2>4. ASSUME NEW m \in did PROVE Told(m)'
    BY <2>1 DEF ToolsInv, Told
  <2> QED BY <2>1, <2>2, <2>3, <2>4 DEF ToolsInv
<1> QED BY <1>1, <1>2, <1>3, <1>4, <1>5, <1>6, <1>7, <1>8 DEF Next, Returns

LEMMA ToolsInvAlways == Spec => []ToolsInv
BY ToolsInvInit, ToolsInvStep, PTL DEF Spec

-----------------------------------------------------------------------------
(* The variables keep their types whatever the calls and the desktop do:   *)
(* every device has a slot that exists, every table was made of slots.     *)
THEOREM ToolsTypeCorrect == Spec => []TypeOK
<1>1. ToolsInv => TypeOK
  <2> SUFFICES ASSUME ToolsInv PROVE TypeOK OBVIOUS
  <2>1. ASSUME NEW hw \in Hardware PROVE IsHardware(hw)
    BY HardwareIs DEF IsHardware
  <2>2. ASSUME NEW dev \in [Kinds -> Hardware]
        PROVE  DOMAIN dev = Kinds /\ \A k \in Kinds : IsHardware(dev[k])
    BY <2>1
  <2>3. /\ vm.dev \in [Kinds -> Hardware] /\ vm.made \in Nat /\ vm.removed \in Nat
        /\ vm.folders \subseteq Folders /\ vm.os \in Systems /\ vm.running \in BOOLEAN
        /\ vm.registered \in BOOLEAN
        /\ \A s \in vm.saved : s.dev \in [Kinds -> Hardware] /\ s.folders \subseteq Folders
    BY DEF ToolsInv, Typed, VM
  <2>4. ASSUME NEW c \in Calls
        PROVE  LET k == call[c]
               IN  /\ k.asks \in Request /\ k.pc \in Pcs
                   /\ k.os \in Systems \cup {""}
                   /\ IsHardware(k.seen) /\ k.listed \subseteq Folders
                   /\ k.meant \in Nat \cup {None}
                   /\ k.reply \in {"none", "ok", "error", "exit code", "refused"}
    <3>1. PICK k \in Task : k = call[c]
      BY DEF ToolsInv, Typed
    <3>2. IsHardware(k.seen)
      BY <2>1 DEF Task
    <3> QED BY <3>1, <3>2 DEF Task
  <2>5. /\ did \subseteq Deed /\ missed \subseteq Calls /\ up \in BOOLEAN
        /\ outside \in 0..MaxOutside
    BY DEF ToolsInv, Typed
  <2>6. /\ DOMAIN vm.dev = Kinds
        /\ \A k \in Kinds : IsHardware(vm.dev[k])
        /\ \A s \in vm.saved :
             s.folders \subseteq Folders /\ \A k \in Kinds : IsHardware(s.dev[k])
    <3>1. ASSUME NEW s \in vm.saved PROVE \A k \in Kinds : IsHardware(s.dev[k])
      BY <2>2, <2>3
    <3> QED BY <2>2, <2>3, <3>1
  <2>7. did \subseteq [call : Calls, id : Nat \cup {None}, removed : Nat,
                      shell : Shells \cup {None}]
    BY <2>5 DEF Deed
  <2> QED BY <2>3, <2>4, <2>5, <2>6, <2>7 DEF TypeOK
<1> QED BY <1>1, ToolsInvAlways, PTL

(* A configuration or guest tool that reports success has a command that   *)
(* took effect behind it, but for a guest command that was never started   *)
(* (runner.go Run, ops.go Exec).                                           *)
THEOREM ToolsOkMeansDone == Spec => []OkMeansDone
<1>1. ToolsInv => OkMeansDone
  BY DEF ToolsInv, Holds, Backed, OkMeansDone
<1> QED BY <1>1, ToolsInvAlways, PTL

(* Labels made from positions lead back to the adapter in that row, while  *)
(* the slots are the numbers from 0 to 9 at most and nothing is removed,   *)
(* whatever is added in between (types.go Nets, network.go list).          *)
THEOREM ToolsHitsWhatWasListed == Spec => []HitsWhatWasListed
<1>1. ToolsInv => HitsWhatWasListed
  BY DEF ToolsInv, Told, HitsWhatWasListed
<1> QED BY <1>1, ToolsInvAlways, PTL

(* On a Windows guest, what vm_smb writes in PowerShell runs there for any *)
(* arguments, and its `net` lines run in cmd.exe unless an argument holds  *)
(* a pipeline cmdlet (smb.go, ops.go isPowerShellCommand, which reads the  *)
(* whole line).                                                            *)
THEOREM ToolsShellFits == Spec => []ShellFits
<1>1. ToolsInv => ShellFits
  BY DEF ToolsInv, Told, ShellFits
<1> QED BY <1>1, ToolsInvAlways, PTL

(* A folder that was added, unless its name is "enabled", is in every      *)
(* later table of shared folders, if no call removes one or restores a     *)
(* snapshot (types.go SharedFolders).                                      *)
THEOREM ToolsAddedIsListed == Spec => []AddedIsListed
<1>1. ToolsInv => AddedIsListed
  <2> SUFFICES ASSUME ToolsInv, NEW c \in Calls, call[c].reply = "ok", IsList(call[c].asks),
                      \A d \in Calls :
                        call[d].pc # "idle" =>
                          Verb(call[d].asks) \notin {"--shf-host-del", "vm_snapshot_restore"}
               PROVE  call[c].due \ {"enabled"} \subseteq call[c].listed
    BY DEF AddedIsListed, IsList
  <2>1. Quiet
    BY DEF Quiet, Takes
  <2> QED BY <2>1 DEF ToolsInv, Holds, Listed
<1> QED BY <1>1, ToolsInvAlways, PTL

-----------------------------------------------------------------------------
(***************************************************************************)
(* That a call comes to its end: how many prlctl processes it can still    *)
(* need, `net share` being followed by `net use`.                          *)
(***************************************************************************)
Processes(pc) == CASE pc = "info" -> 3 [] pc = "exec" -> 2 [] OTHER -> 1

StepsLeft(k) ==
  IF ~Active(k) THEN 0
  ELSE IF k.running THEN 2 * Processes(k.pc) - 1 ELSE 2 * Processes(k.pc)

LEMMA ProcessesFacts ==
  ASSUME NEW pc
  PROVE  /\ pc = "info" => Processes(pc) = 3
         /\ pc = "exec" => Processes(pc) = 2
         /\ pc \in {"command", "use"} => Processes(pc) = 1
         /\ Processes(pc) \in 1..3
  BY DEF Processes

LEMMA StepsLeftFacts ==
  ASSUME NEW k
  PROVE  /\ Active(k) => StepsLeft(k) \in {2 * Processes(k.pc) - 1, 2 * Processes(k.pc)}
         /\ Active(k) /\ ~k.running => StepsLeft(k) = 2 * Processes(k.pc)
         /\ Active(k) /\ k.running => StepsLeft(k) = 2 * Processes(k.pc) - 1
         /\ ~Active(k) => StepsLeft(k) = 0
         /\ StepsLeft(k) \in 0..6
  BY ProcessesFacts DEF StepsLeft

(* A call that goes on with fewer processes ahead, or none, has fewer steps. *)
LEMMA FewerSteps ==
  ASSUME NEW k, NEW j, Active(k),
         ~Active(j) \/ (~j.running /\ Processes(j.pc) < Processes(k.pc))
  PROVE  StepsLeft(j) < StepsLeft(k)
<1>1. /\ StepsLeft(k) \in {2 * Processes(k.pc) - 1, 2 * Processes(k.pc)}
      /\ Processes(k.pc) \in 1..3 /\ Processes(j.pc) \in 1..3
  BY StepsLeftFacts, ProcessesFacts
<1>2. \/ StepsLeft(j) = 0
      \/ StepsLeft(j) = 2 * Processes(j.pc) /\ Processes(j.pc) < Processes(k.pc)
  BY StepsLeftFacts
<1> QED BY <1>1, <1>2

LEMMA ToolsReturnLowers ==
  ASSUME Typed, NEW c \in Calls, Returns(c)
  PROVE  StepsLeft(call'[c]) < StepsLeft(call[c])
<1> DEFINE k == call[c]
<1>1. k \in Task /\ call \in [Calls -> Task]
  BY DEF Typed
<1>2. Active(k)
  BY DEF Returns, InfoReturns, CommandReturns, ExecReturns, Active
<1>3. ASSUME NEW h \in Task, NEW reply, Answered(c, h, reply)
      PROVE  StepsLeft(call'[c]) < StepsLeft(k)
  <2>1. call'[c].pc = "answered"
    BY <1>1, <1>3 DEF Answered, Task
  <2> QED BY <1>2, <2>1, FewerSteps DEF Active
<1>4. ASSUME NEW h \in Task, NEW pc, GoOn(c, h, pc), Processes(pc) < Processes(k.pc)
      PROVE  StepsLeft(call'[c]) < StepsLeft(k)
  <2>1. call'[c].pc = pc /\ ~call'[c].running
    BY <1>1, <1>4 DEF GoOn, Task
  <2> QED BY <1>2, <1>4, <2>1, FewerSteps
<1>5. CASE InfoReturns(c)
  <2> DEFINE known == [k EXCEPT !.os = vm.os]
             tabled == [known EXCEPT !.seen = vm.dev["net"], !.base = vm.removed,
                                     !.listed = SharedFolders(vm.folders)]
  <2>1. known \in Task
    BY <1>1 DEF Typed, VM, Task
  <2>2. tabled \in Task
    <3>1. vm.dev["net"] \in Hardware /\ vm.removed \in Nat
      BY DEF Typed, VM, Kinds
    <3>2. SharedFolders(vm.folders) \subseteq Folders
      BY DEF SharedFolders, Typed, VM
    <3> QED BY <2>1, <3>1, <3>2 DEF Task
  <2>3. /\ k.pc = "info"
        /\ \/ \E reply : Answered(c, k, reply) \/ Answered(c, known, reply)
                           \/ Answered(c, tabled, reply)
           \/ GoOn(c, k, "exec") \/ GoOn(c, known, "exec")
    <3> HIDE DEF k, known, tabled
    <3> QED BY <1>5 DEF InfoReturns, k, known, tabled
  <2>4. Processes("exec") < Processes(k.pc)
    BY <2>3, ProcessesFacts
  <2> HIDE DEF known, tabled
  <2> QED BY <1>1, <1>3, <1>4, <2>1, <2>2, <2>3, <2>4
<1>6. CASE CommandReturns(c)
  BY <1>1, <1>3, <1>6 DEF CommandReturns
<1>7. CASE ExecReturns(c)
  <2>1. \/ \E reply : Answered(c, k, reply)
        \/ k.pc = "exec" /\ GoOn(c, k, "use")
    BY <1>7 DEF ExecReturns
  <2>2. k.pc = "exec" => Processes("use") < Processes(k.pc)
    BY ProcessesFacts
  <2> QED BY <1>1, <1>3, <1>4, <2>1, <2>2
<1> QED BY <1>5, <1>6, <1>7 DEF Returns

LEMMA ToolsSpawnLowers ==
  ASSUME Typed, NEW c \in Calls, Spawn(c)
  PROVE  StepsLeft(call'[c]) < StepsLeft(call[c])
<1>1. /\ call[c] \in Task /\ Active(call[c]) /\ ~call[c].running
      /\ call'[c] = [call[c] EXCEPT !.running = TRUE]
  BY DEF Typed, Spawn
<1>2. call'[c].pc = call[c].pc /\ call'[c].running
  BY <1>1 DEF Task
<1>3. Active(call'[c])
  BY <1>1, <1>2 DEF Active
<1>4. /\ StepsLeft(call[c]) = 2 * Processes(call[c].pc)
      /\ StepsLeft(call'[c]) = 2 * Processes(call'[c].pc) - 1
      /\ Processes(call'[c].pc) = Processes(call[c].pc) /\ Processes(call[c].pc) \in 1..3
  BY <1>1, <1>2, <1>3, StepsLeftFacts, ProcessesFacts
<1> QED BY <1>4

(* Nobody else gives a call more to do. *)
LEMMA ToolsOthersLower ==
  ASSUME Typed, [Next]_vars, NEW c \in Calls, Active(call[c]), ~(Spawn(c) \/ Returns(c))
  PROVE  StepsLeft(call'[c]) <= StepsLeft(call[c])
<1> DEFINE k == call[c]
<1>0. k \in Task /\ call \in [Calls -> Task] /\ StepsLeft(k) \in 0..6
  BY StepsLeftFacts DEF Typed
<1>1. CASE call'[c] = k
  BY <1>0, <1>1
<1>2. ASSUME NEW d \in Calls, Enter(d) \/ Spawn(d) \/ Returns(d) \/ Cancel(d), d # c
      PROVE  call'[c] = k
  <2>1. PICK j : call' = [call EXCEPT ![d] = j]
    BY <1>2 DEF Enter, Spawn, Cancel, Returns, InfoReturns, CommandReturns, ExecReturns,
                Answered, GoOn
  <2> QED BY <1>2, <2>1
<1>3. ~Enter(c)
  BY DEF Enter, Active
<1>4. CASE Cancel(c)
  <2>1. call'[c] = [k EXCEPT !.cancelled = TRUE]
    BY <1>0, <1>4 DEF Cancel
  <2>2. call'[c].pc = k.pc /\ call'[c].running = k.running
    BY <1>0, <2>1 DEF Task
  <2>3. StepsLeft(call'[c]) = StepsLeft(k)
    BY <2>2 DEF StepsLeft, Active
  <2> QED BY <1>0, <2>3
<1>5. CASE ServerStops
  <2>1. call'[c] = [k EXCEPT !.pc = "lost"]
    BY <1>5 DEF ServerStops
  <2>2. call'[c].pc = "lost"
    BY <1>0, <2>1 DEF Task
  <2>3. StepsLeft(call'[c]) = 0
    BY <2>2, StepsLeftFacts DEF Active
  <2> QED BY <1>0, <2>3
<1>6. CASE Desktop \/ UNCHANGED vars
  BY <1>1, <1>6 DEF Desktop, vars
<1> QED BY <1>1, <1>2, <1>3, <1>4, <1>5, <1>6 DEF Next

(***************************************************************************)
(* No configuration or guest tool starts more than three prlctl processes: *)
(* each step of a call brings it nearer to its end and nothing else takes  *)
(* it further away, whatever fails or changes on the desktop.              *)
(***************************************************************************)
THEOREM ToolsRunsDown ==
  Spec => /\ [](\A c \in Calls : StepsLeft(call[c]) \in 0..6)
          /\ [][\A c \in Calls :
                  /\ Spawn(c) \/ Returns(c) => StepsLeft(call'[c]) < StepsLeft(call[c])
                  /\ Active(call[c]) => StepsLeft(call'[c]) <= StepsLeft(call[c])]_vars
<1>1. ToolsInv => Typed /\ \A c \in Calls : StepsLeft(call[c]) \in 0..6
  BY StepsLeftFacts DEF ToolsInv
<1>2. ASSUME Typed, [Next]_vars, NEW c \in Calls
      PROVE  /\ Spawn(c) \/ Returns(c) => StepsLeft(call'[c]) < StepsLeft(call[c])
             /\ Active(call[c]) => StepsLeft(call'[c]) <= StepsLeft(call[c])
  <2>1. StepsLeft(call[c]) \in 0..6 /\ StepsLeft(call'[c]) \in 0..6
    BY StepsLeftFacts
  <2> QED BY <1>2, <2>1, ToolsReturnLowers, ToolsSpawnLowers, ToolsOthersLower
<1>3. ToolsInv /\ [Next]_vars =>
        [\A c \in Calls :
           /\ Spawn(c) \/ Returns(c) => StepsLeft(call'[c]) < StepsLeft(call[c])
           /\ Active(call[c]) => StepsLeft(call'[c]) <= StepsLeft(call[c])]_vars
  BY <1>1, <1>2
<1> QED BY <1>1, <1>3, ToolsInvAlways, PTL DEF Spec
=============================================================================
