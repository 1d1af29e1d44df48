# ParalleMCP in TLA+

ParalleMCP (`src/`) is an MCP server in Go that drives Parallels Desktop. A
client sends tool calls over stdio; each becomes a short sequence of `prlctl`,
`prlsrvctl` or `gdb` processes. The server itself keeps **no** state between
calls: what it acts on, the VMs, their hardware and the files in their guests,
belongs to Parallels, to the guests and to whoever sits at the desktop. What is
hard about this program is therefore not its data structures but

- calls that run **concurrently** (the SDK serves each request in a goroutine;
  nothing in `src/` takes a lock),
- calls that are **cancelled** between or during two commands
  (`exec.CommandContext` kills the process, not the request Parallels holds),
- a **server that dies** between two commands, and processes that outlive it,
- commands that **fail, time out, or never start**, with fallbacks and
  best-effort steps, and with conversions of those ends into errors
  (`ExecRunner.Run`, `ExecOS`) that lose information,
- names and labels that are **resolved afresh** by every command, while VMs are
  renamed, deleted and registered and devices come and go elsewhere,
- numbers of the client that are **multiplied into a Duration**.

The modules model that: the control of every handler, command by command, with
Parallels and the guest as the environment. Payloads, formatting and parsing
are left out except where an outcome depends on them.

## 1. Inventory

| Component | Code | State it works on | Operations | Hard part | What makes it correct | Module |
|---|---|---|---|---|---|---|
| Runner | `parallels/runner.go`, `client.go`, `ops.go:22-57` | none | `Run`, `exec`, `ok`, `ExecOS` | five ends of a process become an error and an exit code; three of them coincide | no operation takes a failure for a success | Runner |
| Lifecycle | `parallels/lifecycle.go`, `tools/vm.go`, `Delete` and `Configure` | power state and name of VMs | start, stop, restart, suspend, resume, delete, rename | fallbacks to `--kill` racing cancellations, late ACPI effects, other calls | success is true; kills and deletes are earned; a cancelled call stops acting; UUIDs pin their VM | PowerControl, PowerService |
| FileCopy | `parallels/file_copy.go`, `tools/file_copy.go` | files on host and guest, a temporary file in the guest | push, pull | a loop of guest commands with a shared temporary file; commands that outlive the call | what is reported as copied is what was read; a broken push leaves the old file | FileTransfer, CopyService |
| Provisioning | `parallels/provision.go`, `tools/provision.go` | the set of VMs | create, clone, poll for an address | a chain of commands of which only the first must work; its retry; names; a deadline from a client's number | the report tells what happened; one VM per call; nothing left behind an error; the wait was a wait | Provision, Duration |
| KernelDebug | `parallels/extra_ops.go:131-305`, `tools/extra_tools.go:270-410` | debug flags, serial ports, boot settings of a Windows guest | configure debugger, attach, configure kernel debug | three places to keep in step, errors dropped | what is told of `bcdedit` is true; host before guest; debugger only on request | KernelDebug |
| GdbSession | `parallels/extra_ops.go:307-335, 365-395`, `tools/extra_tools.go:412-593` | the debug stub, the guest it halts | registers, step, disassemble, breakpoints, continue | every tool is a `gdb -batch` process of its own; one stub; a continue without end | no trap stays in the guest; a halted guest runs again; calls end | DebugSession |
| SerialIO | `parallels/extra_ops.go:337-363` | a socket | dial, deadline, write, one read | a deadline from a client's number; a dropped read error | silence is told only of a socket that was listened to | DebugSession, Duration |
| Devices | `parallels/extra_ops.go:1-129`, `tools/extra_tools.go`, `tools/vm.go` | disks, CD drive, adapters, bundles, CPUs | one command each | checks of arguments; positions that change when a device goes | a success has a command behind it | VmTools, VmRequests |
| Network | `parallels/ops.go`, `types.go`, `tools/network.go` | adapters | list, set | rows are labelled by position in a table sorted as strings | an adapter that is configured is the one whose row was read | VmTools, VmRequests |
| SharedFolders | `parallels/ops.go`, `types.go`, `tools/shared_folders.go` | folders | add, remove, list | a flag lives among the folders in the JSON | a folder that was added is listed | VmTools, VmRequests |
| Snapshots | `parallels/snapshot.go`, `tools/snapshot.go` | saved configurations | create, list, restore, delete | a restore takes back what other calls did | as for Devices | VmTools, VmRequests |
| GuestExec, SMB | `parallels/ops.go`, `smb.go`, `tools/ops.go`, `tools/smb.go` | the guest | `vm_exec`; share, mount, unmount, list | which shell a text is run in; failure of the command against failure to run it | what the SMB tool writes meets its shell, arguments permitting; success is true | VmTools, VmRequests, Runner |
| ServerInfo | `ops.go`, `tools/ops.go`, `tools/vm.go` | none | queries | formats | pure functions | none |
| Parsing | `types.go` | none | JSON to tables | order and filter of two tables | as for Network and SharedFolders | VmRequests, in part |
| Server | `main.go`, `tools/register.go` | up or down | register, serve | signal or EOF ends every call | no step of a handler after the end | all |
| DemoDriver | `scratch/` | | | | | none |

`PROJECT.json` lists the same components with what is modelled of each, and the
hazards, each at its line, with the properties that catch it.

Interaction: `main` registers the handlers of `tools/`; a handler checks its
arguments and calls one method of `parallels.Client`; the method runs its
commands one after the other through `Runner`. Calls meet only in Parallels, in
the guest and in the file system. The client is a party of its own: it takes
UUIDs, names and labels from one answer and sends them with the next call
(`UuidPinsTarget`, `HitsWhatWasListed` and `ListIsComplete` are about that).

## 2. Modules

`Runner` is the one module all component modules extend. Each of them has one
VM world, one record per tool call and one action per step of a handler. They
share a pattern:

- `Enter`/`Invoke`: the handler is called, its arguments chosen freely;
- `Spawn`: the process of the next command is created, not under a cancelled context;
- `…Returns` (in FileTransfer, named for the step): the process ends in one of
  `Ends`, and the code up to the next command or to the reply runs. That code
  touches nothing another call can see, so it is one action with the end;
- `Cancel` of a context by the client, `ServerStops` for SIGTERM, EOF or a crash;
- actions of the world outside, each counted by a bound.

**Runner** has no variables: `RunErr` is what `Run` returns, `ExecErr` what
`ExecOS` makes of it, `ExecSucceeds` what callers take for success. A process
that was never created has exit code 0 and, through `ExecOS`, a nil error;
this is in the model as it is in the code.

**Duration** is the product of a client's number with `time.Second`, in two's
complement: `Half` is half the range of a `time.Duration`, 2^63 in the program.

**PowerControl** splits a command in two: the process hands a request to the
`dispatcher`, which performs it at any later time (`Perform`) or never, also
after the process was killed, and after a time-out of a graceful stop, since
the guest may still obey ACPI. `landed` is the history of what was performed.
`call[c]` holds `err` (the error variable of `Stop`, `Restart`) and `saw` (the
status `Delete` read). Outside, guests power off, VMs are paused, renamed and
registered.

**PowerService** is the abstract specification of the same tools, without
processes, fallbacks and contexts: a call performs commands of its own tool,
each at most once; it succeeds only after one its reply speaks of; and once a
call addressed by UUID has succeeded, nothing of it is still to come.
PowerControl instantiates it (`Service == INSTANCE PowerService WITH …`), a
call that is answered or lost mapped to how it was answered, `landed` to the
commands performed.

**FileTransfer** has the files of host and guest as sequences of blocks, one
block per chunk of 4000 base64 characters; `tmp` holds the temporary files. A
command whose prlctl was killed goes to `late` and may execute in the middle of
a later push. Each transfer carries the history `trouble`: `overlap` (another
transfer to that destination was active), `late`, `setup` (its exit code, which
the code ignores), `notStarted`, `decode` (a Windows decode that failed under
exit code 0). `os.WriteFile` is an open that truncates and a write, so that
pulls mix. With any fault at all allowed, `os.ReadFile` may fail too.

**CopyService** is the abstract specification of `vm_file_copy`, without
commands, chunks and temporary files. A call reads its source at one moment. A
*clear* call, one that nothing got in the way of, replaces its destination by
exactly what it read when it succeeds; when it fails, it leaves the destination
alone or with a first part of what it read. A call that is not clear may leave
a mixture, but of nothing except blocks that calls with that destination have
read. A call that failed may change the guest once more (`Aftermath`), one that
succeeded is over. FileTransfer instantiates it (`Service == INSTANCE
CopyService WITH …`): the record of a transfer becomes how far its call is
(`StatusOf`), and the clear calls are those with no `trouble`. Two constants
say what the environment may do: `Misses`, that a command can have had no
effect and still pass for done, and `Orphans`, that it can outlive its call.

**Provision** is `Create` and `Clone`: the create and the retry without flags,
then find, set, start, the SSH key, and the poll with its clock `waited`
against the limit that `Duration` makes of the client's seconds. `done` and
`warned` are the fields and the Warnings of `CreateResult`. `landed` and
`failed` are history. A command takes effect where its process ends; that it
can outlive it is PowerControl's subject. Two things are taken of the
environment: a `prlctl create` that fails by itself made nothing (only a killed
one may have), and an `Info` of the poll takes no longer than the interval
between two of them; the code sets it no limit.

**KernelDebug** is the three tools that set up a debugger, over the flags and
ports of a VM and the `bcdedit` settings of its guest. It records what
`KernelDebugResult` tells. The guest is one of three `Systems`, since the code
looks for `win` anywhere in the reported name and finds it in `darwin` too. A
protocol that `vm_configure_debugger` does not know is an error before the
first command (`Entered`).

**DebugSession** is the eight tools that use one. A gdb is a process with a
list of commands still to do (`todo`, its `-ex` arguments, of which the first
sets the architecture and needs no target), a breakpoint table
of its own, and the stub, which is free or taken by one gdb; attaching halts
the guest, exiting lets it run, and breakpoints are in the guest's code only
while gdb lets the guest run. A gdb that is killed loses the stub and may leave
the guest halted; one whose server is gone lives on. `vm_debug_serial` dials,
sets a deadline of `Timeout(n)` ticks, writes and reads once, while `Tick`
lets time pass. A call without one of its required arguments is refused at once
(`complete`, `Entered`).

**VmRequests** has no variables. It is what the handlers of sixteen tools make
of their arguments: `Accepted` is every check before the first process, `Verb`
the prlctl command a request becomes, `Device` the device it names, `Shell`
and `IsPowerShellCommand` the shell of a guest command, `Nets` and
`SharedFolders` the two tables of `types.go` with their order and filter.
`Text` is the line a guest tool sends, as far as `isPowerShellCommand` looks at
it: how it starts, and whether one of the five pipeline cmdlets is anywhere in
it, which an argument can bring in. `Inserted` says which arguments are in
which line.

**VmTools** is the life of those calls over one VM: hardware as a function from
slots to devices with identities, folders, snapshots that save both, whether it
is registered and running. The client may take an adapter's label from a row of
any table it was given (`FromRow`), and the call remembers in `meant` which
adapter that row showed.

**Ranks** is the order on pairs of numbers that the termination proofs use.

`MC…` modules extend these with model values, request sets and symmetries.
`…Proofs` modules hold the theorems. A definition with a `_Suffix`, introduced
by "Plausible bug", is a mutated copy of the definition after it; every
property of a passing run fails when the copy named in `PROJECT.json` replaces
the original.

## 3. Runs

`CHECK_DEADLOCK FALSE` in all of them: calls are made once, and when all are
answered the system rests.

| Run | Instance | Distinct states | Shows |
|---|---|---|---|
| PowerSafety | 2 calls, all tools, 1 VM, 1 change from outside | 709,496 | `OkMeansDone`, `DestructionIsEarned`, `CancelledActsNoMore`, `KillThenStart`, and the refinement `ImplementsService` |
| PowerNames | 1 call, 2 VMs, 2 names, 2 changes from outside | 157,612 | `UuidPinsTarget`; liveness `CancelledIsAnswered`, `EveryCallIsAnswered` |
| CopySafety | 2 transfers, 2 host files, one empty, 1 guest path, Windows, every fault | 495,008 | `OkMeansDelivered`, `TmpTracksLoop`, `GuestFileHeld`, and the refinement `ImplementsService` |
| CopyLive | 2 transfers, 2 guest paths, cancellation and server end | 197,648 | `PushArrives`, `EveryTransferIsAnswered` |
| ProvisionSafety | 1 call with every request, 2 VMs, 2 names, waits of 1 and 5 s in a Duration of three bits, 1 change | 524,004 | `ReportIsTrue`, `FailuresAreWarned`, `OneVMPerCall`, `ErrorLeavesNothing`, `AddressWasWaitedFor`, `EveryCallIsAnswered` |
| ProvisionOwn | 2 calls, creates that compete for one name and clones of it, 2 VMs, 2 names, none from outside | 78,238 | `ActsOnOwnVM` |
| KernelDebug | 2 calls, every tool and mode, 3 systems, 1 power change, 1 port | 803,586 | `AppliedIsTrue`, `ErrorChangesNothing`, `PortComesFirst`, `FlagsAsAsked` |
| DebugSession | 2 calls out of 8 requests, 1 location, 1 stop or start of the VM | 211,550 | `NoTrapIsLeft`, `SilenceWasWaitedFor`; liveness `SessionsAreAnswered`, `CancelledIsAnswered`, `GuestRunsAgain` |
| VmTools | 2 calls out of 34 requests, 4 slots, 2 folders, 1 change on the desktop | 3,025,042 | `OkMeansDone`, `HitsWhatWasListed`, `ShellFits`, `AddedIsListed` |
| CopyWindows, DebugBreakpoints, ExecUnstarted | | | a violation each, see section 6 |

Each passing safety run with more than one property also checks the type
invariant of its module, PowerSafety for PowerNames, CopySafety for CopyLive,
ProvisionSafety for ProvisionOwn.

Bounds. *Two calls* are what interference takes: no handler looks at more than
its own record, so a third call adds no kind of meeting, only more of them; in
VmTools they are what it takes to read a label and use it, with the desktop in
between. *One VM and one name* in PowerSafety, because calls meet only on one
VM; *two and two* in PowerNames, which is what it takes for a name to move.
`MaxExternal`, `MaxOutside` and `MaxPower` count changes made from outside:
with two, a VM can disappear from under a name and another take it; with one,
an adapter can be added or removed between the table and its use. A file of
*two chunks* has a first and a last; the second host file of CopySafety is
empty, so that a loop without a turn is covered. *Half = 4, Second = 1*: five
seconds overflow to a negative Duration, which falls back to the default, one
and three fit; the poll turns, reaches its deadline exactly and passes it.
`MaxPorts = 1` makes the second port hit the limit, *Slots = 0..3* leaves room
for two adapters besides the two the VM starts with, and for a gap. Larger
widths, more slots, calls and VMs are what the proofs are for. Tables whose
string order differs from their numeric one (ten adapters or more) are beyond
these slots; the proof of `ToolsHitsWhatWasListed` covers them, down to the
order of the keys. Symmetry is used, of calls and in ProvisionOwn of VMs, only
in runs without liveness.

Fairness. A handler is a goroutine that blocks only in `cmd.Run` (in
`time.After` in the poll, in a socket with a deadline in `vm_debug_serial`), so
a call that can take its next step does. PowerControl's `FairSpec` asks in
addition only that `CommandContext` kills the process of a cancelled call; that
every prlctl process exits, `PrlctlExits`, is a premise of
`EveryCallIsAnswered` there, not part of the specification, because the code
has no time limit. FileTransfer and Provision put the exit of prlctl into
`FairSpec`. DebugSession's `GoesOn` lets time pass, ends a dial, a write or a
read at its deadline, kills the gdb of a cancelled call, and lets a gdb finish
each command but one that waits for the guest. Nothing is assumed of Parallels,
the guest, the client or the user: a request may never be performed, a call
never be cancelled, a continued guest never stop, a serial line never speak.

## 4. Properties

The ones a reader should know, and why they are not obvious:

- `OkMeansDone` (PowerControl): the reply of `Restart` is the error of its
  *last* command, except that a failed forced stop returns the *first* error;
  with requests that land late or never, no path reports a success that did not
  happen.
- `DestructionIsEarned`: `Stop` and `Restart` fall back to `--kill` on **any**
  error, and cancellation is one. That no guest is killed because its client
  cancelled rests on the context being done already when the kill is spawned.
- `KillThenStart`: a restart that fell back to a kill does not leave the VM off
  by its own control flow. Its start is performed after its kill only; once the
  kill was performed, success means that the start was performed as well, and
  an error, unless the client cancelled, is that of the start.
- `ImplementsService` (PowerControl): with every fallback, time-out, cancellation and crash a
  call still performs each of its commands at most once, and a call by UUID
  that was answered with success has no request left in Parallels.
- `OkMeansDelivered`, `TmpTracksLoop`: a push that died leaves its text, and
  the next push to that path must not append to it; the setup that prevents
  this has its exit code ignored. The properties say exactly which five
  troubles remain.
- `ImplementsService` (FileTransfer): the file that arrives is the one that was
  read at one moment, although it travels in pieces, with a command for each,
  and other transfers and leftovers of dead ones move in between; and even a
  push that was disturbed leaves nothing at its destination that no push to it
  has read.
- `PushArrives`: nothing at another guest path can make a push fail.
- `OneVMPerCall`: the first create may have worked although it was killed; the
  retry would make a second VM if the name were free again. Only the context
  prevents it.
- `FailuresAreWarned`: warnings and failed commands are the same set, in every
  combination of failures.
- `AddressWasWaitedFor`, `SilenceWasWaitedFor`: both tools multiply a client's
  integer into a `time.Duration`; whatever comes out, the answer "nothing came"
  is given only after the time asked for if that is positive and fits, and never at
  once; a product that wraps shortens the wait.
- `AppliedIsTrue`: `a && b` in a guest, in a process, under a context. Left out
  are cancelled calls and processes that never started; the latter are told to
  have applied what nobody did.
- `NoTrapIsLeft`: a `continue` that is killed ends a gdb which must not have
  written a breakpoint into the guest's code. It holds because the tools that
  set breakpoints never let the guest run and the one that does has none.
- `GuestRunsAgain`: of two gdbs at one stub, one orphaned, the guest still gets
  out of its halt, unless a gdb was killed.
- `HitsWhatWasListed`: labels are positions in a table that `Nets` sorts by
  key, as strings, and prlctl takes them for device names. The
  property says when that is right: no gap, at most ten adapters, and nothing
  removed in between. What is added in between does no harm.
- `ShellFits`: the lines the SMB client writes are sorted into PowerShell and
  `cmd.exe` in another file, by how the whole line starts and by five cmdlets
  anywhere in it. The PowerShell lines always arrive there; `net use` stays in
  `cmd.exe` unless an argument in the line holds one of the five. A password
  that is given without a user name is not in the line.
- `AddedIsListed`: skipping a flag in the middle of a JSON object hides no
  folder, but for one that has the flag's name, while no folder is removed and
  no snapshot restored.

## 5. Proofs

TLAPS proves, for all values of the constants that satisfy the named
assumptions (`PowerAssumption`, `TransferAssumption`, `ProvisionAssumption`,
`DurationAssumption`, `DebugAssumption`, `SessionAssumption`, `SlotAssumption`,
`ToolsAssumption`), for each component the type invariant and every safety
property of its passing runs. What is assumed is that constants are of their
kind, that "none" values are not members of the sets they stand beside, and
where the code needs it that a set is not empty; the bounds are any naturals.

*PowerControlProofs.* `PowerTypeCorrect`; `PowerRepliesAreTrue`,
`PowerDestructionEarned`, `PowerUuidPins`: `OkMeansDone`, `DestructionIsEarned`
and `UuidPinsTarget`. None of them is inductive: a kill lands long after the
command was chosen, so the reason must be carried by the call and by the
request. `PowerInv` says of every request, in the dispatcher or landed, that
its call had a reason for it (`Earned`) and that its VM is the one the call's
UUID names; of every call about to run a command, that it has the reason for
that command; and of every success, that the claimed command landed.
`PowerCancelFinal`: `CancelledActsNoMore`, an action property, from the type
invariant.

*PowerServiceProofs.* `PowerImplementsService`: initial states map to initial
states and every step of PowerControl to a step of PowerService or a stutter.
`ServiceInv` is what a step alone does not know: the commands of a call come in
the order of their ranks and each at most once (`HandedOK`, `OnceOK`), and of a
call by UUID that succeeded nothing is left with Parallels (`LeftOK`).
`PowerKillThenStart`: `KillThenStart`, an action property. That a start is
performed only after a kill is in `HandedOK` and `LeftOK`; what a restart
answers after its kill was performed is `KillAnswers`, for each step that can
end a call.

*FileTransferProofs.* `CopyTypeCorrect`, `CopyTracksLoop`, `CopyDelivers`,
`CopyHoldsGuestFile`, for files of any length, any set of paths, any number of
transfers, and any set of faults. The invariant `CopyInv` is the conjunction of
`TypeOK`, `XferOK` (at each step, how far the loop is), `PullOK`, `LateOK`
(what a command that outlived its call can be), `OverlapOK` (two active calls
with one destination are both marked) and `TmpTracksLoop`. `OverlapOK` is what
makes the rest inductive: an untroubled push is alone at its temporary file, so
only its own step moves it. `OwnStep` and `WeakerStep` are the two ways a step
preserves the invariant, and every action is one of the two.

*CopyServiceProofs.* `CopyImplementsService`: FileTransfer implements
CopyService, for all values of the constants and any set of faults. Beside
`CopyInv` a step has to know `ServiceInv`: a call has nothing in hand and no
trouble before its time (`HeldOK`), a command that outlived its process belongs
to a call that is over without success (`OrphanOK`), and a temporary file,
whoever appended to it, is made of blocks that pushes to its path have read
(`MixOK`). `MixOK` is what makes it inductive: a
decode, whoever sends it and whenever it executes, can only uncover that
mixture. Setups, appends and failed tries of a call are stutters; the step that
answers, and the late execution of a decode, are the ones that show.

*ProvisionProofs.* `ProvisionTypeCorrect`, `ProvisionMakesOne`,
`ProvisionErrorLeavesNothing`, `ProvisionFailuresAreWarned`,
`ProvisionReportIsTrue`, `ProvisionAddressWasWaitedFor`. `ProvisionInv` has
three parts beside types: `WorldOK` (a registered name is one VM's, nobody made what is not
born), `MadeOK` (what a
call has made by each step; after a failed create with no VM lies a retry, with
a VM only a cancelled one) and `ReportOK` (warnings are failures, fields are
commands that worked). `WaitFits` says of any product, in any width, that one
that fits is itself. `ProvisionActsOnOwn` assumes
`MaxOutside = 0`, as ProvisionOwn does: without changes made elsewhere a call's
VM keeps its name (`OwnInv`), so a command by name finds it.

*KernelDebugProofs.* `DebugTypeCorrect`, `DebugAppliedIsTrue`,
`DebugErrorChangesNothing`, `DebugPortComesFirst`, `DebugFlagsAsAsked`, from
`DebugInv`: of each call its `Route` (where a call of each tool can be), what
it has done `SoFar`, and that it is `Honest`.

*DebugSessionProofs.* `SessionTypeCorrect`, `SessionLeavesNoTrap`,
`SessionSilence`. `NoTrapIsLeft` becomes inductive as something stronger, that
the guest's code never holds a breakpoint at all: `SetsOrGoes` says that a gdb
with a table is one of `breakpoint_set`, whose commands to come hold no
`continue`. `OnTime` says that the ticks left and the ticks waited add up to the
limit until the answer.

*VmToolsProofs.* `ToolsTypeCorrect`, `ToolsOkMeansDone`,
`ToolsHitsWhatWasListed`, `ToolsShellFits`, `ToolsAddedIsListed`, for any set
of slots. Of each call `ToolsInv` says where it is and with which system of the
guest (`Ready`), that its table is still right while nothing was removed
(`Current`), that a label is from a table that was answered (`Labelled`), that
folders stay (`Listed`) and that success has a deed (`Backed`); of each deed
what is known of it (`Told`). The lemmas on tables (`KeysDiffer` to
`LabelsAreSlots`) show that a table of at most ten adapters without a gap is in
the order of its slots although it is sorted as strings.

*That calls come to an end.* The part of termination that is a safety property
is proved: `CopyRunsDown`, `PowerRunsDown`, `ProvisionRunsDown`,
`SessionRunsDown`, `DebugRunsDown` and `ToolsRunsDown` give each call a rank, show that each of its own steps lowers
it, and that nothing else, no other call, cancellation, end of the server or
change from outside, raises it. For a transfer the rank (`Left`) is its stage
and twice the chunks not sent, a pair in the order of `Ranks`, which has no
infinite descent (`RankIsWellFounded`); for `Create` and `Clone` the stage and
what is left of the wait, which every turn of the poll shortens (`IPWait` is
bounded by the Duration whatever the client sends); for a gdb, also one whose
server is gone, what is left of its script, and for a call on the serial line
the time to its deadline. A call of PowerControl, KernelDebug or VmTools
has at most six steps, the start and the end of three processes. So no fallback, retry or loop of the code goes
round for ever, for files of any length and limits of any size. What
`EveryTransferIsAnswered`, `EveryCallIsAnswered` and `SessionsAreAnswered` say
beyond that, that a next step is possible and will be taken, is about `ENABLED`
and fairness and stays with the runs.

Only model-checked: liveness, under each `FairSpec`. It is out of the prover's
reach, as is `ENABLED`; no module that is proved about has a RECURSIVE operator
or an induction over data.

## 6. Where the code and its documentation disagree

Each has a run whose property TLC finds violated; `PROJECT.json` quotes the lines.

- `DecodeFailureIsReported` (CopyWindows): on Windows the decode is
  `…; Remove-Item`, whose exit code is that of the Remove-Item: a failed decode
  is a success.
- `ListIsComplete` (DebugBreakpoints): `vm_debug_breakpoint_list` lists the
  breakpoints of a gdb that was just started, which has none. What
  `vm_debug_breakpoint_set` reported is gone with its gdb.
- `UnstartedIsAnError` (ExecUnstarted): a guest command whose prlctl could not
  be started at all is shown as one that exited with 0.

Found by reading, without a run of their own:

- the comments of `Exec` and `vm_exec` (`parallels/ops.go:22-25`,
  `tools/ops.go:40-41`) say that a Windows guest runs every command in
  `powershell.exe -NoProfile -NonInteractive -EncodedCommand`, and the
  description of `vm_exec` (`tools/ops.go:15`) that it is `/bin/sh -lc`
  everywhere. `guestShellArgs` (`parallels/ops.go:57-69`), whose own comment is
  right, runs `cmd.exe /c` and wraps in `powershell -Command` only what
  `isPowerShellCommand` recognises; `encodePowerShell` is called by nothing.
  The model follows `guestShellArgs`;
- `isPowerShellCommand` searches the whole line, so that a mount whose share,
  user or password contains `select-object`, `where-object`, `foreach-object`,
  `format-table` or `format-list` sends its `net use` to PowerShell;
- an unforced `vm_stop` replies "gracefully stopped" also when the fallback
  killed the VM;
- two pushes to one path share their temporary file and mix their text; the
  first to decode reports success over a file that is neither;
- a push of an empty file always fails on its decode, since no chunk creates
  the temporary file;
- the SSH key is injected by name, although the UUID is known;
- the default distribution is computed and never passed on, and the retry of
  create drops the distribution silently;
- in gdb mode the port reported is never given to Parallels;
  `vm_configure_kernel_debug` answers "Configured" whatever came of its
  commands, adds a port each time, and in net mode runs `bcdedit` whatever the
  guest's system is; when `bcdedit` fails with nothing on stderr, the reply
  does not mention it;
- labels of adapters are positions in a table where net10 comes before net2;
- `vm_cdrom` offers to "detach ISO images", but its `detach` deletes the drive
  (`--device-del`); `disconnect` is what empties it;
- `vm_configure` with a blank name and CPUs claims the name in its reply,
  although it is not sent;
- a shared folder called "enabled" is never listed.

## 7. Not modelled, and what is left

Not modelled: server information, host statistics, `vm_list` and `vm_info`
(queries, rendered as text); most of the decoding in `types.go`, which is pure;
`template_list` and the search for an SSH key, which change nothing; the
encoding of base64, of which FileTransfer keeps the chunks; the quoting of
command lines; the JSON-RPC transport, which is the SDK's; `scratch/`, a sample
kernel module; the wording of replies, but for the claims the properties name.
Parallels, gdb with its stub, and the shells of the guests are external: they
are modelled as far as the code in `src/` relies on them.

Left for a continuation: KernelDebug and DebugSession over one VM, so that a
session finds the stub only when the flags were set at boot; PowerControl's
late requests in Provision and VmTools. Left to
prove: what of `CancelledIsAnswered` and `GuestRunsAgain` is safety.
