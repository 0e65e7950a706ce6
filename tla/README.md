# A TLA+ model of Linsk

This directory holds TLA+ specifications of Linsk, the TLC configurations that
model-check them on small instances, and theorems about them that TLAPS checks
for every instance. They are written from the Go code in `src/`; all paths
below are relative to `src/`. `PROJECT.json` maps every definition to the lines
it models.

Linsk starts a QEMU virtual machine with a Linux guest, passes a block device
through to it, mounts the device in the guest and exports it to the host as a
network share. What makes that hard is the start and the end: seven goroutines
and the main goroutine act on one QEMU process, several of them may ask for its
shutdown at once, the guest may hang at any point, and processes that crash
leave files, taps and QEMU behind.

## 1. Inventory

| Part | Code | State | Operations | Interacts with | What makes it correct |
|---|---|---|---|---|---|
| Virtual machine | `vm/vm.go`, `vm/ssh.go` | the QEMU process, `canceled`, `ctx`, the serial pipes, `sshConf`, `sshReadyCh`, `globalErrs` | `Run`, `Cancel`, boot and setup watchdogs, login handler, serial reader, mount checker | everything below; the guest through a serial console and SSH | one shutdown; bounded setup; nil only for a requested, completed end; a passed-through device is always watched |
| Program | `cmd/runvm/runvm.go` with the command functions in `cmd/` | `runErrCh`, `wg`, the interrupt channel, exit code | `RunVM`, its run goroutine, its signal goroutine | calls `Run`, `Cancel`; is told by `SSHUpNotifyChan` | no QEMU left behind; exit code 0 only if all worked; a VM that has ended ends the program |
| Network taps | `cmd/utils.go`, `cmd/clean.go`, `storage/nettap.go`, `nettap/` | taps of the OS, `tap_alloc_*` files, PIDs | list, prune, save, create, delete, release | other Linsk processes, through files and taps alone | every tap is recorded; only what dead processes left is pruned |
| Images | `storage/`, `imgbuilder/` | base image, VM image | download and verify, build, clean, check for existence | `RunVM` installs into the image | only verified images are installed from; success means set up; what is set up goes only on request |
| Share ports | `share/`, `vm/cfg.go`, `vm/filemanager.go` | the found port, the rules and their address, the port for SSH, the FTP configuration | search, forward, bind, announce | other programs' listeners, QEMU | no wrap-around; what is found can be bound, but for what the search does not look at; what is announced is forwarded |
| File manager | `vm/filemanager.go`, `sshutil/pass.go`, `vm/net.go` | the guest's mounts, LUKS devices, services | `InitLVM`, `Mount`, `PreopenLUKSContainer`, `Lsblk`, `StartFTP/SMB/AFP` | SSH sessions, the user at the password prompt | LUKS, LVM, mount and share take effect in this order; what is announced is there |
| SSH sessions | `sshutil/ssh.go` | `done`, `timedOut`, the shared connection | session with a context and a delayed timeout | the VM's context | a wait ends in bounded time, and success is never another command's |
| Serial console | `vm/vm.go:378-451`, `vm/ssh.go` | a bufio reader, a 32-slot channel | read, peek, reset, consume | login handler, watchdogs | the status that counts is that of the setup; no host key is lost; the guest is never blocked |
| QEMU arguments | `cmd/utils.go`, `vm/cfg.go`, `qemucli/` | none | translate, validate, encode | `NewVM`, QEMU | what the command line says reaches the machine, or the request is refused, but for the cases of section 6 |
| User input, OS specifics, CLI wiring | `vm/types.go`, `utils/`, `osspecifics/`, `cmd/` | none | parse, query, print | | not stated here: pure functions and system calls |

The hazards found in this code, each at its line and with the properties that
guard it, are listed in `PROJECT.json`.

## 2. Modules

| Module | Models | Extends |
|---|---|---|
| `VMContract` | what a user of a VM may rely on | |
| `VM` | `vm.VM`; implements `VMContract` | |
| `RunVM` | `runvm.RunVM`, composed with the whole of `VM` | `VM` |
| `TapRegistry` | what allocation files promise of taps | |
| `NetTap` | concurrent runs and cleans that share taps; implements `TapRegistry` | |
| `MCNetTap` | symmetry for TLC | `NetTap` |
| `Images` | download, build, clean, run | |
| `ShareContract` | which effects in the guest a command line asks for, and which need which | |
| `FileManager` | the remote commands of `run` and `ls`, and the SSH sessions they run in; implements `ShareContract` | |
| `SerialConsole` | login, SSH setup and key scan over the serial console | |
| `SharePorts` | ports from the search to the FTP configuration | |
| `QemuConfig` | operators from the command line over QEMU's arguments to the machine | |
| `Launch` | the start of a VM: `SharePorts` composed with `QemuConfig` | both |
| `MCLaunch` | the command lines for TLC | `Launch` |
| `*_proofs` | theorems of the module of that name (`KnownKeys_proofs`: more of `SerialConsole`); `RunVM_proofs` rests on `VM_proofs` | the module, `TLAPS` |

Definitions whose comment begins with "Mutant" are not part of any
specification. They state a plausible bug in the definition that follows, and
are there to show that each property notices one.

### VM

Each goroutine is a thread with a program counter in `pc`: `run` (VM.Run
itself), the two watchdogs, `loginHandler`, `serialReader`, `mountChecker`, and
a set `Callers` of threads outside of `vm.go`. `Cancel` is a subroutine with
steps `dial`, `poweroff`, `kill`, `ctx`, `close`; `AfterCancel` says where each
thread goes on. `LockErrs` and `AppendErrs` are `globalErrFn`, which calls
Cancel with its mutex held.

The steps are the ones between which other goroutines can see a difference:
`RunWait` ends the wait and enters Cancel; `RunCheckErr` reads `err`, which the
login handler also assigns; `RunCollect` reads `globalErrs`.

The environment is the guest (`GuestBoots`, `GuestHangs`), QEMU (`QemuExits`: it
obeys a signal, follows the guest's power-off, or crashes), the host
(`HostMounts`) and the end of the Linsk process, which QEMU outlives: it has a
process group of its own. A *hung* guest is one whose kernel still accepts TCP
connections while nothing answers on them. `ssh.Dial` bounds the TCP connection
by 5 seconds but not the handshake, so Cancel may wait for such a guest as long
as QEMU runs.

`ImplementsContract` maps this to `VMContract`: the process is absent, up,
zombie or reaped; an outcome is final; success needs a reaped process and a
request to stop; readiness is announced once and only while Run has not returned
early.

### RunVM

`RunVM` extends `VM` with the main goroutine (`main`), the goroutine around
`VM.Run` (`runner`) and the signal goroutine (`pending`, `handled`). `main` and
`signal` are VM's `Callers`. Any step of VM is a step of the program, and the
program touches VM through `CallCancel` and `ProcessExits` only (the lemma
`ProgramIsAVM`, by which VM's invariants hold of the program too). `command`
distinguishes commands with a file manager, those that may ask for a LUKS password
and those that wait for the user.

The command's function goes from `fn` to `prompt` and back as often as it asks for a
password: `term.ReadPassword` knows no context, and only `UserAnswers` ends it. What a
session's timeout ends (`MainTimesOut`) is apart from `MainFn`, as `ssh.Dial` and
`NewSession` have no timeout, and a hung guest may keep `main` there.

### NetTap

A process stands for its PID and its unique tap name. Reading the directory,
reading each file, listing PIDs, finding a tap and deleting it are separate
steps, and a crash is possible between any two. `PidReused` gives the PID of an
ended process to a stranger. Sets replace the order of the loops, which no
property depends on; the file that `os.WriteFile` has created but not written
is `empty`.

`ImplementsRegistry` maps this to `TapRegistry`, which knows neither processes nor
lists: a tap's record is none, begun (the empty file), kept, or lost with the
directory, and its owner prepares, uses, leaves or has ended. A tap is made only when
its record is kept or lost, is taken away by its owner or after its owner's end, and
its record goes only when it is gone. A record that was begun and not finished stays
until a clean removes it.

### Images

`base` and `image` are the two files. An image is partial until the command that sets
it up has come to its end, unsynced until the guest has written everything, and then
installed. The command neither syncs nor unmounts, and Cancel signals QEMU as soon as the
guest has accepted `poweroff`, so `Shutdown` leaves one or the other, and the build does
not know which. A builder that crashes leaves a guest that may go on (`GuestLeaves`).
`writers` and `imageOwner` tell whose
open file has the name in the directory: a build that writes to a file somebody
has removed goes on unseen. With `Concurrent = FALSE` commands run one after
another, with failures and crashes at every step.

### FileManager

The program's part is one goroutine whose remote commands follow from the
command line. `Plan` builds that sequence from the functions of `filemanager.go`
(dial, validate, run, close), each written as the function calls the next. `at`
is the position in it and `phase` the place inside of a session: created,
started, at the password prompt, waiting, about to return. A session has up to
two watchers, identified by its position: one for the context, one for the
timeout, which a session with a prompt gets only when the password was typed.
`Fires` and `Closes` are separate steps, since `timedOut` is set before the
connection is closed; between them the session may return with the old value
(`StaleRead`: nothing orders the read after the write). `Leaves` is `done`; a
watcher whose event comes just then may still take it, and closes the
connection under the next command.

In the guest a command is received, finishes, and has taken effect if its status
was zero; it may finish long after anybody waits for it. Cancel (signal, then
context), the exit of QEMU and a guest that hangs are the environment, and so is
the user, who may never type.

`config` is the command line, with the name, if any, that the validation refuses.
`ImplementsShare` maps what was executed to the effects of `ShareContract`: `Effect`
tells the second scan for volumes, which finds those of the container, from the
first. The contract states no sequence. It says what each effect needs, and that
`outcome` is "done" only when all that was asked for is there and nothing was refused.

### SerialConsole

A line is one of its kinds: a status, a host key, a key a kernel message has cut,
or anything else. It goes from the guest to `pipe`, to the reader's hand
(`line`), to `channel`. The reader looks up `vm.serialStdoutCh` without
synchronisation, so a line it holds while the channel is replaced may go to
either one (`outdated`). `PeekRaces` is the login handler's `Peek` beside the
reader's `ReadBytes` on one `bufio.Reader`: output may be lost. The two watchdogs
are one, which may fire whenever the first may.

### SharePorts, QemuConfig, Launch

Port numbers below `Size` with wrap-around (`Add`), the search of `ports.go` one
probe at a time, other programs that open and close listeners at any moment
(`Disturb`), the forwarding rules, the SSH port `freeport` found and gave back,
QEMU's bind, and the passive range that `StartFTP` writes.

A socket is an address and a port. The search listens on 127.0.0.1 (`Probed`), while QEMU
binds the address of `--share-listen` in every rule of the share, and that of each rule of
the shell's `--forward-ports`. `Addresses` has those that matter: the loopback address,
one of an interface, all of them, one the host does not have, and one that is no IPv4
address. `Clash` says when two listeners get in each other's way; whether one on
all addresses excludes one on a single address depends on the system and the options of
the socket, which is the constant `WildcardExcludes`.

`QemuConfig` has no state. `Config` is `runVM`'s `vm.Config`, `Args` the
arguments `vm/cfg.go` makes of it, `Refused` the errors of `NewVM`, and `Machine`
what QEMU builds from arguments, as QEMU's documentation of `-drive`, `-device` and
`-netdev` has it. A path is a name with the set of its special characters. `Launch`
takes these as steps between the steps of `SharePorts`, whose rules go into the
configuration (`extraRules`); each of its steps is one of
`SharePorts` or a stutter, which `LaunchImplementsPorts` proves.

## 3. Runs

| Run | Expected | Question |
|---|---|---|
| `vm` | pass | Who runs Cancel's body; what the context and `SSHUpNotifyChan` mean; is the device guarded; what can the shared `err` and the mutex around Cancel do; does VM implement its contract, and with it what nil means; does setup end, does a dead QEMU end Run |
| `runvm_safety` | pass | What do a return and exit code 0 mean |
| `runvm_liveness` | pass | With a guest that may hang and a user who may never answer the LUKS prompt: does the end of QEMU end the program, is every interrupt taken, and what are the two exceptions |
| `nettap_safety` | pass | Do three runs and a clean without a lock keep the registry's promises; what do they prune |
| `images_sequential` | pass | What failed or crashed commands may leave to later ones; what success means, and what removes an image |
| `launch` | pass | Does the start end; do ports stay in range, can they be bound and what is in the way otherwise, do rules and announced ports agree; does what the command line says reach the machine |
| `filemanager` | pass | Do commands take effect in order, do the plans keep the contract of the share, what disturbs a prompt; do waits end, does a cancel end the work |
| `serialconsole` | pass | Do status and host keys survive a channel that drops lines and is replaced; does setup end without blocking the guest |
| `vm_poweroff`, `runvm_interrupt`, `runvm_ephemeral`, `images_unverified` | violation | The findings of section 6 |

Deadlock is checked in the runs of `Images`, where a step is always possible. In
the others the system really stops: the Linsk process and QEMU, or every process,
have ended, the guest has stopped, or the share is served.

### Bounds

* `vm`: one caller outside of `vm.go`. Cancel has five contenders of its own, and
  after the first one a caller changes nothing; the two callers of the program
  are in the RunVM runs, any number of them in the proofs.
* `runvm_*`: `InterruptQueue = 1` (2 in the code), `ForceAfter = 1` (10 in the
  code). One place is enough to be full, and one interrupt enough to be before
  the panic. The commands of the safety
  run are `build` and `run`: `ls` does what `build` does and what `run` does before it
  serves, `shell` what `run` does without a prompt. The liveness run has `run` without a tap.
* `nettap_safety`: three runners, so that two can prune the tap of the third, and
  one clean.
* `images_*`: two builders, each of which builds again and again.
* `launch`: 13 port numbers, the search from 8 on, `PassiveCount = 2`. The FTP stride
  of 3 gives the candidates 8 and 11; the last one is refused by the overflow
  check, as 65530 is in the code. The ephemeral ports 9 and 11 lie among those the search
  looks at, so that the port for SSH may collide with those of the share. Other programs
  listen on any of the loopback ports 8 to 11, and on port 9 of another address or of all.
  The command lines (`SomeRequests`) are a plain one of every command and one or more for
  each thing the code looks at, every kind of address and several lists of
  `--forward-ports` among them. AFP has the rules of SMB but for the guest's port and is
  left to the proofs.
* `filemanager`: every command line (`Configs`) is checked. The longest plan has 23
  steps, no counter needs a bound, and the guest may hang.
* `serialconsole`: see `SerialConsole.cfg`. The channel has exactly the room that the
  key scan and the kernel messages need, which is the assumption under which no key
  is lost; other output exceeds it, so lines are dropped while nobody receives. In
  the code 32 slots meet a handful of keys and their comment lines.

No counter of the code is unbounded in a model.

### Fairness

`vm`, `runvm_liveness`, `runvm_interrupt`, `launch`, `filemanager` and
`serialconsole` state fairness.
The Go scheduler lets every goroutine that can run do so, timers fire, and
a signalled QEMU exits: weak fairness of each thread and of `QemuExits` after a
signal. One exception is `MayStayForever`: the login handler peeks into a buffer
that the serial reader takes lines from, so it may miss the prompt and stay in
its loop until the context is done. The guest, the host, the user and other
programs owe nothing: in `filemanager` neither the guest nor the user has any
fairness, in the RunVM runs `UserAnswers`, `ShellEnds` and `MainTimesOut` have none, in `serialconsole` only goroutines and timers have. Fairness is always of
the whole thread, never of one
outcome of it: a guest that could answer but does not is a fair behaviour.

## 4. Proofs

TLAPS proves the following for every value of the constants that the named
assumptions allow: any set of callers, with and without a device, with and
without guests that hang; any queue and any number of interrupts; any sets of
runners, cleaners and builders.

* **VM.** `IInv` has six parts. `RunInv`: how far Run has come determines
  whether QEMU is absent, alive or reaped, and no goroutine runs before it is
  started. `CancelInv`: only the winner of `canceled` is inside of Cancel, and
  `termination` and the context are as far as its steps. `RunCancelInv`: when Run
  won, QEMU had gone, so the kill failed and Run's result is an error; this is why
  a nil result implies that somebody else asked. `SetupInv` follows the login
  handler, `GuardInv` the mount checker. None of the properties is inductive by
  itself: `DeviceIsGuarded`, for one, needs that the context is canceled after the
  kill only. From `IInv` follow the safety properties of the run, and
  `Implements` shows that each action is a step of `VMContract` or a stutter. The
  contract's success implies `NilMeansStopped`, which is proved (`NilIsAskedFor`) and
  not checked again by a run.
  `ErrInv`, the sixth, is about the race for `err`. Only a login that failed because of the
  context sets it, and only the end of the wait clears it, so whoever wins, the VM has
  been stopped. `LockInv`, on top of `IInv`, is about the mutex of `globalErrFn`: it is
  held exactly from the call of Cancel to the append, some thread has won `canceled`
  by then, and the winner is inside of Cancel or has finished the context and the
  pipes. So nobody waits for the mutex who still has a shutdown to ask for. That the
  winner's dial to the guest ends is not part of it: it ends with the guest or with
  QEMU.
* **RunVM.** The lemma `ProgramIsAVM` transfers VM's theorems. `PInv` adds that `main` is past
  the select only when SSH is ready, that a Cancel by `main` which found nothing to
  signal came after QEMU's end, and that the runner moves after Run returned.
* **NetTap.** The invariant says that a process that has not saved its file has no
  tap, that whoever uses a tap has its file, and that what is listed for pruning
  belonged to processes that had ended when the PIDs were read. A process never
  comes back under its old tap name, so the age of the lists does no harm.
  `RegistryImplemented` takes each action to a step of `TapRegistry` or to a stutter,
  one lemma for the program's steps, the pruning and the environment each. It implies
  that used taps survive and that taps end with their owners; these are proved of
  their own (`UsedSurvive`, `EndWithOwners`) and not checked again.
* **Images.** `SequentialInv`: at most one command is active, and what it knows of
  the two files is still true; an image whose setup was cut short belongs to a build that
  is still at it or has failed. The theorems assume `~Concurrent`. They say of a build
  that ended well that the setup came to its end, not that its last writes are on the disk.
* **FileManager.** The invariants use nothing of the plan but its type, and so hold
  of any sequence of dials, checks, commands and closes. The inductive invariant for the order says that every
  command before `at` has taken effect, that a session about to return without an
  error ended with status zero, and that nothing after `at` was received. A timeout
  cannot break it, since a timeout can only turn a success into an error. For the
  prompt, that a session at its prompt has no timer yet, and that a connection is closed by
  the end of the context, by that of QEMU, or by a watcher, which belongs to a session
  already begun: a late one of an earlier session on the same connection is the case
  `PromptIsPatient` leaves.
  What the plans are comes in with the contract. `PlanKeepsNeeds` says that in the
  plan of every command line each effect comes after those it needs; `Parts` and
  `PartsJoin` cut a plan into the parts its functions contribute, so that a need is
  looked up part by part rather than at one of 23 positions. With the invariant for the
  order this gives `ShareImplemented`. `AnnouncedIsDone`, that an announced share is
  complete, is proved of its own and not checked again.
* **SerialConsole.** `SetupInv`: before the setup command was typed no line under way,
  in the pipe, the reader's hand or the channel, has status zero; after it, one
  has only if sshd is up. So it does not matter which channel a line goes to, nor what
  a reset drops. The type invariant, with the bounds of the pipe and the channel,
  comes first.
  `KeyInv`, in `KnownKeys_proofs`, takes the lines of channel, reader and pipe as one
  queue and counts its keys: collected plus under way are shown. A command is typed
  only when nothing but kernel messages is under way, so a line the reader
  still sends to a replaced channel is no key; and until the scan ends there are at
  most as many lines under way as keys and kernel messages printed, so each of
  interest is in front of the place where the full channel drops lines. That is
  where the assumption that the channel has room for them is needed.
* **Launch.** `PortInv`: candidates are `FirstPort` plus a multiple of the stride; one
  that passed the overflow check leaves room for its successors; the ports looked at
  so far are free as long as nobody interfered. The named assumption on the stride
  is what keeps the arithmetic from wrapping: a candidate whose last port is the
  last of all would be followed by port 0. It holds of 9000, 9 and 2^16, as
  a candidate's last port ends in the digit 9, and the last port of all in 5.
  `FoundPortsBind` follows for every set of sockets and either value of `WildcardExcludes`,
  since a listener in the way of QEMU that the probe did not see is one of the four
  exceptions `FoundIsBindable` names.
  `MachineConfigured` proves `MachineIsConfigured` for every command line, the two it
  leaves out excepted:
  `LaunchAssumption` says no more than that requests are members of `CommandLines`, the
  combinations of flags the commands accept. `CleanPath` says that a path `Refused`
  lets through is the one QEMU reads, `GroupedArgs` takes the arguments apart by kind,
  and `MachineOfRequest` joins what QEMU makes of each.

The invariants were first checked by TLC. What is only model-checked is liveness, since
TLAPS does not reason about fairness and `ENABLED` here: `SetupIsBounded`,
`QemuEndEndsRun`, `ShutdownEndsProgram`, `InterruptsAreTaken`, `LaunchEnds`, `WaitsEnd`,
`CancelEndsWork`, `GuestNeverStalls` and `SetupEnds`. Every other property of a passing
run is a theorem. `UseFollowsSetup`, `NilMeansStopped`, `UsedTapsSurvive`,
`TapsEndWithOwners` and `ShareIsComplete` are proved and not part of a run, the last four
because a refinement that is checked implies them.

## 5. Abstractions

* The second call of `Run` (`vm.disposed`) does not occur: `RunVM` calls it once.
* Log messages, wording of errors and contents of the console are left out. The
  error that Run returns is `err`, or `waitErr` when it comes from the check after
  the wait.
* The mount checker's kill and panic are one step, since nothing runs in between that
  the panic would not end as well. It is SIGKILL; the model lets QEMU take its time.
* The guest does not change its state after the Linsk process has ended.
* In `VM` and `RunVM` an SSH command is a step that succeeds, fails, or waits for a
  hung guest, and the commands of a command's function between two password prompts are
  one step of `RunVM`, which does not count the prompts. `FileManager` has them all.
* `FileManager`: the standard input of a command and its password are part of
  `GuestReceives`. The scp library bounds its session by itself. The output of a
  command matters only through its status. When the program fails, the deferred
  closes are part of `Abort`.
* `SerialConsole`: the guest takes a typed command as a whole, and the character-wise
  writing is left out. The polling of the login handler is a step that may come at any
  time.
* `QemuConfig`: arguments that depend on the platform alone are left out; a USB device
  has one number instead of two; `blank` stands for every character that shellescape
  quotes; drive IDs, made from the clock after a pause, are taken to be different.
* `qemu-img create`, the setup of the VM and its shutdown are each one step in `Images`,
  and any failure may happen before or after the effect. What the QEMU of a crashed build
  goes on to write is part of the crash. The EFI image uses the same download code as the base image.
* Removing the data directory removes any part of its files.
* `NetTap` is the Windows implementation; the others refuse to create a tap. A crash
  takes the process with its children: a `tapctl` that outlives its parent and finishes
  its work later is not followed.
* `SerialConsole`: the login message and the comment lines of `ssh-keyscan` are lines
  like any other output.
* `SharePorts`: addresses are those of IPv4, and each of the five kinds is one address.

## 6. Findings

Each has a run that shows it.

* `vm_poweroff`: Cancel signals QEMU right after the guest accepted `poweroff`;
  `gracefulOK` is never set (`vm/vm.go:342,362`). A build may so report success for an
  image without the guest's last writes (`imgbuilder/imgbuilder.go:141-153` syncs nothing),
  which `SuccessMeansSetUp` therefore does not deny.
* `runvm_interrupt`: an interrupt before `cmd.Start` uses up the only shutdown
  (`vm/vm.go:336,363`). Every later interrupt but the panic is without effect.
* `runvm_ephemeral`: RunVM returns without Cancel when `InitLVM` fails
  (`cmd/runvm/runvm.go:99`), and QEMU stays.
* `images_unverified`: `errors.Wrap(err, "file already exists")` of a nil error is
  nil (`storage/download.go:49`).

The models contain some more that deserves a look, without a run that refutes anything:

* The login handler assigns the `err` that Run checks after the wait (`vm/vm.go:270`).
  `LateErrorIsHarmless` says why no more than the wording of a result depends on it.
* The signal goroutine takes no interrupt while Cancel waits for a hung guest: the eleventh,
  which would panic, never gets its turn. `InterruptsAreTaken` names this case.
* A failed build leaves an unfinished image that the next run boots
  (`UnfinishedAfterFailure` says that only failed builds do); two builds at once may
  overwrite each other's image.
* An allocation file left empty by a crash makes every later listing fail until a
  clean; `ImplementsRegistry` accepts the empty file and says that nothing else ends it.
* `--vm-unrestricted-networking` is declared for every command (`cmd/root.go:72`), and
  `ls` ignores it (`cmd/ls.go:59`); `MachineIsConfigured` leaves that case out.
* The port search looks at 127.0.0.1 (`share/ports.go:54`), while QEMU binds the address of
  `--share-listen` (`share/ftp.go:43`, `smb.go:48`, `afp.go:43`): a port that is taken there
  alone ends the start, as does an address the host does not have; `FoundIsBindable`
  excepts both.
* Run reads `globalErrs` without its mutex (`vm/vm.go:326`): it may return nil for a VM
  that its own watchdog ended, and RunVM then reports a cancel by the user.
* The last port an FTP share forwards is never looked at (`share/ports.go:78`), which
  `FoundIsBindable` excepts; `pasv_max_port` is one too high, by which
  `PassivePortsAgree` says how much; the port for SSH may be one of the share's.
* The password prompt of a LUKS device is ended by the user only
  (`vm/filemanager.go:112-120`): neither an interrupt nor the death of QEMU ends the program
  there, and an interrupt that is in the channel when `signal.Reset` is called is never
  taken. `ShutdownEndsProgram`, `InterruptsAreTaken` and `CancelEndsWork`
  except it.
* The timer of a session that has just ended may still close the shared connection
  under the next command (`sshutil/ssh.go:101-107`): that command fails, which
  `EffectsInOrder` allows. With `--luks-container` and `--luks` it may close it while the
  user types the second password, which `PromptIsPatient` excepts.
* The handshake of `ssh.Dial` and `NewSession` have no timeout; only the end of QEMU
  ends them for a guest that hangs.
* `Peek` in the login handler races with `ReadBytes` in the serial reader, and a kernel
  message after the login prompt hides it; the watchdog ends such a boot.
* The non-zero branch of the key scan's status is never reached, as `&&` prints no
  status then; a failed scan ends at its deadline.
* `EncodeArg` quotes for a shell that is not there: QEMU refuses a path with a blank.
* USB identifiers beyond 16 bits name another device without an error
  (`cmd/utils.go:255`); `MachineIsConfigured` leaves them out.
* A block size such as 1536 passes the checks of `vm/cfg.go`, and QEMU refuses it.

## 7. Not modelled, and the plan

Parsers of user input (`vm/types.go`, `utils/validations.go`, `share/cfg.go`), device
queries of the operating systems, flags, constants and printed texts stay outside:
they have no state and no order of events matters to them, so that a model would say
again what they say. In `QemuConfig` the arguments of the platform are left out.

What would come next: `FileManager` in the place of
the one step `MainFn` of `RunVM`, with a refinement that shows that step to be an
abstraction of it; the EFI image as a third file of `Images`.
