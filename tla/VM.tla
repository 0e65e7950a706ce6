--------------------------------- MODULE VM ---------------------------------
(***************************************************************************)
(* The virtual machine object of src/vm/vm.go: one QEMU process, the       *)
(* goroutines VM.Run starts around it, and VM.Cancel, which any of them,   *)
(* or any caller, may enter at any time.                                   *)
(*                                                                         *)
(* Every goroutine is a thread with a program counter.  Cancel is a        *)
(* subroutine: the steps "dial" to "close" are the same for every thread   *)
(* and AfterCancel says where each one goes on.  QEMU, the guest, the host *)
(* form the environment.                                                   *)
(***************************************************************************)
EXTENDS Naturals, FiniteSets

CONSTANTS
    Callers,        \* threads outside vm.go that may call VM.Cancel
    Passthrough,    \* TRUE when a block device is passed to the guest
    GuestMayHang    \* TRUE when the guest may accept connections and not answer

Watchdogs == {"bootTimeout", "setupTimeout"}

\* The goroutines that report what goes wrong through globalErrFn.
Reporters == Watchdogs \cup {"loginHandler"}

Goroutines == Reporters \cup {"serialReader", "mountChecker"}

None == "none"

ASSUME VMAssumption ==
    /\ Callers \cap (Goroutines \cup {"run", None}) = {}
    /\ Passthrough \in BOOLEAN
    /\ GuestMayHang \in BOOLEAN

Threads == {"run"} \cup Goroutines \cup Callers

VARIABLES
    alive,        \* the Linsk process exists
    qemu,         \* the QEMU process
    guest,        \* how far the guest operating system has come
    hostMounted,  \* the passed-through device is mounted on the host
    canceled,     \* the thread that won the atomic vm.canceled, or None
    termination,  \* outcome of the kill step of Cancel
    ctxDone,      \* vm.ctx is canceled
    serialClosed, \* both serial pipes are closed
    sshConf,      \* vm.sshConf is set
    sshReady,     \* vm.sshReadyCh is closed
    bootReady,    \* bootReadyCh is closed
    err,          \* Run's variable err holds an error (shared with a goroutine)
    globalErrs,   \* the threads whose error is in globalErrs
    errsMu,       \* the holder of globalErrsMu, or None
    runResult,    \* what Run returned
    pc

shutdownVars == <<canceled, termination, ctxDone, serialClosed>>
setupVars == <<sshConf, sshReady, bootReady>>
errVars == <<err, globalErrs, errsMu>>
envVars == <<alive, qemu, guest, hostMounted>>
vars == <<envVars, shutdownVars, setupVars, errVars, runResult, pc>>

-----------------------------------------------------------------------------

QemuStates == {"none", "running", "termed", "exited", "reaped"}
GuestStates == {"off", "booting", "login", "shell", "sshd", "halting", "hung"}

\* The steps of Cancel after the atomic counter has let the thread through.
CancelSteps == {"dial", "poweroff", "kill", "ctx", "close"}

\* The steps a reporter takes with globalErrsMu held.
ErrsSection == CancelSteps \cup {"append"}

RunSteps == {"start", "wait", "checkErr", "collect", "done"} \cup CancelSteps
WatchdogSteps == {"off", "select", "lock", "done"} \cup ErrsSection
LoginSteps == {"off", "login", "checkLogin", "sshSetup", "keyscan", "setConf", "closeReady",
               "lock", "done"} \cup ErrsSection
ReaderSteps == {"off", "read", "done"} \cup CancelSteps
CheckerSteps == {"off", "poll", "done"}
CallerSteps == {"idle"} \cup CancelSteps

AllSteps == RunSteps \cup WatchdogSteps \cup LoginSteps \cup ReaderSteps \cup CheckerSteps
                \cup CallerSteps

PcOK ==
    /\ pc \in [Threads -> AllSteps]
    /\ pc["run"] \in RunSteps
    /\ \A t \in Watchdogs : pc[t] \in WatchdogSteps
    /\ pc["loginHandler"] \in LoginSteps
    /\ pc["serialReader"] \in ReaderSteps
    /\ pc["mountChecker"] \in CheckerSteps
    /\ \A c \in Callers : pc[c] \in CallerSteps

FlagsOK ==
    /\ alive \in BOOLEAN
    /\ hostMounted \in BOOLEAN
    /\ ctxDone \in BOOLEAN
    /\ serialClosed \in BOOLEAN
    /\ sshConf \in BOOLEAN
    /\ sshReady \in BOOLEAN
    /\ bootReady \in BOOLEAN
    /\ err \in BOOLEAN

TypeOK ==
    /\ FlagsOK
    /\ qemu \in QemuStates
    /\ guest \in GuestStates
    /\ canceled \in Threads \cup {None}
    /\ termination \in {"no", "sent", "failed"}
    /\ globalErrs \subseteq Reporters
    /\ errsMu \in Reporters \cup {None}
    /\ runResult \in {None, "ok", "err", "waitErr"}
    /\ PcOK

Init ==
    /\ alive = TRUE
    /\ qemu = "none"
    /\ guest = "off"
    /\ hostMounted = FALSE
    /\ canceled = None
    /\ termination = "no"
    /\ ctxDone = FALSE
    /\ serialClosed = FALSE
    /\ sshConf = FALSE
    /\ sshReady = FALSE
    /\ bootReady = FALSE
    /\ err = FALSE
    /\ globalErrs = {}
    /\ errsMu = None
    /\ runResult = None
    /\ pc = [t \in Threads |-> IF t = "run" THEN "start"
                               ELSE IF t \in Goroutines THEN "off" ELSE "idle"]

-----------------------------------------------------------------------------
(***************************************************************************)
(* VM.Cancel.                                                              *)
(***************************************************************************)

Goto(t, step) == pc' = [pc EXCEPT ![t] = step]

\* Mutant: the serial reader reports through globalErrFn.
AfterCancelReaderReports(t) ==
    IF t \in Reporters \cup {"serialReader"} THEN "append"
    ELSE IF t = "run" THEN "checkErr"
    ELSE "idle"

AfterCancel(t) ==
    IF t \in Reporters THEN "append"
    ELSE IF t = "run" THEN "checkErr"
    ELSE IF t = "serialReader" THEN "done"
    ELSE "idle"

\* Mutant: no atomic counter.
CancelUnguarded(t) == canceled' = t /\ Goto(t, "dial")

\* The call of Cancel: the atomic counter lets one thread through, the others
\* return nil at once.
Cancel(t) ==
    IF canceled = None
    THEN canceled' = t /\ Goto(t, "dial")
    ELSE UNCHANGED canceled /\ Goto(t, AfterCancel(t))

QemuAlive == qemu \in {"running", "termed"}

GuestAnswers == guest = "sshd" /\ QemuAlive

\* DialSSH, and the NewSession of RunSSHCmd.  Neither has a deadline once the
\* TCP connection to QEMU's forwarder stands, so both wait for a hung guest.
CancelDial(t) ==
    /\ pc[t] = "dial"
    /\ \/ ~sshConf /\ Goto(t, "kill")
       \/ sshConf /\ GuestAnswers /\ Goto(t, "poweroff")
       \/ sshConf /\ ~(guest = "hung" /\ QemuAlive) /\ Goto(t, "kill")
    /\ UNCHANGED <<envVars, shutdownVars, setupVars, errVars, runResult>>

\* Mutant: a guest that accepted poweroff is trusted to halt.
CancelPoweroffTrusts(t) ==
    /\ pc[t] = "poweroff"
    /\ \/ GuestAnswers /\ guest' = "halting" /\ Goto(t, "ctx")
       \/ UNCHANGED guest /\ Goto(t, "kill")
    /\ UNCHANGED <<alive, qemu, hostMounted, shutdownVars, setupVars, errVars,
                   runResult>>

\* RunSSHCmd("poweroff"): accepted, or refused, or timed out after 15 seconds.
CancelPoweroff(t) ==
    /\ pc[t] = "poweroff"
    /\ Goto(t, "kill")
    /\ \/ GuestAnswers /\ guest' = "halting"
       \/ UNCHANGED guest
    /\ UNCHANGED <<alive, qemu, hostMounted, shutdownVars, setupVars, errVars,
                   runResult>>

\* gracefulOK is never set: the process group is signalled in every case.  A
\* group whose leader is a zombie can still be signalled on some systems.
CancelKill(t) ==
    /\ pc[t] = "kill"
    /\ Goto(t, "ctx")
    /\ \/ /\ QemuAlive
          /\ qemu' = "termed"
          /\ termination' = "sent"
       \/ /\ qemu \in {"none", "exited", "reaped"}
          /\ termination' = "failed"
          /\ UNCHANGED qemu
       \/ /\ qemu = "exited"
          /\ termination' = "sent"
          /\ UNCHANGED qemu
    /\ UNCHANGED <<alive, guest, hostMounted, canceled, ctxDone, serialClosed,
                   setupVars, errVars, runResult>>

CancelCtx(t) ==
    /\ pc[t] = "ctx"
    /\ ctxDone' = TRUE
    /\ Goto(t, "close")
    /\ UNCHANGED <<envVars, canceled, termination, serialClosed, setupVars, errVars,
                   runResult>>

CancelClose(t) ==
    /\ pc[t] = "close"
    /\ serialClosed' = TRUE
    /\ Goto(t, AfterCancel(t))
    /\ UNCHANGED <<envVars, canceled, termination, ctxDone, setupVars, errVars, runResult>>

CancelStep(t) ==
    \/ CancelDial(t)
    \/ CancelPoweroff(t)
    \/ CancelKill(t)
    \/ CancelCtx(t)
    \/ CancelClose(t)

\* The error Cancel returned to the thread that ran its body.
CancelFailed(t) == canceled = t /\ termination = "failed"

-----------------------------------------------------------------------------
(***************************************************************************)
(* VM.Run and the goroutines it starts.                                    *)
(***************************************************************************)

\* Where the goroutines of Run begin, and Run goes on.
FirstStep ==
    [run |-> "wait", bootTimeout |-> "select", setupTimeout |-> "select",
     loginHandler |-> "login", serialReader |-> "read",
     mountChecker |-> IF Passthrough THEN "poll" ELSE "done"]

\* cmd.Start succeeded and every goroutine is on its way.
RunStart ==
    /\ pc["run"] = "start"
    /\ qemu' = "running"
    /\ guest' = "booting"
    /\ pc' = [t \in Threads |-> IF t \in Callers THEN pc[t] ELSE FirstStep[t]]
    /\ UNCHANGED <<alive, hostMounted, shutdownVars, setupVars, errVars, runResult>>

\* cmd.Start failed: Run returns without Cancel.
RunStartFails ==
    /\ pc["run"] = "start"
    /\ runResult' = "err"
    /\ Goto("run", "done")
    /\ UNCHANGED <<envVars, shutdownVars, setupVars, errVars>>

\* Mutant: Run does not wait for the process.
RunWaitNot ==
    /\ pc["run"] = "wait"
    /\ err' = FALSE
    /\ Cancel("run")
    /\ UNCHANGED <<envVars, termination, ctxDone, serialClosed, setupVars, globalErrs,
                   errsMu, runResult>>

\* Mutant: Run joins the serial reader before it calls Cancel.
RunWaitJoins ==
    /\ pc["run"] = "wait"
    /\ pc["serialReader"] = "done"
    /\ qemu = "exited"
    /\ qemu' = "reaped"
    /\ err' = FALSE
    /\ Cancel("run")
    /\ UNCHANGED <<alive, guest, hostMounted, termination, ctxDone, serialClosed,
                   setupVars, globalErrs, errsMu, runResult>>

\* Process.Wait reaps QEMU, whatever its exit status, assigns err, and Run calls
\* Cancel.
RunWait ==
    /\ pc["run"] = "wait"
    /\ qemu = "exited"
    /\ qemu' = "reaped"
    /\ err' = FALSE
    /\ Cancel("run")
    /\ UNCHANGED <<alive, guest, hostMounted, termination, ctxDone, serialClosed,
                   setupVars, globalErrs, errsMu, runResult>>

\* err is read again here, without synchronisation with the login handler.
RunCheckErr ==
    /\ pc["run"] = "checkErr"
    /\ IF err
       THEN runResult' = "waitErr" /\ Goto("run", "done")
       ELSE UNCHANGED runResult /\ Goto("run", "collect")
    /\ UNCHANGED <<envVars, shutdownVars, setupVars, errVars>>

\* globalErrs is read without globalErrsMu.
RunCollect ==
    /\ pc["run"] = "collect"
    /\ runResult' = IF globalErrs = {} /\ ~CancelFailed("run") THEN "ok" ELSE "err"
    /\ Goto("run", "done")
    /\ UNCHANGED <<envVars, shutdownVars, setupVars, errVars>>

Run == RunStart \/ RunStartFails \/ RunWait \/ RunCheckErr \/ RunCollect

-----------------------------------------------------------------------------

\* globalErrFn takes globalErrsMu, calls Cancel with it held, appends, unlocks.
LockErrs(t) ==
    /\ pc[t] = "lock"
    /\ errsMu = None
    /\ errsMu' = t
    /\ Cancel(t)
    /\ UNCHANGED <<envVars, termination, ctxDone, serialClosed, setupVars, err, globalErrs,
                   runResult>>

\* Mutant: the mutex is not unlocked.
AppendErrsLocked(t) ==
    /\ pc[t] = "append"
    /\ globalErrs' = globalErrs \cup {t}
    /\ Goto(t, "done")
    /\ UNCHANGED <<envVars, shutdownVars, setupVars, err, errsMu, runResult>>

AppendErrs(t) ==
    /\ pc[t] = "append"
    /\ globalErrs' = globalErrs \cup {t}
    /\ errsMu' = None
    /\ Goto(t, "done")
    /\ UNCHANGED <<envVars, shutdownVars, setupVars, err, runResult>>

ReportError(t) == LockErrs(t) \/ AppendErrs(t)

StandDown(t) == IF t = "bootTimeout" THEN bootReady ELSE sshReady

\* Mutant: there is no timer.
WatchdogNeverFires(t) ==
    /\ pc[t] = "select"
    /\ StandDown(t)
    /\ Goto(t, "done")
    /\ UNCHANGED <<envVars, shutdownVars, setupVars, errVars, runResult>>

\* The timer of the select may fire at any moment, before the channel is closed
\* or after: a goroutine that is late finds both ready and takes either.  No
\* order of the two deadlines can be relied on between the two goroutines.
WatchdogSelect(t) ==
    /\ pc[t] = "select"
    /\ \/ Goto(t, "lock")
       \/ StandDown(t) /\ Goto(t, "done")
    /\ UNCHANGED <<envVars, shutdownVars, setupVars, errVars, runResult>>

\* ReadBytes ends only when Cancel closes the pipe: nobody closes its other end.
SerialRead ==
    /\ pc["serialReader"] = "read"
    /\ serialClosed
    /\ Cancel("serialReader")
    /\ UNCHANGED <<envVars, termination, ctxDone, serialClosed, setupVars, errVars, runResult>>

\* runVMLoginHandler; its result goes to the variable err of Run.  The prompt of
\* a guest that has hung since is still in the buffer the handler peeks into.
Login ==
    /\ pc["loginHandler"] = "login"
    /\ Goto("loginHandler", "checkLogin")
    /\ \/ /\ guest \in {"login", "hung"} /\ QemuAlive /\ ~serialClosed
          /\ guest' = IF guest = "login" THEN "shell" ELSE guest
          /\ err' = FALSE
       \/ /\ ctxDone
          /\ err' = TRUE
          /\ UNCHANGED guest
    /\ UNCHANGED <<alive, qemu, hostMounted, shutdownVars, setupVars, globalErrs,
                   errsMu, runResult>>

CheckLogin ==
    /\ pc["loginHandler"] = "checkLogin"
    /\ IF err
       THEN UNCHANGED bootReady /\ Goto("loginHandler", "lock")
       ELSE bootReady' = TRUE /\ Goto("loginHandler", "sshSetup")
    /\ UNCHANGED <<envVars, shutdownVars, sshConf, sshReady, errVars, runResult>>

\* Mutant: the error of the setup goes to the variable err of Run too.
SSHSetupSharesErr ==
    /\ pc["loginHandler"] = "sshSetup"
    /\ \/ /\ guest = "shell" /\ QemuAlive /\ ~serialClosed
          /\ guest' = "sshd"
          /\ err' = FALSE
          /\ Goto("loginHandler", "keyscan")
       \/ Goto("loginHandler", "lock") /\ err' = TRUE /\ UNCHANGED guest
    /\ UNCHANGED <<alive, qemu, hostMounted, shutdownVars, setupVars, globalErrs, errsMu,
                   runResult>>

\* The setup command, typed into the serial console.  It fails when the context
\* is done, the console is closed, the guest reports it or 30 seconds pass.
SSHSetup ==
    /\ pc["loginHandler"] = "sshSetup"
    /\ \/ /\ guest = "shell" /\ QemuAlive /\ ~serialClosed
          /\ guest' = "sshd"
          /\ Goto("loginHandler", "keyscan")
       \/ Goto("loginHandler", "lock") /\ UNCHANGED guest
    /\ UNCHANGED <<alive, qemu, hostMounted, shutdownVars, setupVars, errVars,
                   runResult>>

\* Mutant: the channel is closed before the configuration is stored.
KeyscanReadyFirst ==
    /\ pc["loginHandler"] = "keyscan"
    /\ \/ GuestAnswers /\ ~serialClosed /\ Goto("loginHandler", "closeReady")
       \/ Goto("loginHandler", "lock")
    /\ UNCHANGED <<envVars, shutdownVars, setupVars, errVars, runResult>>

\* scanSSHIdentity and ParseSSHKeyScan.
Keyscan ==
    /\ pc["loginHandler"] = "keyscan"
    /\ \/ GuestAnswers /\ ~serialClosed /\ Goto("loginHandler", "setConf")
       \/ Goto("loginHandler", "lock")
    /\ UNCHANGED <<envVars, shutdownVars, setupVars, errVars, runResult>>

SetSSHConf ==
    /\ pc["loginHandler"] = "setConf"
    /\ sshConf' = TRUE
    /\ Goto("loginHandler", "closeReady")
    /\ UNCHANGED <<envVars, shutdownVars, sshReady, bootReady, errVars, runResult>>

CloseSSHReady ==
    /\ pc["loginHandler"] = "closeReady"
    /\ sshReady' = TRUE
    /\ Goto("loginHandler", "done")
    /\ UNCHANGED <<envVars, shutdownVars, sshConf, bootReady, errVars, runResult>>

LoginHandler ==
    Login \/ CheckLogin \/ SSHSetup \/ Keyscan \/ SetSSHConf \/ CloseSSHReady

\* A check that finds the device mounted kills QEMU and panics.  A check that
\* finds nothing, or fails, is followed by another one a second later.
MountCheckerKills ==
    /\ pc["mountChecker"] = "poll"
    /\ hostMounted
    /\ qemu' = IF QemuAlive THEN "termed" ELSE qemu
    /\ alive' = FALSE
    /\ UNCHANGED <<guest, hostMounted, shutdownVars, setupVars, errVars, runResult, pc>>

\* Mutant: a check that fails ends the checker.
MountCheckerTires ==
    /\ pc["mountChecker"] = "poll"
    /\ Goto("mountChecker", "done")
    /\ UNCHANGED <<envVars, shutdownVars, setupVars, errVars, runResult>>

MountCheckerStops ==
    /\ pc["mountChecker"] = "poll"
    /\ ctxDone
    /\ Goto("mountChecker", "done")
    /\ UNCHANGED <<envVars, shutdownVars, setupVars, errVars, runResult>>

MountChecker == MountCheckerKills \/ MountCheckerStops

ThreadStep(t) ==
    \/ t \notin {"mountChecker"} /\ CancelStep(t)
    \/ t = "run" /\ Run
    \/ t \in Reporters /\ ReportError(t)
    \/ t \in Watchdogs /\ WatchdogSelect(t)
    \/ t = "loginHandler" /\ LoginHandler
    \/ t = "serialReader" /\ SerialRead
    \/ t = "mountChecker" /\ MountChecker

\* A caller outside vm.go calls Cancel.
CallCancel(c) ==
    /\ pc[c] = "idle"
    /\ Cancel(c)
    /\ UNCHANGED <<envVars, termination, ctxDone, serialClosed, setupVars, errVars, runResult>>

-----------------------------------------------------------------------------
(***************************************************************************)
(* The environment.  Once the Linsk process has ended, nobody is left to   *)
(* observe more of it than whether QEMU is still there.                    *)
(***************************************************************************)

GuestBoots ==
    /\ alive /\ guest = "booting" /\ QemuAlive
    /\ guest' = "login"
    /\ UNCHANGED <<alive, qemu, hostMounted, shutdownVars, setupVars, errVars,
                   runResult, pc>>

GuestHangs ==
    /\ alive /\ GuestMayHang
    /\ guest \notin {"off", "hung"} /\ QemuAlive
    /\ guest' = "hung"
    /\ UNCHANGED <<alive, qemu, hostMounted, shutdownVars, setupVars, errVars,
                   runResult, pc>>

\* QEMU obeys the signal, follows the guest's power off, or crashes.
QemuExits ==
    /\ QemuAlive
    /\ qemu' = "exited"
    /\ guest' = "off"
    /\ UNCHANGED <<alive, hostMounted, shutdownVars, setupVars, errVars, runResult, pc>>

HostMounts ==
    /\ alive /\ Passthrough /\ ~hostMounted
    /\ hostMounted' = TRUE
    /\ UNCHANGED <<alive, qemu, guest, shutdownVars, setupVars, errVars, runResult, pc>>

\* The Linsk process ends: it crashes, or whoever uses the VM exits.
ProcessExits ==
    /\ alive
    /\ alive' = FALSE
    /\ UNCHANGED <<qemu, guest, hostMounted, shutdownVars, setupVars, errVars,
                   runResult, pc>>

Environment == GuestBoots \/ GuestHangs \/ QemuExits \/ HostMounts

Next ==
    \/ alive /\ \E t \in Threads : ThreadStep(t)
    \/ alive /\ \E c \in Callers : CallCancel(c)
    \/ Environment
    \/ ProcessExits

Spec == Init /\ [][Next]_vars

\* Peek may block on a prompt the serial reader has just taken from the buffer,
\* so the login handler need not get past it before the context is done.
MayStayForever(t) == t = "loginHandler" /\ pc[t] = "login" /\ ~ctxDone

\* The Go scheduler runs every goroutine that can run, timers fire, and a QEMU
\* that was told to terminate does so.  Guests, hosts and callers owe nothing.
Fairness ==
    /\ \A t \in Threads : WF_vars(alive /\ ~MayStayForever(t) /\ ThreadStep(t))
    /\ WF_vars(qemu = "termed" /\ QemuExits)

FairSpec == Spec /\ Fairness

-----------------------------------------------------------------------------
(***************************************************************************)
(* Properties.                                                             *)
(***************************************************************************)

\* One thread at most runs the body of Cancel, and it is the thread that won
\* vm.canceled: QEMU is never signalled, nor a pipe closed, by two shutdowns.
ShutdownRunsOnce ==
    \A t \in Threads : pc[t] \in CancelSteps => canceled = t

\* Cancel ran before cmd.Start: "process is not started".
EarlyCancel == termination = "failed" /\ qemu = "running"

\* While QEMU holds a passed-through device and nobody has signalled it, the
\* mount checker watches the host, or Cancel came before the process started.
DeviceIsGuarded ==
    alive /\ Passthrough /\ qemu = "running"
        => pc["mountChecker"] = "poll" \/ EarlyCancel

\* The context the guest's users wait on is canceled only after QEMU has been
\* signalled, has gone, or was not there yet: no user takes a live VM for dead.
ContextOutlivesQemu ==
    ctxDone /\ qemu = "running" => EarlyCancel

\* Run returns nil only after QEMU is reaped, and only when another thread than
\* Run itself asked for the end: a QEMU that dies by itself is an error.
NilMeansStopped ==
    runResult = "ok" => qemu = "reaped" /\ canceled \notin {None, "run"}

\* SSHUpNotifyChan is closed only when SSH can be dialled, the boot watchdog
\* has been told to stand down, and the guest has been set up.
ReadyMeansSetUp ==
    sshReady => sshConf /\ bootReady /\ guest \notin {"booting", "login", "shell"}

\* The race for the variable err, which the login handler shares with Run, spoils no more
\* than the wording of a result.  A login error that Run takes for one of Process.Wait
\* belongs to a VM that has stopped and never logged in; one that Process.Wait overwrites
\* makes the boot watchdog stand down only when there is no QEMU to watch any more.
LateErrorIsHarmless ==
    /\ runResult = "waitErr" => qemu = "reaped" /\ ctxDone /\ ~bootReady
    /\ bootReady /\ QemuAlive => guest \notin {"booting", "login"}

\* Cancel is called with globalErrsMu held and may wait for a guest, or for the kernel.
\* Whoever holds the mutex is on its way to give it back, and whoever waits for it has
\* nothing left to ask for: a shutdown is under way or complete.
LockServesShutdown ==
    /\ \A t \in Reporters : errsMu = t <=> pc[t] \in ErrsSection
    /\ errsMu # None => canceled # None
    /\ canceled # None => pc[canceled] \in CancelSteps \/ (ctxDone /\ serialClosed)

\* A boot or setup that takes too long ends the VM: nobody waits forever for
\* SSHUpNotifyChan while QEMU runs and no Cancel is on its way.
SetupIsBounded ==
    qemu = "running" ~> (sshReady \/ canceled # None \/ qemu # "running" \/ ~alive)

\* A Cancel that reaches QEMU, and a QEMU that exits, end Run.
QemuEndEndsRun ==
    (termination = "sent" \/ qemu = "exited") ~> (pc["run"] = "done" \/ ~alive)

-----------------------------------------------------------------------------
(***************************************************************************)
(* What the code says of itself and does not keep.                         *)
(***************************************************************************)

\* "Shutting the VM down safely": a guest that accepted poweroff is given the
\* time to halt before anything else is done to QEMU.
PoweroffIsGraceful ==
    [][guest = "halting" /\ qemu = "running" => qemu' # "termed"]_vars

-----------------------------------------------------------------------------
(***************************************************************************)
(* The VM implements its contract.                                         *)
(***************************************************************************)

contractProcess ==
    IF qemu = "none" THEN "absent"
    ELSE IF qemu = "exited" THEN "zombie"
    ELSE IF qemu = "reaped" THEN "reaped"
    ELSE "up"

contractOutcome ==
    IF runResult = None THEN "none"
    ELSE IF runResult = "ok" THEN "success"
    ELSE "error"

Contract == INSTANCE VMContract WITH
    process <- contractProcess,
    stopAsked <- canceled \notin {None, "run"},
    ready <- sshReady,
    outcome <- contractOutcome

\* Run and Cancel implement the contract of a virtual machine.
ImplementsContract == Contract!Spec

=============================================================================
