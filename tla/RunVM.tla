-------------------------------- MODULE RunVM --------------------------------
(***************************************************************************)
(* runvm.RunVM: the main goroutine, the goroutine around VM.Run and the    *)
(* signal goroutine that make one Linsk command out of a virtual machine.  *)
(*                                                                         *)
(* The module adds their control to module VM.  "main" and "signal" are    *)
(* VM's Callers: they enter Cancel through CallCancel and VM's own steps   *)
(* take them through it.                                                   *)
(***************************************************************************)
EXTENDS VM

CONSTANTS
    Commands,       \* the commands considered: subsets of AllCommands
    WithTap,        \* TRUE when the command configures a network tap
    InterruptQueue, \* capacity of the channel signal.Notify sends to (2 in the code)
    ForceAfter      \* interrupts taken before the next one panics (10 in the code)

AllCommands == {"build", "ls", "shell", "run"}

\* Exit codes 0 and 1.
Success == "success"
Failure == "failure"

ASSUME RunVMAssumption ==
    /\ Callers = {"main", "signal"}
    /\ Commands \subseteq AllCommands
    /\ WithTap \in BOOLEAN
    /\ InterruptQueue \in Nat \ {0}
    /\ ForceAfter \in Nat \ {0}

VARIABLES
    command,     \* the command line's command
    main,        \* where RunVM is
    exitCode,    \* what fn returned, or startupFailed
    exit,        \* the program's exit code; None after a panic or a signal too
    runner,      \* the goroutine around VM.Run
    pending,     \* interrupts in the channel
    handled,     \* i of the signal goroutine's loop
    signalReset  \* signal.Reset was called: an interrupt kills the process

mainVars == <<command, main, exitCode, exit>>
signalVars == <<pending, handled, signalReset>>
programVars == <<mainVars, runner, signalVars>>
allVars == <<vars, programVars>>

MainSteps == {"select", "initLVM", "tapNet", "fn", "prompt", "serve", "stop", "stopping", "wg",
              "lvmFailed", "returned"}

ProgramInit ==
    /\ Init
    /\ command \in Commands
    /\ main = "select"
    /\ exitCode = Success
    /\ exit = None
    /\ runner = "running"
    /\ pending = 0
    /\ handled = 0
    /\ signalReset = FALSE

-----------------------------------------------------------------------------
(***************************************************************************)
(* The main goroutine.                                                     *)
(***************************************************************************)

\* RunVM returns at "step" and the command passes the code to os.Exit.
Return(step, code) ==
    /\ ProcessExits
    /\ main' = step
    /\ exit' = code
    /\ UNCHANGED <<command, exitCode, runner, signalVars>>

MainGoto(step) ==
    /\ main' = step
    /\ UNCHANGED <<vars, command, exitCode, exit, runner, signalVars>>

\* A command sent over SSH.  It fails in many ways; with a guest that accepts the
\* connection and hangs it may fail too (MainTimesOut), or wait for ever.
SSHSucceeds == sshConf /\ GuestAnswers
SSHFails == ~(guest = "hung" /\ QemuAlive)

\* runErrCh: whether Run failed or returned nil, the program ends with 1.
MainRunEnded ==
    /\ main = "select"
    /\ runner = "sent"
    /\ Return("returned", Failure)

UsesFileManager == command # "build"

MainReady ==
    /\ main = "select"
    /\ sshReady
    /\ MainGoto(IF UsesFileManager THEN "initLVM" ELSE "fn")

\* InitLVM.  Its failure returns without Cancel.
MainInitLVM ==
    /\ main = "initLVM"
    /\ \/ SSHSucceeds /\ MainGoto(IF WithTap THEN "tapNet" ELSE "fn")
       \/ SSHFails /\ Return("lvmFailed", Failure)

\* fn, or startupFailed, leaves the exit code for after Cancel.
MainFinish(code) ==
    /\ main' = "stop"
    /\ exitCode' = code
    /\ UNCHANGED <<vars, command, exit, runner, signalVars>>

MainTapNet ==
    /\ main = "tapNet"
    /\ \/ SSHSucceeds /\ MainGoto("fn")
       \/ SSHFails /\ MainFinish(Failure)

\* --luks-container of "run" and "ls", and --luks of "run", ask for a password each.
\* How often fn has asked is not counted: nothing the VM does depends on it.
MayPrompt == command \in {"run", "ls"}

\* What fn does over SSH until it needs the user: for a LUKS password, then, in
\* "run" and "shell", for as long as the share or the shell is used.
MainFn ==
    /\ main = "fn"
    /\ \/ SSHFails /\ MainFinish(Failure)
       \/ /\ SSHSucceeds
          /\ \/ MayPrompt /\ MainGoto("prompt")
             \/ command \in {"run", "shell"} /\ MainGoto("serve")
             \/ command \in {"build", "ls"} /\ MainFinish(Success)

\* The session's timeout gives a hung guest up.  DialSSH and NewSession have none.
MainTimesOut ==
    /\ guest = "hung" /\ QemuAlive
    /\ \/ main = "initLVM" /\ Return("lvmFailed", Failure)
       \/ main \in {"tapNet", "fn"} /\ MainFinish(Failure)

\* "run" waits for the context of RunVM, "shell" (and the debug shell of "run")
\* for it or for the end of the SSH session.
MainServe ==
    /\ main = "serve"
    /\ MainFinish(Success)

MainServed == MainServe /\ runner # "running"

MainCancel ==
    /\ main = "stop"
    /\ CallCancel("main")
    /\ main' = "stopping"
    /\ UNCHANGED <<command, exitCode, exit, runner, signalVars>>

MainCanceled ==
    /\ main = "stopping"
    /\ pc["main"] = "idle"
    /\ IF CancelFailed("main") THEN Return("returned", Failure) ELSE MainGoto("wg")

\* Mutant: RunVM does not wait for the goroutine around VM.Run.
MainWaitNot ==
    /\ main = "wg"
    /\ Return("returned", IF runResult = "ok" THEN exitCode ELSE Failure)

\* Mutant: the result of VM.Run is not looked at.
MainWaitIgnoresRun ==
    /\ main = "wg"
    /\ runner = "sent"
    /\ Return("returned", exitCode)

\* wg.Wait, then the error of Run takes precedence over fn's code.
MainWait ==
    /\ main = "wg"
    /\ runner = "sent"
    /\ Return("returned", IF runResult = "ok" THEN exitCode ELSE Failure)

Main ==
    \/ MainRunEnded \/ MainReady \/ MainInitLVM \/ MainTapNet \/ MainFn \/ MainServed
    \/ MainCancel \/ MainCanceled \/ MainWait

-----------------------------------------------------------------------------
(***************************************************************************)
(* The goroutine around VM.Run and the signal goroutine.                   *)
(***************************************************************************)

\* Mutant: runErrCh has no buffer.
RunnerUnbuffered ==
    /\ \/ runResult # None /\ runner = "running" /\ runner' = "ctxCanceled"
       \/ runner = "ctxCanceled" /\ main = "select" /\ runner' = "sent"
    /\ UNCHANGED <<vars, mainVars, signalVars>>

Runner ==
    /\ \/ runResult # None /\ runner = "running" /\ runner' = "ctxCanceled"
       \/ runner = "ctxCanceled" /\ runner' = "sent"
    /\ UNCHANGED <<vars, mainVars, signalVars>>

SignalTakes ==
    /\ ~signalReset /\ pending > 0
    /\ handled < ForceAfter
    /\ CallCancel("signal")
    /\ pending' = pending - 1
    /\ handled' = handled + 1
    /\ UNCHANGED <<mainVars, runner, signalReset>>

\* Mutant: one interrupt is neither handled nor forces the end.
SignalPanicsLater ==
    /\ ~signalReset /\ pending > 0
    /\ handled > ForceAfter
    /\ pc["signal"] = "idle"
    /\ ProcessExits
    /\ UNCHANGED programVars

SignalPanics ==
    /\ ~signalReset /\ pending > 0
    /\ handled = ForceAfter
    /\ pc["signal"] = "idle"
    /\ ProcessExits
    /\ UNCHANGED programVars

SignalStops ==
    /\ ~signalReset /\ runner # "running"
    /\ pc["signal"] = "idle"
    /\ signalReset' = TRUE
    /\ UNCHANGED <<vars, mainVars, runner, pending, handled>>

Signal == SignalTakes \/ SignalPanics \/ SignalStops

\* The user interrupts: queued, dropped when the channel is full, or fatal.
Interrupt ==
    \/ /\ ~signalReset /\ pending < InterruptQueue
       /\ pending' = pending + 1
       /\ UNCHANGED <<vars, mainVars, runner, handled, signalReset>>
    \/ /\ signalReset
       /\ ProcessExits
       /\ UNCHANGED programVars

\* The user leaves the shell.
ShellEnds == MainServe

\* The user enters a password, or none can be read.  Nothing but the user ends
\* term.ReadPassword: it knows no context, no timeout and no VM.
UserAnswers ==
    /\ main = "prompt"
    /\ MainGoto("fn") \/ MainFinish(Failure)

User == Interrupt \/ ShellEnds \/ UserAnswers

-----------------------------------------------------------------------------

VMStep ==
    /\ \/ alive /\ \E t \in Threads : ThreadStep(t)
       \/ Environment
    /\ UNCHANGED programVars

ProgramNext ==
    \/ VMStep
    \/ alive /\ (Main \/ MainTimesOut \/ Runner \/ Signal \/ User)

ProgramSpec == ProgramInit /\ [][ProgramNext]_allVars

\* The program's goroutines run.  The user owes nothing, at a prompt neither.
ProgramFairness ==
    /\ \A t \in Threads :
           WF_allVars(alive /\ ~MayStayForever(t) /\ UNCHANGED programVars /\ ThreadStep(t))
    /\ WF_allVars(qemu = "termed" /\ QemuExits /\ UNCHANGED programVars)
    /\ WF_allVars(alive /\ Main)
    /\ WF_allVars(alive /\ Runner)
    /\ WF_allVars(alive /\ Signal)

FairProgramSpec == ProgramSpec /\ ProgramFairness

-----------------------------------------------------------------------------
(***************************************************************************)
(* Properties.                                                             *)
(***************************************************************************)

\* A program that returned leaves no QEMU behind, unless InitLVM failed.
ReturnLeavesNoQemu ==
    exit # None /\ main # "lvmFailed" => ~QemuAlive

\* Exit code 0 means all of it worked: the command's function, VM.Run and the
\* shutdown, which somebody asked for; a VM that died under a share is an error.
SuccessIsComplete ==
    exit = Success => /\ runResult = "ok"
                /\ exitCode = Success
                /\ qemu = "reaped"
                /\ canceled \notin {None, "run"}

\* The function that uses the guest is called only once the guest is set up.
UseFollowsSetup ==
    main \in {"initLVM", "tapNet", "fn", "prompt", "serve"} => sshConf /\ bootReady

\* Once QEMU has been signalled, or has died by itself, the program ends, whatever
\* its goroutines wait for, unless it asks for a LUKS password that never comes.
ShutdownEndsProgram ==
    (termination = "sent" \/ qemu = "exited") ~> (~alive \/ [](main = "prompt"))

\* The shutdown of the signal goroutine waits, dialling, for a guest that has hung.
SignalHangs == pc["signal"] = "dial" /\ guest = "hung" /\ QemuAlive

\* Every interrupt in the channel is taken, or the program ends.  Two things keep
\* the user waiting: a first interrupt whose shutdown a hung guest never answers, so
\* that no later one can force the end, and a password prompt that outlives the VM,
\* with nobody at the channel any more.
InterruptsAreTaken ==
    pending > 0 ~> (pending = 0 \/ ~alive \/ []SignalHangs \/ [](main = "prompt"))

\* An interrupt the signal goroutine has taken ends the program.
InterruptEndsProgram ==
    handled > 0 ~> ~alive

\* A program that returned leaves no QEMU behind.
VMIsEphemeral ==
    exit # None => ~QemuAlive

=============================================================================
