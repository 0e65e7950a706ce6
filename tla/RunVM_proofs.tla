----------------------------- MODULE RunVM_proofs -----------------------------
(***************************************************************************)
(* Theorems about module RunVM: a Linsk command is a VM whose callers are  *)
(* the main and the signal goroutine, so every theorem of VM_proofs holds  *)
(* of it; and what it promises when it returns.                            *)
(***************************************************************************)
EXTENDS RunVM, VM_proofs

\* The control of RunVM never touches the VM but through Cancel and the end of
\* the process.
LEMMA ProgramStepIsVMStep == [ProgramNext]_allVars => [Next]_vars
  <1> SUFFICES ASSUME [ProgramNext]_allVars
               PROVE  [Next]_vars
    OBVIOUS
  <1> USE RunVMAssumption
  <1>1. CASE VMStep
    BY <1>1 DEF VMStep, Next
  <1>2. CASE alive /\ (Main \/ MainTimesOut)
    <2>1. \/ ProcessExits \/ UNCHANGED vars \/ CallCancel("main")
      BY Zenon, <1>2
      DEF Main, MainTimesOut, MainRunEnded, MainReady, MainInitLVM, MainTapNet, MainFn, MainServed,
          MainServe, MainCancel, MainCanceled, MainWait, Return, MainGoto, MainFinish
    <2> QED
      BY <2>1, <1>2 DEF Next
  <1>3. CASE alive /\ (Runner \/ Signal \/ User)
    <2>1. \/ ProcessExits \/ UNCHANGED vars \/ CallCancel("signal")
      BY Zenon, <1>3 DEF Runner, Signal, SignalTakes, SignalPanics, SignalStops, User,
                         Interrupt, ShellEnds, UserAnswers, MainServe, MainGoto, MainFinish
    <2> QED
      BY <2>1, <1>3 DEF Next
  <1>4. CASE UNCHANGED allVars
    BY <1>4 DEF allVars
  <1> QED
    BY <1>1, <1>2, <1>3, <1>4 DEF ProgramNext

\* Every behaviour of the program is a behaviour of module VM.
THEOREM ProgramIsAVM == ProgramSpec => Spec
  <1>1. ProgramInit => Init
    BY DEF ProgramInit
  <1> QED
    BY <1>1, ProgramStepIsVMStep, PTL DEF ProgramSpec, Spec

\* So VM's inductive invariant holds of the program.
THEOREM ProgramInductive == ProgramSpec => []IInv
  BY ProgramIsAVM, Inductive, PTL

-----------------------------------------------------------------------------
(***************************************************************************)
(* What the control of RunVM adds to the inductive invariant.              *)
(***************************************************************************)

\* main uses the VM after SSHUpNotifyChan only, and enters Cancel when it stops.
MainInv ==
    /\ main \in MainSteps
    /\ main \notin {"select", "lvmFailed", "returned"} => sshReady
    /\ pc["main"] \in CancelSteps => main = "stopping"

\* A Cancel of main that found nothing to signal came after QEMU's end.
MainCancelInv ==
    canceled = "main" /\ termination = "failed" => qemu \in {"exited", "reaped"}

\* The goroutine around VM.Run moves on after Run returned.
RunnerInv == runner # "running" => runResult # None

\* What is true of a program that returned.
ExitInv ==
    /\ exit # None => ~alive
    /\ ReturnLeavesNoQemu
    /\ exit = Success => runResult = "ok" /\ exitCode = Success

PInv == MainInv /\ MainCancelInv /\ RunnerInv /\ ExitInv

\* What a step inside of the VM may do to the program's part of the state.
LEMMA ThreadStepFacts ==
    ASSUME IInv, RunVMAssumption, NEW t \in Threads, ThreadStep(t),
           MainCancelInv, pc["main"] \in CancelSteps => qemu # "none"
    PROVE  /\ sshReady => sshReady'
           /\ runResult # None => UNCHANGED runResult
           /\ pc'["main"] \in CancelSteps => pc["main"] \in CancelSteps
           /\ MainCancelInv'
  <1> USE ThreadNames, AfterCancelIs
          DEF IInv, RunInv, CancelInv, TypeOK, FlagsOK, PcOK, QemuStates, MainCancelInv, Goto,
              CancelSteps, RunVMAssumption, None, envVars, shutdownVars, setupVars, errVars
  <1>1. CASE t # "mountChecker" /\ CancelStep(t)
    <2>1. CASE CancelKill(t)
      BY <1>1, <2>1 DEF CancelKill, QemuAlive
    <2>2. CASE CancelDial(t) \/ CancelPoweroff(t) \/ CancelCtx(t) \/ CancelClose(t)
      BY <1>1, <2>2 DEF CancelDial, CancelPoweroff, CancelCtx, CancelClose
    <2> QED
      BY <1>1, <2>1, <2>2 DEF CancelStep
  <1>2. CASE t = "run" /\ RunStart
    BY <1>2 DEF RunStart
  <1>3. CASE t = "run" /\ (RunStartFails \/ RunWait \/ RunCheckErr \/ RunCollect)
    BY <1>3 DEF RunStartFails, RunWait, Cancel, RunCheckErr, RunCollect
  <1>4. CASE t \in Reporters /\ ReportError(t)
    BY <1>4 DEF ReportError, LockErrs, AppendErrs, Cancel
  <1>5. CASE t \in Watchdogs /\ WatchdogSelect(t)
    BY <1>5 DEF WatchdogSelect
  <1>6. CASE t = "loginHandler" /\ LoginHandler
    BY <1>6 DEF LoginHandler, Login, CheckLogin, SSHSetup, Keyscan, SetSSHConf, CloseSSHReady
  <1>7. CASE t = "serialReader" /\ SerialRead
    BY <1>7 DEF SerialRead, Cancel
  <1>8. CASE t = "mountChecker" /\ MountChecker
    BY <1>8 DEF MountChecker, MountCheckerKills, MountCheckerStops, QemuAlive
  <1> QED
    BY <1>1, <1>2, <1>3, <1>4, <1>5, <1>6, <1>7, <1>8 DEF ThreadStep, Run

\* RunVM begins with the program's part of the invariant true.
LEMMA PInvInit == ProgramInit => PInv
  BY RunVMAssumption, ThreadNames
  DEF ProgramInit, Init, PInv, MainInv, MainSteps, MainCancelInv, RunnerInv, ExitInv,
      ReturnLeavesNoQemu, Success, None, Goroutines, CancelSteps

\* A step of the VM or of its environment.
LEMMA VMStepInv ==
    ASSUME IInv, PInv, VMStep
    PROVE  PInv'
  <1> USE RunVMAssumption, ThreadNames
          DEF PInv, MainInv, RunnerInv, ExitInv, ReturnLeavesNoQemu, programVars, mainVars,
              signalVars
  <1>1. ASSUME NEW t \in Threads, alive, ThreadStep(t), UNCHANGED programVars
        PROVE  PInv'
    <2>1. pc["main"] \in CancelSteps => qemu # "none"
      BY DEF IInv, RunInv, SetupInv, Goroutines
    <2>2. /\ sshReady => sshReady'
          /\ runResult # None => UNCHANGED runResult
          /\ pc'["main"] \in CancelSteps => pc["main"] \in CancelSteps
          /\ MainCancelInv'
      BY <1>1, <2>1, ThreadStepFacts
    <2>3. exit = None
      BY <1>1
    <2> QED
      BY <1>1, <2>2, <2>3 DEF None, Success
  <1>2. CASE Environment /\ UNCHANGED programVars
    BY <1>2 DEF Environment, GuestBoots, GuestHangs, QemuExits, HostMounts, QemuAlive,
                MainCancelInv, shutdownVars, setupVars
  <1> QED
    BY <1>1, <1>2 DEF VMStep

\* A step of the main goroutine, or of the user it waits for.
LEMMA MainStepInv ==
    ASSUME IInv, PInv, alive, Main \/ MainTimesOut \/ ShellEnds \/ UserAnswers
    PROVE  PInv'
  <1> USE RunVMAssumption, ThreadNames
          DEF IInv, RunInv, PInv, MainInv, MainSteps, MainCancelInv, RunnerInv, ExitInv,
              ReturnLeavesNoQemu, QemuAlive, MainGoto, MainFinish, Return, ProcessExits,
              Success, Failure, None, vars, signalVars, envVars, shutdownVars, setupVars, errVars
  <1>1. CASE MainRunEnded
    BY <1>1 DEF MainRunEnded, TypeOK
  <1>2. CASE MainReady
    BY <1>2 DEF MainReady
  <1>3. CASE MainInitLVM
    BY <1>3 DEF MainInitLVM
  <1>4. CASE MainTapNet
    BY <1>4 DEF MainTapNet
  <1>5. CASE MainFn
    BY <1>5 DEF MainFn
  <1>6. CASE MainServe
    BY <1>6 DEF MainServe
  <1>7. CASE MainCancel
    BY <1>7, AfterCancelIs DEF MainCancel, CallCancel, Cancel, Goto, CancelInv, TypeOK, PcOK
  <1>8. CASE MainCanceled
    BY <1>8 DEF MainCanceled, CancelFailed, CancelSteps
  <1>9. CASE MainWait
    BY <1>9 DEF MainWait, TypeOK
  <1>10. CASE MainTimesOut
    <2>1. CASE main = "initLVM" /\ Return("lvmFailed", Failure)
      BY <2>1
    <2>2. CASE main \in {"tapNet", "fn"} /\ MainFinish(Failure)
      BY <2>2
    <2> QED
      BY <1>10, <2>1, <2>2 DEF MainTimesOut
  <1>11. CASE UserAnswers
    BY <1>11 DEF UserAnswers
  <1> QED
    BY <1>1, <1>2, <1>3, <1>4, <1>5, <1>6, <1>7, <1>8, <1>9, <1>10, <1>11
    DEF Main, MainServed, ShellEnds

\* A step of the goroutine around VM.Run or of the signal goroutine, or an interrupt.
LEMMA SignalStepInv ==
    ASSUME IInv, PInv, alive, Runner \/ Signal \/ Interrupt
    PROVE  PInv'
  <1> USE RunVMAssumption, ThreadNames
          DEF IInv, RunInv, PInv, MainInv, MainCancelInv, RunnerInv, ExitInv, ReturnLeavesNoQemu,
              QemuAlive, None, vars, programVars, mainVars, signalVars, envVars, shutdownVars,
              setupVars, errVars
  <1>1. CASE Runner
    BY <1>1 DEF Runner
  <1>2. CASE SignalTakes
    BY <1>2, AfterCancelIs DEF SignalTakes, CallCancel, Cancel, Goto, CancelInv, TypeOK, PcOK
  <1>3. CASE SignalPanics \/ SignalStops \/ Interrupt
    BY <1>3 DEF SignalPanics, SignalStops, Interrupt, ProcessExits
  <1> QED
    BY <1>1, <1>2, <1>3 DEF Signal

\* Every step of the program keeps it.
LEMMA PInvNext == IInv /\ PInv /\ [ProgramNext]_allVars => PInv'
  <1> SUFFICES ASSUME IInv, PInv, [ProgramNext]_allVars
               PROVE  PInv'
    OBVIOUS
  <1>1. CASE UNCHANGED allVars
    BY <1>1 DEF allVars, vars, programVars, mainVars, signalVars, envVars, shutdownVars,
                setupVars, errVars, PInv, MainInv, MainCancelInv, RunnerInv, ExitInv,
                ReturnLeavesNoQemu, QemuAlive
  <1> QED
    BY <1>1, VMStepInv, MainStepInv, SignalStepInv DEF ProgramNext, User

\* The program's invariant, from which what a return means follows.
THEOREM ProgramInvariant == ProgramSpec => []PInv
  BY PInvInit, PInvNext, ProgramInductive, PTL DEF ProgramSpec

-----------------------------------------------------------------------------
(***************************************************************************)
(* The safety properties of the runs.                                      *)
(***************************************************************************)

\* Whenever RunVM returns, but after a failed InitLVM, QEMU is gone.
THEOREM ReturnIsClean == ProgramSpec => []ReturnLeavesNoQemu
  <1>1. PInv => ReturnLeavesNoQemu
    BY DEF PInv, ExitInv
  <1> QED
    BY <1>1, ProgramInvariant, PTL

\* Exit code 0 means that fn, the shutdown somebody asked for, and Run worked.
THEOREM SuccessIsTrue == ProgramSpec => []SuccessIsComplete
  <1>1. IInv /\ PInv => SuccessIsComplete
    BY DEF IInv, RunInv, RunCancelInv, PInv, ExitInv, SuccessIsComplete
  <1> QED
    BY <1>1, ProgramInductive, ProgramInvariant, PTL

\* The guest is used only after it was set up.
THEOREM UseIsSafe == ProgramSpec => []UseFollowsSetup
  <1>1. IInv /\ PInv => UseFollowsSetup
    BY DEF IInv, SetupInv, PInv, MainInv, UseFollowsSetup
  <1> QED
    BY <1>1, ProgramInductive, ProgramInvariant, PTL

=============================================================================
