------------------------------ MODULE VM_proofs ------------------------------
(***************************************************************************)
(* Theorems about module VM, for every set of callers, with and without a  *)
(* passed-through device and whether or not guests hang.                   *)
(***************************************************************************)
EXTENDS VM, TLAPS

\* The threads of vm.go are threads, and Callers are none of them.
LEMMA ThreadNames ==
    /\ Threads = {"run", "bootTimeout", "setupTimeout", "loginHandler", "serialReader",
                  "mountChecker"} \cup Callers
    /\ Watchdogs = {"bootTimeout", "setupTimeout"}
    /\ Reporters = {"bootTimeout", "setupTimeout", "loginHandler"}
    /\ \A c \in Callers : c \notin {"run", "bootTimeout", "setupTimeout", "loginHandler",
                                    "serialReader", "mountChecker", None}
    /\ None \notin Threads
  BY VMAssumption DEF Threads, Goroutines, Reporters, Watchdogs, None

\* Where threads go on after Cancel, none of them inside of it.
LEMMA AfterCancelIs ==
    /\ \A t \in Reporters : AfterCancel(t) = "append"
    /\ AfterCancel("run") = "checkErr"
    /\ AfterCancel("serialReader") = "done"
    /\ \A c \in Callers : AfterCancel(c) = "idle"
  BY ThreadNames DEF AfterCancel

\* Any thread but the mount checker can be taken through Cancel and out of it.
LEMMA GotoTyped ==
    ASSUME TypeOK, NEW t \in Threads \ {"mountChecker"},
           NEW step \in CancelSteps \cup {AfterCancel(t)}, Goto(t, step)
    PROVE  PcOK'
  <1> USE ThreadNames, AfterCancelIs
          DEF TypeOK, PcOK, Goto, RunSteps, WatchdogSteps, LoginSteps, ReaderSteps,
              CallerSteps, ErrsSection, AllSteps
  <1>1. CASE t \in Reporters
    BY <1>1
  <1>2. CASE t \in {"run", "serialReader"}
    BY <1>2
  <1>3. CASE t \in Callers
    BY <1>3
  <1> QED
    BY <1>1, <1>2, <1>3

\* So does the call of Cancel.
LEMMA CancelTyped ==
    ASSUME TypeOK, NEW t \in Threads \ {"mountChecker"}, Cancel(t)
    PROVE  canceled' \in Threads \cup {None} /\ PcOK'
  <1>1. PICK step \in CancelSteps \cup {AfterCancel(t)} : Goto(t, step)
    BY DEF Cancel, CancelSteps
  <1>2. canceled' \in Threads \cup {None}
    BY DEF Cancel, TypeOK
  <1> QED
    BY <1>1, <1>2, GotoTyped

-----------------------------------------------------------------------------
(***************************************************************************)
(* Type correctness.                                                       *)
(***************************************************************************)

\* A VM that NewVM has just built is well typed.
LEMMA InitTyped == Init => TypeOK
  BY ThreadNames
  DEF Init, TypeOK, FlagsOK, PcOK, QemuStates, GuestStates, Goroutines, RunSteps, WatchdogSteps,
      LoginSteps, ReaderSteps, CheckerSteps, CallerSteps, AllSteps

\* A flag is set, cleared or left alone.
LEMMA NextFlags == FlagsOK /\ [Next]_vars => FlagsOK'
  <1> SUFFICES ASSUME FlagsOK, [Next]_vars
               PROVE  FlagsOK'
    OBVIOUS
  <1> USE DEF FlagsOK, envVars, shutdownVars, setupVars, errVars
  <1>1. ASSUME NEW t \in Threads, CancelStep(t)
        PROVE  FlagsOK'
    BY Zenon, <1>1
    DEF CancelStep, CancelDial, CancelPoweroff, CancelKill, CancelCtx, CancelClose
  <1>2. CASE Run
    BY Zenon, <1>2 DEF Run, RunStart, RunStartFails, RunWait, RunCheckErr, RunCollect
  <1>3. ASSUME NEW t \in Threads, ReportError(t) \/ WatchdogSelect(t)
        PROVE  FlagsOK'
    BY Zenon, <1>3 DEF ReportError, LockErrs, AppendErrs, WatchdogSelect
  <1>4. CASE LoginHandler
    BY Zenon, <1>4
    DEF LoginHandler, Login, CheckLogin, SSHSetup, Keyscan, SetSSHConf, CloseSSHReady
  <1>5. CASE SerialRead \/ MountChecker
    BY Zenon, <1>5 DEF SerialRead, MountChecker, MountCheckerKills, MountCheckerStops
  <1>6. ASSUME NEW c \in Callers, CallCancel(c)
        PROVE  FlagsOK'
    BY Zenon, <1>6 DEF CallCancel
  <1>7. CASE Environment \/ ProcessExits
    BY Zenon, <1>7
    DEF Environment, GuestBoots, GuestHangs, QemuExits, HostMounts, ProcessExits
  <1>8. CASE UNCHANGED vars
    BY Zenon, <1>8 DEF vars
  <1> QED
    BY Zenon, <1>1, <1>2, <1>3, <1>4, <1>5, <1>6, <1>7, <1>8 DEF Next, ThreadStep

\* A step of Cancel keeps the types of what is no flag.
LEMMA CancelStepTyped ==
    ASSUME TypeOK, FlagsOK', NEW t \in Threads \ {"mountChecker"}, CancelStep(t)
    PROVE  TypeOK'
  <1> USE DEF TypeOK, QemuStates, GuestStates, envVars, shutdownVars, setupVars, errVars
  <1>1. PICK step \in CancelSteps \cup {AfterCancel(t)} : Goto(t, step)
    BY DEF CancelStep, CancelDial, CancelPoweroff, CancelKill, CancelCtx, CancelClose, CancelSteps
  <1>2. PcOK'
    BY <1>1, GotoTyped
  <1> QED
    BY <1>2 DEF CancelStep, CancelDial, CancelPoweroff, CancelKill, CancelCtx, CancelClose

\* So do the steps of Run.
LEMMA RunTyped ==
    ASSUME TypeOK, FlagsOK', Run
    PROVE  TypeOK'
  <1> USE ThreadNames
          DEF TypeOK, QemuStates, envVars, shutdownVars, setupVars, errVars, Goto
  <1>1. CASE RunStart
    <2>1. PcOK'
      BY <1>1 DEF RunStart, PcOK, FirstStep, RunSteps, WatchdogSteps, LoginSteps, ReaderSteps,
                  CheckerSteps, AllSteps
    <2> QED
      BY <1>1, <2>1 DEF RunStart, GuestStates
  <1>2. CASE RunWait
    <2>1. canceled' \in Threads \cup {None} /\ PcOK'
      BY <1>2, CancelTyped DEF RunWait
    <2> QED
      BY <1>2, <2>1 DEF RunWait
  <1>3. CASE RunStartFails \/ RunCheckErr \/ RunCollect
    <2>1. PcOK'
      BY <1>3 DEF RunStartFails, RunCheckErr, RunCollect, PcOK, RunSteps, AllSteps
    <2> QED
      BY <1>3, <2>1 DEF RunStartFails, RunCheckErr, RunCollect
  <1> QED
    BY <1>1, <1>2, <1>3 DEF Run

\* So do the steps of a reporter, a watchdog, the login handler, the reader and
\* the mount checker.
LEMMA GoroutineTyped ==
    ASSUME TypeOK, FlagsOK', NEW t \in Goroutines,
           \/ t \in Reporters /\ ReportError(t)
           \/ t \in Watchdogs /\ WatchdogSelect(t)
           \/ LoginHandler \/ SerialRead \/ MountChecker
    PROVE  TypeOK'
  <1> USE ThreadNames
          DEF TypeOK, QemuStates, GuestStates, envVars, shutdownVars, setupVars, errVars
  <1>1. CASE t \in Reporters /\ LockErrs(t)
    <2>1. canceled' \in Threads \cup {None} /\ PcOK'
      BY <1>1, CancelTyped DEF LockErrs
    <2> QED
      BY <1>1, <2>1 DEF LockErrs
  <1>2. CASE t \in Reporters /\ AppendErrs(t)
    BY <1>2 DEF AppendErrs, Goto, PcOK, WatchdogSteps, LoginSteps, AllSteps
  <1>3. CASE t \in Watchdogs /\ WatchdogSelect(t)
    <2>1. PcOK'
      BY <1>3 DEF WatchdogSelect, Goto, PcOK, WatchdogSteps, AllSteps
    <2> QED
      BY <1>3, <2>1 DEF WatchdogSelect
  <1>4. CASE LoginHandler
    <2>1. PICK step \in LoginSteps : Goto("loginHandler", step)
      BY <1>4 DEF LoginHandler, Login, CheckLogin, SSHSetup, Keyscan, SetSSHConf, CloseSSHReady,
                  LoginSteps
    <2>2. PcOK'
      BY <2>1 DEF Goto, PcOK, AllSteps
    <2>3. guest' \in GuestStates
      BY <1>4 DEF LoginHandler, Login, CheckLogin, SSHSetup, Keyscan, SetSSHConf, CloseSSHReady
    <2>4. UNCHANGED <<qemu, canceled, termination, globalErrs, errsMu, runResult>>
      BY <1>4 DEF LoginHandler, Login, CheckLogin, SSHSetup, Keyscan, SetSSHConf, CloseSSHReady
    <2> QED
      BY <2>2, <2>3, <2>4
  <1>5. CASE SerialRead
    <2>1. canceled' \in Threads \cup {None} /\ PcOK'
      BY <1>5, CancelTyped DEF SerialRead
    <2> QED
      BY <1>5, <2>1 DEF SerialRead
  <1>6. CASE MountChecker
    <2>1. PcOK'
      BY <1>6 DEF MountChecker, MountCheckerKills, MountCheckerStops, Goto, PcOK, CheckerSteps,
                  AllSteps
    <2> QED
      BY <1>6, <2>1 DEF MountChecker, MountCheckerKills, MountCheckerStops
  <1> QED
    BY <1>1, <1>2, <1>3, <1>4, <1>5, <1>6 DEF ReportError

\* So is it after any step of a thread, a caller or the environment.
LEMMA NextTyped == TypeOK /\ [Next]_vars => TypeOK'
  <1> SUFFICES ASSUME TypeOK, [Next]_vars
               PROVE  TypeOK'
    OBVIOUS
  <1> USE DEF envVars, shutdownVars, setupVars, errVars
  <1>0. FlagsOK'
    BY NextFlags DEF TypeOK
  <1>1. ASSUME NEW t \in Threads, ThreadStep(t)
        PROVE  TypeOK'
    BY <1>0, <1>1, ThreadNames, CancelStepTyped, RunTyped, GoroutineTyped
    DEF ThreadStep, Goroutines
  <1>2. ASSUME NEW c \in Callers, CallCancel(c)
        PROVE  TypeOK'
    <2>1. canceled' \in Threads \cup {None} /\ PcOK'
      BY <1>2, CancelTyped, ThreadNames DEF CallCancel
    <2> QED
      BY <1>0, <1>2, <2>1 DEF CallCancel, TypeOK
  <1>3. CASE Environment \/ ProcessExits
    <2>1. PcOK'
      BY <1>3 DEF Environment, GuestBoots, GuestHangs, QemuExits, HostMounts, ProcessExits,
                  TypeOK, PcOK
    <2> QED
      BY <1>0, <1>3, <2>1 DEF Environment, GuestBoots, GuestHangs, QemuExits, HostMounts,
                              ProcessExits, TypeOK, QemuStates, GuestStates
  <1>4. CASE UNCHANGED vars
    BY <1>4 DEF vars, TypeOK, FlagsOK, PcOK
  <1> QED
    BY <1>1, <1>2, <1>3, <1>4 DEF Next

\* Every variable of the VM, and the place of every goroutine, stays in its type.
THEOREM TypeCorrect == Spec => []TypeOK
  BY InitTyped, NextTyped, PTL DEF Spec

-----------------------------------------------------------------------------
(***************************************************************************)
(* The inductive invariant.                                                *)
(***************************************************************************)

\* How far Run has come tells what became of the process.
RunInv ==
    /\ \A t \in Goroutines : pc[t] = "off" <=> qemu = "none"
    /\ pc["run"] = "start" => qemu = "none"
    /\ qemu = "none" => pc["run"] \in {"start", "done"}
    /\ pc["run"] = "wait" => qemu # "reaped"
    /\ pc["run"] \in CancelSteps \cup {"checkErr", "collect"} => qemu = "reaped"
    /\ runResult = None <=> pc["run"] # "done"
    /\ runResult \in {"ok", "waitErr"} => qemu = "reaped"
    /\ runResult = "err" => qemu \in {"none", "reaped"}

\* What the winner of vm.canceled has done so far.
CancelInv ==
    /\ \A t \in Threads : pc[t] \in CancelSteps => canceled = t
    /\ \A t \in Threads : pc[t] \in {"dial", "poweroff", "kill"} => termination = "no" /\ ~ctxDone
    /\ \A t \in Threads : pc[t] \in {"ctx", "close"} => termination # "no"
    /\ canceled = None => termination = "no" /\ ~ctxDone
    /\ ctxDone => termination # "no"
    /\ termination = "sent" => qemu \notin {"none", "running"}

\* When Run itself won, QEMU was gone before, and the kill failed.
RunCancelInv ==
    /\ pc["run"] \in {"checkErr", "collect"} => canceled # None
    /\ canceled = "run" => pc["run"] \in {"dial", "poweroff", "kill"} \/ termination = "failed"
    /\ runResult = "ok" => canceled \notin {None, "run"}

\* The login handler's progress, what it leaves behind, and the guest's.
SetupInv ==
    /\ pc["loginHandler"] \in {"sshSetup", "keyscan", "setConf", "closeReady"} \/ sshConf
           => bootReady
    /\ pc["loginHandler"] \in {"keyscan", "setConf", "closeReady"} \/ sshConf
           => guest \notin {"booting", "login", "shell"}
    /\ pc["loginHandler"] \in {"off", "login"} => ~sshConf
    /\ pc["loginHandler"] = "closeReady" => sshConf
    /\ sshReady => sshConf

\* The mount checker stops only with the context.
GuardInv ==
    pc["mountChecker"] = "done" => ctxDone \/ ~Passthrough

\* Only a login that failed for the context sets err, and only Process.Wait clears it.
ErrInv ==
    /\ pc["loginHandler"] \in {"off", "login", "checkLogin"} => ~bootReady
    /\ pc["loginHandler"] \in {"off", "login"} => ~err
    /\ err => ctxDone /\ ~bootReady
    /\ pc["loginHandler"] \in {"sshSetup", "keyscan", "setConf", "closeReady"} => ~err
    /\ bootReady \/ (pc["loginHandler"] = "checkLogin" /\ ~err)
           => qemu = "reaped" \/ guest \notin {"booting", "login"}
    /\ runResult = "waitErr" => err

IInv == TypeOK /\ RunInv /\ CancelInv /\ RunCancelInv /\ SetupInv /\ GuardInv /\ ErrInv

-----------------------------------------------------------------------------

\* The parts of IInv that say more than the types.
SafetyInv == RunInv /\ CancelInv /\ RunCancelInv /\ SetupInv /\ GuardInv /\ ErrInv

\* NewVM establishes the invariant.
LEMMA InitInv == Init => IInv
  BY InitTyped, ThreadNames
  DEF Init, IInv, RunInv, CancelInv, RunCancelInv, SetupInv, GuardInv, ErrInv, Goroutines,
      CancelSteps, None

\* The body of Cancel, run by any thread, keeps the invariant.
LEMMA CancelStepInv ==
    ASSUME IInv, NEW t \in Threads \ {"mountChecker"}, CancelStep(t)
    PROVE  SafetyInv'
  <1> USE ThreadNames, AfterCancelIs
          DEF IInv, SafetyInv, RunInv, CancelInv, RunCancelInv, SetupInv, GuardInv, ErrInv,
              TypeOK, FlagsOK, PcOK, Goto, Goroutines, CancelSteps, None, envVars, shutdownVars,
              setupVars, errVars
  <1>1. CASE CancelDial(t)
    BY <1>1 DEF CancelDial, QemuAlive
  <1>2. CASE CancelPoweroff(t)
    BY <1>2 DEF CancelPoweroff, QemuAlive
  <1>3. CASE CancelKill(t)
    BY <1>3 DEF CancelKill, QemuAlive
  <1>4. CASE CancelCtx(t)
    BY <1>4 DEF CancelCtx, QemuAlive
  <1>5. CASE CancelClose(t)
    BY <1>5 DEF CancelClose, QemuAlive
  <1> QED
    BY <1>1, <1>2, <1>3, <1>4, <1>5 DEF CancelStep

\* So do VM.Run's own steps.
LEMMA RunStepInv ==
    ASSUME IInv, Run
    PROVE  SafetyInv'
  <1> USE ThreadNames, AfterCancelIs
          DEF IInv, SafetyInv, RunInv, CancelInv, RunCancelInv, SetupInv, GuardInv, ErrInv,
              TypeOK, FlagsOK, PcOK, Goto, Goroutines, CancelSteps, None, envVars, shutdownVars,
              setupVars, errVars
  <1>1. CASE RunStart
    BY <1>1 DEF RunStart, FirstStep
  <1>2. CASE RunStartFails
    BY <1>2 DEF RunStartFails
  <1>3. CASE RunWait
    BY <1>3 DEF RunWait, Cancel
  <1>4. CASE RunCheckErr
    BY <1>4 DEF RunCheckErr
  <1>5. CASE RunCollect
    BY <1>5 DEF RunCollect, CancelFailed
  <1> QED
    BY <1>1, <1>2, <1>3, <1>4, <1>5 DEF Run

\* So do the goroutines Run starts.
LEMMA GoroutineInv ==
    ASSUME IInv, NEW t \in Goroutines,
           \/ t \in Reporters /\ ReportError(t)
           \/ t \in Watchdogs /\ WatchdogSelect(t)
           \/ LoginHandler \/ SerialRead \/ MountChecker
    PROVE  SafetyInv'
  <1> USE ThreadNames, AfterCancelIs
          DEF IInv, SafetyInv, RunInv, CancelInv, RunCancelInv, SetupInv, GuardInv, ErrInv,
              TypeOK, FlagsOK, PcOK, Goto, Goroutines, CancelSteps, None, envVars, shutdownVars,
              setupVars, errVars
  <1>1. CASE t \in Reporters /\ LockErrs(t)
    BY <1>1 DEF LockErrs, Cancel
  <1>2. CASE t \in Reporters /\ AppendErrs(t)
    BY <1>2 DEF AppendErrs
  <1>3. CASE t \in Watchdogs /\ WatchdogSelect(t)
    BY <1>3 DEF WatchdogSelect
  <1>4. CASE Login
    BY <1>4 DEF Login
  <1>5. CASE CheckLogin
    BY <1>5 DEF CheckLogin
  <1>6. CASE SSHSetup
    BY <1>6 DEF SSHSetup
  <1>7. CASE Keyscan
    BY <1>7 DEF Keyscan, GuestAnswers
  <1>8. CASE SetSSHConf
    BY <1>8 DEF SetSSHConf
  <1>9. CASE CloseSSHReady
    BY <1>9 DEF CloseSSHReady
  <1>10. CASE SerialRead
    BY <1>10 DEF SerialRead, Cancel
  <1>11. CASE MountCheckerKills
    BY <1>11 DEF MountCheckerKills, QemuAlive
  <1>12. CASE MountCheckerStops
    BY <1>12 DEF MountCheckerStops
  <1> QED
    BY <1>1, <1>2, <1>3, <1>4, <1>5, <1>6, <1>7, <1>8, <1>9, <1>10, <1>11, <1>12
    DEF ReportError, LoginHandler, MountChecker

\* So do the callers, the environment, and stuttering.
LEMMA OutsideInv ==
    ASSUME IInv,
           \/ \E c \in Callers : CallCancel(c)
           \/ Environment \/ ProcessExits \/ UNCHANGED vars
    PROVE  SafetyInv'
  <1> USE ThreadNames, AfterCancelIs
          DEF IInv, SafetyInv, RunInv, CancelInv, RunCancelInv, SetupInv, GuardInv, ErrInv,
              TypeOK, FlagsOK, PcOK, Goto, Goroutines, CancelSteps, None, envVars, shutdownVars,
              setupVars, errVars
  <1>1. CASE \E c \in Callers : CallCancel(c)
    BY <1>1 DEF CallCancel, Cancel
  <1>2. CASE GuestBoots
    BY <1>2 DEF GuestBoots
  <1>3. CASE GuestHangs
    BY <1>3 DEF GuestHangs
  <1>4. CASE QemuExits
    BY <1>4 DEF QemuExits, QemuAlive
  <1>5. CASE HostMounts \/ ProcessExits
    BY <1>5 DEF HostMounts, ProcessExits
  <1>6. CASE UNCHANGED vars
    BY <1>6 DEF vars
  <1> QED
    BY <1>1, <1>2, <1>3, <1>4, <1>5, <1>6 DEF Environment

\* Every step keeps the invariant.
LEMMA NextInv == IInv /\ [Next]_vars => IInv'
  <1> SUFFICES ASSUME IInv, [Next]_vars
               PROVE  IInv'
    OBVIOUS
  <1>1. TypeOK'
    BY NextTyped DEF IInv
  <1>2. SafetyInv'
    <2>1. ASSUME NEW t \in Threads, ThreadStep(t)
          PROVE  SafetyInv'
      BY <2>1, ThreadNames, CancelStepInv, RunStepInv, GoroutineInv DEF ThreadStep, Goroutines
    <2> QED
      BY <2>1, OutsideInv DEF Next
  <1> QED
    BY <1>1, <1>2 DEF IInv, SafetyInv

\* The invariant the theorems below follow from.
THEOREM Inductive == Spec => []IInv
  BY InitInv, NextInv, PTL DEF Spec

-----------------------------------------------------------------------------
(***************************************************************************)
(* The safety properties of the runs.                                      *)
(***************************************************************************)

\* Two threads never run the body of Cancel: the atomic counter of vm.go protects
\* the kill, the context and the pipes for any number of callers.
THEOREM OneShutdown == Spec => []ShutdownRunsOnce
  <1>1. IInv => ShutdownRunsOnce
    BY ThreadNames DEF IInv, ShutdownRunsOnce, CancelInv
  <1> QED
    BY <1>1, Inductive, PTL

\* A device in an unsignalled QEMU is watched by the mount checker, unless Cancel
\* came before cmd.Start.
THEOREM GuardStays == Spec => []DeviceIsGuarded
  <1>1. IInv => DeviceIsGuarded
    BY ThreadNames
    DEF IInv, DeviceIsGuarded, RunInv, GuardInv, CancelInv, EarlyCancel, TypeOK, PcOK, CheckerSteps,
        Goroutines
  <1> QED
    BY <1>1, Inductive, PTL

\* vm.ctx is canceled after QEMU was signalled, not before.
THEOREM ContextIsLast == Spec => []ContextOutlivesQemu
  <1>1. IInv => ContextOutlivesQemu
    BY ThreadNames DEF IInv, ContextOutlivesQemu, CancelInv, EarlyCancel, TypeOK
  <1> QED
    BY <1>1, Inductive, PTL

\* Run's nil result means that QEMU is reaped and that somebody else asked for it.
THEOREM NilIsAskedFor == Spec => []NilMeansStopped
  <1>1. IInv => NilMeansStopped
    BY ThreadNames DEF IInv, NilMeansStopped, RunInv, RunCancelInv
  <1> QED
    BY <1>1, Inductive, PTL

\* A closed SSHUpNotifyChan means a guest that was set up.
THEOREM ReadyIsReady == Spec => []ReadyMeansSetUp
  <1>1. IInv => ReadyMeansSetUp
    BY ThreadNames DEF IInv, ReadyMeansSetUp, SetupInv
  <1> QED
    BY <1>1, Inductive, PTL

\* The race for the variable err is never mistaken for a VM that was set up, and never
\* sends the boot watchdog home while a VM that has not logged in still runs.
THEOREM LateErrorStaysHarmless == Spec => []LateErrorIsHarmless
  <1>1. IInv => LateErrorIsHarmless
    BY DEF IInv, LateErrorIsHarmless, ErrInv, RunInv, QemuAlive
  <1> QED
    BY <1>1, Inductive, PTL

-----------------------------------------------------------------------------
(***************************************************************************)
(* The mutex of the reporters.  One invariant more: it is held in the      *)
(* section of globalErrFn and nowhere else, and a Cancel, once begun, is   *)
(* carried to its end.                                                     *)
(***************************************************************************)

LockInv ==
    /\ LockServesShutdown
    /\ \A t \in Threads : pc[t] = "close" => ctxDone

\* The body of Cancel keeps the invariant of the mutex.
LEMMA CancelStepLock ==
    ASSUME IInv, LockInv, NEW t \in Threads \ {"mountChecker"}, CancelStep(t)
    PROVE  LockInv'
  <1> USE ThreadNames DEF LockInv, LockServesShutdown, envVars, setupVars, errVars, shutdownVars
  <1>0. canceled = t /\ canceled # None /\ pc[t] \in CancelSteps /\ pc \in [Threads -> AllSteps]
    BY DEF IInv, TypeOK, PcOK, CancelInv, CancelStep, CancelDial, CancelPoweroff, CancelKill,
           CancelCtx, CancelClose, CancelSteps
  <1>1. ASSUME NEW step \in CancelSteps, Goto(t, step), step = "close" => ctxDone',
               ctxDone => ctxDone', UNCHANGED <<canceled, serialClosed, errsMu>>
        PROVE  LockInv'
    <2>1. \A u \in Reporters : pc'[u] \in ErrsSection <=> pc[u] \in ErrsSection
      BY <1>0, <1>1 DEF Goto, ErrsSection
    <2>2. \A u \in Threads : pc'[u] \in {"lock", "close"} /\ u # t => pc'[u] = pc[u]
      BY <1>0, <1>1 DEF Goto
    <2>3. pc'[t] = step /\ step # "lock"
      BY <1>0, <1>1 DEF Goto, CancelSteps
    <2> QED
      BY <1>0, <1>1, <2>1, <2>2, <2>3
  <1>2. CASE CancelDial(t) \/ CancelPoweroff(t) \/ CancelKill(t)
    <2>1. PICK step \in {"kill", "poweroff", "ctx"} : Goto(t, step)
      BY <1>2 DEF CancelDial, CancelPoweroff, CancelKill
    <2>2. UNCHANGED <<canceled, serialClosed, errsMu, ctxDone>>
      BY <1>2 DEF CancelDial, CancelPoweroff, CancelKill
    <2> QED
      BY <1>1, <2>1, <2>2 DEF CancelSteps
  <1>3. CASE CancelCtx(t)
    BY <1>1, <1>3 DEF CancelCtx, CancelSteps
  <1>4. CASE CancelClose(t)
    <2>1. /\ Goto(t, AfterCancel(t)) /\ serialClosed' /\ UNCHANGED <<canceled, ctxDone, errsMu>>
          /\ ctxDone
      BY <1>0, <1>4 DEF CancelClose
    <2>2. t \in Reporters => AfterCancel(t) = "append"
      BY AfterCancelIs
    <2>3. AfterCancel(t) \notin {"lock", "close"}
      BY <1>0 DEF AfterCancel
    <2>4. \A u \in Reporters : pc'[u] \in ErrsSection <=> pc[u] \in ErrsSection
      BY <1>0, <2>1, <2>2 DEF Goto, ErrsSection
    <2>5. \A u \in Threads : pc'[u] \in {"lock", "close"} => u # t /\ pc'[u] = pc[u]
      BY <1>0, <2>1, <2>3 DEF Goto
    <2> QED
      BY <1>0, <2>1, <2>4, <2>5
  <1> QED
    BY <1>2, <1>3, <1>4 DEF CancelStep

\* So does everything else.
LEMMA LockStep == IInv /\ LockInv /\ [Next]_vars => LockInv'
  <1> SUFFICES ASSUME IInv, LockInv, [Next]_vars
               PROVE  LockInv'
    OBVIOUS
  <1> USE ThreadNames, AfterCancelIs
          DEF LockInv, LockServesShutdown, ErrsSection, CancelSteps, Goto, envVars, setupVars,
              errVars, shutdownVars
  <1>0. /\ pc \in [Threads -> AllSteps]
        /\ canceled \in Threads \cup {None} /\ errsMu \in Reporters \cup {None}
        /\ \A t \in Goroutines : pc[t] = "off" <=> qemu = "none"
        /\ pc["run"] = "start" => qemu = "none"
        /\ \A t \in Threads : pc[t] \in CancelSteps => canceled = t
    BY DEF IInv, TypeOK, PcOK, RunInv, CancelInv
  <1>1. ASSUME NEW t \in Threads \ {"mountChecker"}, CancelStep(t)
        PROVE  LockInv'
    BY <1>1, CancelStepLock
  <1>2. CASE RunStart
    BY <1>0, <1>2 DEF RunStart, FirstStep, Goroutines
  <1>3. CASE RunStartFails \/ RunCheckErr \/ RunCollect
    BY <1>0, <1>3 DEF RunStartFails, RunCheckErr, RunCollect
  <1>4. CASE RunWait
    <2>1. /\ pc["run"] = "wait" /\ UNCHANGED <<ctxDone, serialClosed, errsMu>>
          /\ "run" \in Threads
      BY <1>4 DEF RunWait
    <2>2. CASE canceled = None
      BY <1>0, <1>4, <2>1, <2>2 DEF RunWait, Cancel
    <2>3. CASE canceled # None
      BY <1>0, <1>4, <2>1, <2>3 DEF RunWait, Cancel
    <2> QED
      BY <2>2, <2>3
  <1>5. ASSUME NEW t \in Reporters, LockErrs(t)
        PROVE  LockInv'
    <2>1. /\ pc[t] = "lock" /\ errsMu = None /\ errsMu' = t
          /\ t \in Threads /\ t # None /\ AfterCancel(t) = "append"
          /\ UNCHANGED <<ctxDone, serialClosed>>
      BY <1>5 DEF LockErrs
    <2>2. \A u \in Reporters : pc[u] \notin CancelSteps \cup {"append"}
      BY <2>1
    <2>3. CASE canceled = None
      <3>1. canceled' = t /\ pc' = [pc EXCEPT ![t] = "dial"]
        BY <1>5, <2>3 DEF LockErrs, Cancel
      <3> QED
        BY <1>0, <2>1, <2>2, <3>1
    <2>4. CASE canceled # None
      <3>1. canceled' = canceled /\ pc' = [pc EXCEPT ![t] = "append"]
        BY <1>5, <2>1, <2>4 DEF LockErrs, Cancel
      <3> QED
        BY <1>0, <2>1, <2>2, <2>4, <3>1
    <2> QED
      BY <2>3, <2>4
  <1>6. ASSUME NEW t \in Reporters, AppendErrs(t)
        PROVE  LockInv'
    BY <1>0, <1>6 DEF AppendErrs
  <1>7. ASSUME NEW t \in Watchdogs, WatchdogSelect(t)
        PROVE  LockInv'
    BY <1>0, <1>7 DEF WatchdogSelect
  <1>8. CASE LoginHandler
    BY <1>0, <1>8 DEF LoginHandler, Login, CheckLogin, SSHSetup, Keyscan, SetSSHConf, CloseSSHReady
  <1>9. CASE SerialRead
    BY <1>0, <1>9 DEF SerialRead, Cancel
  <1>10. CASE MountChecker
    BY <1>0, <1>10 DEF MountChecker, MountCheckerKills, MountCheckerStops
  <1>11. ASSUME NEW c \in Callers, CallCancel(c)
         PROVE  LockInv'
    BY <1>0, <1>11 DEF CallCancel, Cancel
  <1>12. CASE Environment \/ ProcessExits \/ UNCHANGED vars
    BY <1>0, <1>12 DEF Environment, GuestBoots, GuestHangs, QemuExits, HostMounts, ProcessExits,
                       vars
  <1> QED
    BY <1>1, <1>2, <1>3, <1>4, <1>5, <1>6, <1>7, <1>8, <1>9, <1>10, <1>11, <1>12
    DEF Next, ThreadStep, Run, ReportError

\* No thread is kept from a shutdown by the mutex Cancel is called under: its holder leaves,
\* and while it has not, somebody carries the shutdown to its end.
THEOREM LockNeverBlocks == Spec => []LockServesShutdown
  <1>1. Init => LockInv
    BY ThreadNames
    DEF Init, LockInv, LockServesShutdown, ErrsSection, CancelSteps, Goroutines, None
  <1>2. LockInv => LockServesShutdown
    BY DEF LockInv
  <1> QED
    BY <1>1, <1>2, LockStep, Inductive, PTL DEF Spec

-----------------------------------------------------------------------------
(***************************************************************************)
(* Refinement of the contract.                                             *)
(***************************************************************************)

\* A step of one of the goroutines or of Run is a step of the contract, or none.
LEMMA ContractStep == IInv /\ [Next]_vars => [Contract!Next]_(Contract!vars)
  <1> SUFFICES ASSUME IInv, [Next]_vars
               PROVE  [Contract!Next]_(Contract!vars)
    OBVIOUS
  <1> USE ThreadNames
          DEF IInv, RunInv, RunCancelInv, CancelInv, SetupInv, TypeOK, QemuStates, None,
              contractProcess, contractOutcome, Contract!vars, Contract!Next,
              envVars, shutdownVars, setupVars, errVars
  <1>1. ASSUME NEW t \in Threads, CancelStep(t)
        PROVE  UNCHANGED Contract!vars
    BY <1>1 DEF CancelStep, CancelDial, CancelPoweroff, CancelKill, CancelCtx, CancelClose,
                QemuAlive
  <1>2. CASE RunStart
    <2>1. Contract!Start
      BY <1>2 DEF RunStart, Contract!Start
    <2> QED
      BY <2>1
  <1>3. CASE RunStartFails
    <2>1. Contract!StartFails
      BY <1>3 DEF RunStartFails, Contract!StartFails
    <2> QED
      BY <2>1
  <1>4. CASE RunWait
    <2>1. Contract!Reap
      BY <1>4 DEF RunWait, Cancel, Contract!Reap
    <2> QED
      BY <2>1
  <1>5. CASE RunCheckErr
    <2>1. Contract!Fail \/ UNCHANGED Contract!vars
      BY <1>5 DEF RunCheckErr, Contract!Fail, CancelSteps
    <2> QED
      BY <2>1
  <1>6. CASE RunCollect
    <2>1. Contract!Fail \/ Contract!Succeed
      BY <1>6 DEF RunCollect, CancelFailed, Contract!Fail, Contract!Succeed, CancelSteps
    <2> QED
      BY <2>1
  <1>7. ASSUME NEW t \in Reporters, ReportError(t)
        PROVE  Contract!AskStop \/ UNCHANGED Contract!vars
    BY <1>7 DEF ReportError, LockErrs, AppendErrs, Cancel, Contract!AskStop
  <1>8. ASSUME NEW t \in Watchdogs, WatchdogSelect(t)
        PROVE  UNCHANGED Contract!vars
    BY <1>8 DEF WatchdogSelect
  <1>9. CASE LoginHandler
    <2>1. CASE CloseSSHReady
      <3>1. Contract!AnnounceReady \/ UNCHANGED Contract!vars
        BY <1>9, <2>1 DEF CloseSSHReady, Contract!AnnounceReady, Goroutines
      <3> QED
        BY <3>1
    <2>2. CASE Login \/ CheckLogin \/ SSHSetup \/ Keyscan \/ SetSSHConf
      BY <2>2 DEF Login, CheckLogin, SSHSetup, Keyscan, SetSSHConf
    <2> QED
      BY <1>9, <2>1, <2>2 DEF LoginHandler
  <1>10. CASE SerialRead
    <2>1. Contract!AskStop \/ UNCHANGED Contract!vars
      BY <1>10 DEF SerialRead, Cancel, Contract!AskStop
    <2> QED
      BY <2>1
  <1>11. CASE MountChecker
    BY <1>11 DEF MountChecker, MountCheckerKills, MountCheckerStops, QemuAlive
  <1>12. ASSUME NEW c \in Callers, CallCancel(c)
         PROVE  Contract!AskStop \/ UNCHANGED Contract!vars
    BY <1>12 DEF CallCancel, Cancel, Contract!AskStop
  <1>13. CASE QemuExits
    <2>1. Contract!Die
      BY <1>13 DEF QemuExits, QemuAlive, Contract!Die
    <2> QED
      BY <2>1
  <1>14. CASE GuestBoots \/ GuestHangs \/ HostMounts \/ ProcessExits
    BY <1>14 DEF GuestBoots, GuestHangs, HostMounts, ProcessExits
  <1>15. CASE UNCHANGED vars
    BY <1>15 DEF vars
  <1> QED
    BY <1>1, <1>2, <1>3, <1>4, <1>5, <1>6, <1>7, <1>8, <1>9, <1>10, <1>11, <1>12, <1>13, <1>14,
       <1>15
    DEF Next, ThreadStep, Run, Environment

\* A VM, whatever its goroutines do to each other, keeps the contract its users
\* rely on.
THEOREM Implements == Spec => ImplementsContract
  <1>1. Init => Contract!Init
    BY DEF Init, Contract!Init, contractProcess, contractOutcome, None
  <1> QED
    BY <1>1, ContractStep, Inductive, PTL DEF Spec, ImplementsContract, Contract!Spec

=============================================================================
