------------------------- MODULE FileManager_proofs -------------------------
(***************************************************************************)
(* Theorems about module FileManager, for every command line, and every    *)
(* order in which answers, timeouts, cancellation and the end of QEMU      *)
(* come.  The invariants use nothing of the plan but its type: they hold   *)
(* for any sequence of dials, checks, commands and closes.  What the plan  *)
(* is comes in last, where it is shown to keep the contract of the share.  *)
(***************************************************************************)
EXTENDS FileManager, SequenceTheorems, TLAPS

-----------------------------------------------------------------------------
(***************************************************************************)
(* The plan.                                                               *)
(***************************************************************************)

Names ==
    {"", "vgchange", "ifconfig", "luksContainer", "luksDevice", "mount", "copyConfig", "rcService",
     "changePass", "lsblk", "container", "device"}

PlanSteps ==
    {s \in [op : {"dial", "run", "close", "check"}, client : Clients \cup {""}, cmd : Names] :
        s.op = "dial" => s.client \in Clients}

\* The parts of a plan are sequences of dials, commands, closes and checks.
LEMMA PlanParts ==
    ASSUME NEW cf \in Configs
    PROVE  /\ InitLVM("init") \in Seq(PlanSteps) /\ InitLVM("relvm") \in Seq(PlanSteps)
           /\ Optionally(cf.tap, ConfigureInterfaceStaticNet) \in Seq(PlanSteps)
           /\ <<Check("device"), Dial("mount")>> \in Seq(PlanSteps)
           /\ Optionally(cf.preopen, PreopenWithSSH("mount")) \in Seq(PlanSteps)
           /\ Optionally(cf.luks, <<Run("mount", "luksDevice")>>) \in Seq(PlanSteps)
           /\ <<Run("mount", "mount"), Close("mount")>> \in Seq(PlanSteps)
           /\ StartGenericShare \in Seq(PlanSteps)
           /\ <<Dial("preopen")>> \in Seq(PlanSteps) /\ <<Close("preopen")>> \in Seq(PlanSteps)
           /\ \A c \in Clients :
                /\ <<Check("container"), Run(c, "luksContainer")>> \in Seq(PlanSteps)
                /\ PreopenWithSSH(c) \in Seq(PlanSteps)
           /\ Lsblk \in Seq(PlanSteps)
  <1>0. /\ \A c \in Clients : Dial(c) \in PlanSteps /\ Close(c) \in PlanSteps
        /\ \A c \in Clients : \A n \in Names : Run(c, n) \in PlanSteps
        /\ \A n \in Names : Check(n) \in PlanSteps
    BY DEF PlanSteps, Names, Dial, Run, Close, Check
  <1>a. ASSUME NEW a \in PlanSteps, NEW b \in PlanSteps, NEW c \in PlanSteps
        PROVE  <<a>> \in Seq(PlanSteps) /\ <<a, b>> \in Seq(PlanSteps)
               /\ <<a, b, c>> \in Seq(PlanSteps)
    OBVIOUS
  <1>1. InitLVM("init") \in Seq(PlanSteps) /\ InitLVM("relvm") \in Seq(PlanSteps)
    BY <1>0, <1>a DEF InitLVM, Clients, Names
  <1>2. ConfigureInterfaceStaticNet \in Seq(PlanSteps)
    BY <1>0, <1>a DEF ConfigureInterfaceStaticNet, Clients, Names
  <1>3. StartGenericShare \in Seq(PlanSteps) /\ Lsblk \in Seq(PlanSteps)
    <2>1. ASSUME NEW a \in PlanSteps, NEW b \in PlanSteps, NEW c \in PlanSteps,
                 NEW d \in PlanSteps, NEW e \in PlanSteps, NEW f \in PlanSteps, NEW g \in PlanSteps
          PROVE  <<a, b, c, d, e, f, g>> \in Seq(PlanSteps)
      OBVIOUS
    <2>2. {Dial("scp"), Run("scp", "copyConfig"), Close("scp"), Dial("share"),
           Run("share", "rcService"), Run("share", "changePass"), Close("share")}
              \subseteq PlanSteps
      BY <1>0 DEF Clients, Names
    <2>3. <<Dial("list"), Run("list", "lsblk")>> \in Seq(PlanSteps)
      BY <1>0, <1>a DEF Clients, Names
    <2> QED
      BY <2>1, <2>2, <2>3 DEF StartGenericShare, Lsblk
  <1>4. ASSUME NEW c \in Clients
        PROVE  /\ <<Check("container"), Run(c, "luksContainer")>> \in Seq(PlanSteps)
               /\ PreopenWithSSH(c) \in Seq(PlanSteps)
    <2>1. <<Check("container"), Run(c, "luksContainer")>> \in Seq(PlanSteps)
      BY <1>0, <1>a DEF Names
    <2> QED
      BY <2>1, <1>1, ConcatProperties DEF PreopenWithSSH
  <1>5. <<Dial("preopen")>> \in Seq(PlanSteps) /\ <<Close("preopen")>> \in Seq(PlanSteps)
    BY <1>0, <1>a DEF Clients, Names
  <1>6. /\ <<Check("device"), Dial("mount")>> \in Seq(PlanSteps)
        /\ <<Run("mount", "mount"), Close("mount")>> \in Seq(PlanSteps)
    BY <1>0, <1>a DEF Clients, Names
  <1>7. /\ Optionally(cf.preopen, PreopenWithSSH("mount")) \in Seq(PlanSteps)
        /\ Optionally(cf.luks, <<Run("mount", "luksDevice")>>) \in Seq(PlanSteps)
        /\ Optionally(cf.tap, ConfigureInterfaceStaticNet) \in Seq(PlanSteps)
    <2>1. PreopenWithSSH("mount") \in Seq(PlanSteps)
      BY <1>4 DEF Clients
    <2>2. <<Run("mount", "luksDevice")>> \in Seq(PlanSteps)
      BY <1>0, <1>a DEF Clients, Names
    <2> QED
      BY <1>2, <2>1, <2>2, EmptySeq DEF Optionally
  <1> QED
    BY <1>1, <1>3, <1>4, <1>5, <1>6, <1>7

\* Every plan is a sequence of such steps, so that a position of it names one operation of
\* the code.
LEMMA PlanIsSequence ==
    ASSUME NEW cf \in Configs
    PROVE  Plan(cf) \in Seq(PlanSteps)
  <1>1. Mount(cf) \in Seq(PlanSteps)
    BY PlanParts, ConcatProperties DEF Mount
  <1>2. PreopenLUKSContainer \in Seq(PlanSteps)
    <2>1. PreopenWithSSH("preopen") \in Seq(PlanSteps)
      BY PlanParts DEF Clients
    <2> QED
      BY <2>1, PlanParts, ConcatProperties DEF PreopenLUKSContainer
  <1>3. Optionally(cf.preopen, PreopenLUKSContainer) \in Seq(PlanSteps)
    BY <1>2, EmptySeq DEF Optionally
  <1> QED
    BY <1>1, <1>3, PlanParts, ConcatProperties DEF Plan

-----------------------------------------------------------------------------
(***************************************************************************)
(* The inductive invariant.                                                *)
(***************************************************************************)

\* The types the other parts rely on.
FlowOK ==
    /\ plan \in Seq(PlanSteps)
    /\ at \in 1..Len(plan) + 1
    /\ phase \in {"call", "start", "prompt", "wait", "return"}
    /\ phase # "call" => at \in Commands
    /\ cmdErr \in BOOLEAN
    /\ outcome \in {"none", "done", "failed"}

\* The guest has started no command the program has not come to.
GuestOK ==
    /\ received \subseteq Commands
    /\ finished \subseteq received
    /\ executed \subseteq finished
    /\ \A i \in received : i <= at

\* What the program went past, it went past with success.
PastOK ==
    /\ \A i \in Commands : i < at => i \in executed
    /\ \A i \in Positions : i < at /\ plan[i].op = "check" => plan[i].cmd # config.rejected
    /\ phase = "return" /\ ~cmdErr => at \in executed
    /\ outcome = "done" => at = Len(plan) + 1 /\ phase = "call"

IInv == FlowOK /\ GuestOK /\ PastOK

\* The program keeps the invariant.
LEMMA ProgramInv ==
    ASSUME IInv, Program \/ User
    PROVE  IInv'
  <1> USE DEF IInv, FlowOK, GuestOK, PastOK, Commands, Positions, Step, guestVars, envVars,
              sessionVars
  <1>1. ASSUME Abort PROVE IInv'
    BY <1>1 DEF Abort
  <1>2. CASE DialSSH \/ CloseClient
    BY <1>2 DEF DialSSH, CloseClient, Calling, Advance
  <1>3. CASE Validate
    BY <1>3 DEF Validate, Calling, Advance
  <1>4. CASE Finish
    BY <1>4 DEF Finish
  <1>5. CASE NewSession
    BY <1>5 DEF NewSession, Calling, Goto
  <1>6. CASE StartCryptsetup \/ StartCryptsetupFails
    BY <1>6 DEF StartCryptsetup, StartCryptsetupFails, Within, Goto
  <1>7. CASE Reply
    BY <1>7 DEF Reply, Within, Goto
  <1>8. CASE Disconnected \/ CopyGivesUp
    BY <1>8 DEF Disconnected, CopyGivesUp, Within, Goto
  <1>9. CASE ReturnNil
    BY <1>9 DEF ReturnNil, Within, Advance
  <1>10. CASE User
    BY <1>10 DEF User, TypePassword, ReadPasswordFails, Within, Goto
  <1>11. CASE DialFails \/ ValidateFails \/ NewSessionFails \/ ReturnError
    BY <1>1, <1>11 DEF DialFails, ValidateFails, NewSessionFails, ReturnError
  <1> QED
    BY <1>2, <1>3, <1>4, <1>5, <1>6, <1>7, <1>8, <1>9, <1>10, <1>11 DEF Program

\* So do the watchers, the guest and QEMU.
LEMMA OthersInv ==
    ASSUME IInv, Watch("ctx") \/ Watch("timer") \/ Environment
    PROVE  IInv'
  <1> USE DEF IInv, FlowOK, GuestOK, PastOK, Commands, Positions, Step, programVars, sessionVars,
              guestVars
  <1>1. ASSUME NEW kind, Watch(kind) PROVE IInv'
    BY <1>1 DEF Watch, Fires, Closes, Leaves
  <1>2. CASE GuestReceives
    BY <1>2 DEF GuestReceives, Within
  <1>3. CASE GuestFinishes
    BY <1>3 DEF GuestFinishes
  <1>4. CASE GuestHangs \/ CancelSignals \/ CancelEndsContext \/ QemuExits
    BY <1>4 DEF GuestHangs, CancelSignals, CancelEndsContext, QemuExits
  <1> QED
    BY <1>1, <1>2, <1>3, <1>4 DEF Environment

\* The invariant holds of every behaviour.
LEMMA Invariance == Spec => []IInv
  <1>1. Init => IInv
    <2> SUFFICES ASSUME Init PROVE IInv
      OBVIOUS
    <2>1. plan \in Seq(PlanSteps)
      BY PlanIsSequence DEF Init
    <2>2. Len(plan) \in Nat /\ Positions = 1..Len(plan)
      BY <2>1, LenProperties DEF Positions
    <2>3. FlowOK
      <3>1. at \in 1..Len(plan) + 1 /\ phase = "call" /\ outcome = "none" /\ cmdErr = FALSE
        BY <2>2 DEF Init
      <3> QED
        BY <2>1, <3>1 DEF FlowOK
    <2>4. GuestOK
      BY DEF Init, GuestOK
    <2>5. PastOK
      BY <2>2 DEF Init, PastOK, Commands
    <2> QED
      BY <2>3, <2>4, <2>5 DEF IInv
  <1>2. IInv /\ [Next]_vars => IInv'
    <2> SUFFICES ASSUME IInv, [Next]_vars PROVE IInv'
      OBVIOUS
    <2>1. CASE Next
      BY <2>1, ProgramInv, OthersInv DEF Next
    <2>2. CASE UNCHANGED vars
      BY <2>2 DEF vars, programVars, sessionVars, guestVars, envVars, IInv, FlowOK, GuestOK, PastOK,
                  Commands, Positions
    <2> QED
      BY <2>1, <2>2
  <1> QED
    BY <1>1, <1>2, PTL DEF Spec

-----------------------------------------------------------------------------

\* A command takes effect in the guest only after all planned before it did.
THEOREM OrderIsKept == Spec => []EffectsInOrder
  <1>1. IInv => EffectsInOrder
    BY DEF IInv, FlowOK, GuestOK, PastOK, EffectsInOrder, Commands, Positions
  <1> QED
    BY <1>1, Invariance, PTL

\* What is announced as done has been done by the guest, and every name was accepted.
THEOREM AnnouncedIsDone == Spec => []ShareIsComplete
  <1>1. IInv => ShareIsComplete
    BY DEF IInv, FlowOK, GuestOK, PastOK, ShareIsComplete, Commands, Positions
  <1> QED
    BY <1>1, Invariance, PTL

-----------------------------------------------------------------------------
(***************************************************************************)
(* The watchers.  One invariant more: a watcher belongs to a session that  *)
(* was begun, the watcher of the context fires only after its end, and a   *)
(* session that prompts has no timer yet.  What closes its connection is   *)
(* then the context, QEMU, or the timer of an earlier session on it.       *)
(***************************************************************************)

Prompting == phase \in {"start", "prompt"}

WatchersOK ==
    /\ watch \cup firing \subseteq Commands \X {"ctx", "timer"}
    /\ \A w \in watch \cup firing : w[1] <= at /\ (w[1] = at => phase # "call")
    /\ \A w \in firing : w[2] = "ctx" => ctxDone

Interrupted ==
    \/ ctxDone \/ qemu = "down"
    \/ \E i \in Commands : i < at /\ plan[i].client = Step.client

PatienceOK ==
    /\ Prompting => <<at, "timer">> \notin watch \cup firing
    /\ Prompting => ~timedOut \/ ctxDone

ConnectionOK == Prompting => Step.client \in open \/ Interrupted

SInv == WatchersOK /\ PatienceOK

\* No step changes the plan.
LEMMA PlanStays ==
    ASSUME IInv, [Next]_vars
    PROVE  plan' = plan /\ Commands' = Commands /\ Commands \subseteq Nat
  <1> USE DEF vars, programVars, sessionVars, guestVars, envVars
  <1>1. Abort => plan' = plan
    BY DEF Abort
  <1>2. Program \/ User => plan' = plan
    BY <1>1 DEF Program, User, DialSSH, DialFails, CloseClient, Validate, ValidateFails, Finish,
                NewSession, NewSessionFails, StartCryptsetup, StartCryptsetupFails, Reply,
                Disconnected, CopyGivesUp, ReturnNil, ReturnError, TypePassword,
                ReadPasswordFails, Advance, Goto
  <1>3. Watch("ctx") \/ Watch("timer") \/ Environment => plan' = plan
    BY DEF Watch, Fires, Closes, Leaves, Environment, GuestReceives, GuestFinishes, GuestHangs,
           CancelSignals, CancelEndsContext, QemuExits
  <1>4. plan' = plan
    BY <1>2, <1>3 DEF Next
  <1>5. Commands \subseteq Nat
    BY LenProperties DEF IInv, FlowOK, Commands, Positions
  <1> QED
    BY <1>4, <1>5 DEF Commands, Positions

\* The program keeps the invariant of the watchers.
LEMMA ProgramPatience ==
    ASSUME IInv, SInv, Program \/ User
    PROVE  SInv'
  <1> USE DEF SInv, WatchersOK, PatienceOK, Prompting, Step, guestVars, envVars, sessionVars
  <1>0. at \in Nat /\ plan' = plan /\ Commands' = Commands /\ Commands \subseteq Nat
        /\ (phase # "call" => at \in Commands)
    BY PlanStays, LenProperties DEF Next, IInv, FlowOK
  <1>1. ASSUME Abort PROVE SInv'
    BY <1>0, <1>1 DEF Abort
  <1>2. \A w \in watch \cup firing : w[1] \in Nat /\ w[1] <= at + 1 /\ w[1] # at + 1
    <2> TAKE w \in watch \cup firing
    <2>1. w[1] \in Commands /\ w[1] <= at
      OBVIOUS
    <2>2. w[1] \in Nat
      BY <1>0, <2>1
    <2> HIDE DEF SInv
    <2> QED
      BY <1>0, <2>1, <2>2
  <1>3. ASSUME at' = at + 1, phase' = "call", ctxDone' = ctxDone,
               watch' \subseteq watch, firing' \subseteq firing
        PROVE  SInv'
    <2>1. WatchersOK'
      BY <1>0, <1>2, <1>3
    <2> QED
      BY <1>3, <2>1
  <1>4. CASE DialSSH \/ CloseClient \/ Validate \/ ReturnNil
    BY <1>3, <1>4 DEF DialSSH, CloseClient, Validate, ReturnNil, Advance
  <1>9. CASE Finish
    BY <1>0, <1>9 DEF Finish
  <1>5. CASE NewSession
    <2>1. /\ watch' \subseteq watch \cup {<<at, "ctx">>, <<at, "timer">>}
          /\ NeedsPassword(Step.cmd) => watch' \subseteq watch \cup {<<at, "ctx">>}
      BY <1>5 DEF NewSession, ContextWatcher, Timer
    <2>2. /\ phase' = IF NeedsPassword(Step.cmd) THEN "start" ELSE "wait"
          /\ phase = "call" /\ at' = at /\ firing' = firing /\ timedOut' = FALSE
      BY <1>5 DEF NewSession, Goto, Calling
    <2>5. at \in Commands
      BY <1>5 DEF NewSession, Calling, Commands
    <2>6. \A w \in watch' \cup firing' :
            w \in watch \cup firing \/ w = <<at, "ctx">> \/ w = <<at, "timer">>
      BY <2>1, <2>2
    <2>7. <<at, "ctx">> \in Commands \X {"ctx", "timer"} /\ <<at, "ctx">>[1] = at
          /\ <<at, "timer">> \in Commands \X {"ctx", "timer"} /\ <<at, "timer">>[1] = at
      BY <2>5
    <2>8. phase' # "call" /\ ctxDone' = ctxDone /\ at <= at
      BY <1>0, <1>5, <2>2 DEF NewSession
    <2>3. WatchersOK'
      BY <1>0, <2>2, <2>6, <2>7, <2>8
    <2>4. PatienceOK'
      BY <1>0, <2>1, <2>2
    <2> QED
      BY <2>3, <2>4
  <1>6. CASE StartCryptsetup \/ StartCryptsetupFails
    BY <1>0, <1>6 DEF StartCryptsetup, StartCryptsetupFails, Within, Goto
  <1>7. CASE TypePassword
    <2>1. /\ watch' = watch \cup {<<at, "timer">>} /\ firing' = firing
          /\ at' = at /\ phase' = "wait" /\ phase # "call" /\ ctxDone' = ctxDone
      BY <1>7 DEF TypePassword, Within, Goto, Timer
    <2>2. <<at, "timer">> \in Commands \X {"ctx", "timer"} /\ <<at, "timer">>[1] = at
          /\ at <= at
      BY <1>0, <2>1
    <2>3. WatchersOK'
      BY <1>0, <2>1, <2>2
    <2> QED
      BY <2>1, <2>3
  <1>8. CASE ReadPasswordFails \/ Reply \/ Disconnected \/ CopyGivesUp
    BY <1>0, <1>8 DEF ReadPasswordFails, Reply, Disconnected, CopyGivesUp, Within, Goto
  <1>10. CASE DialFails \/ ValidateFails \/ NewSessionFails \/ ReturnError
    BY <1>1, <1>10 DEF DialFails, ValidateFails, NewSessionFails, ReturnError
  <1> QED
    BY <1>4, <1>5, <1>6, <1>7, <1>8, <1>9, <1>10 DEF Program, User

\* So do the others.
LEMMA OthersPatience ==
    ASSUME IInv, SInv, Watch("ctx") \/ Watch("timer") \/ Environment
    PROVE  SInv'
  <1> USE DEF SInv, WatchersOK, PatienceOK, Prompting, programVars, sessionVars, guestVars, envVars
  <1>0. at \in Nat /\ plan' = plan /\ Commands' = Commands /\ Commands \subseteq Nat
    BY PlanStays, LenProperties DEF Next, IInv, FlowOK
  <1>1. ASSUME NEW kind, Fires(kind) PROVE SInv'
    <2>1. PICK w \in watch :
            /\ kind = w[2] /\ (kind = "ctx" => ctxDone)
            /\ watch' = watch \ {w} /\ firing' = firing \cup {w}
            /\ timedOut' = (timedOut \/ (w[1] = at /\ phase # "call"))
      BY <1>1 DEF Fires
    <2>2. at' = at /\ phase' = phase /\ ctxDone' = ctxDone
      BY <1>1 DEF Fires
    <2>3. w = <<w[1], w[2]>> /\ w[2] \in {"ctx", "timer"}
      OBVIOUS
    <2>4. CASE Prompting /\ w[1] = at
      <3>1. w[2] = "ctx"
        BY <2>3, <2>4
      <3> QED
        BY <1>0, <2>1, <2>2, <2>3, <3>1
    <2>5. CASE ~(Prompting /\ w[1] = at)
      BY <1>0, <2>1, <2>2, <2>3, <2>5
    <2> QED
      BY <2>4, <2>5
  <1>2. ASSUME NEW kind, Closes(kind) \/ Leaves(kind) PROVE SInv'
    BY <1>0, <1>2 DEF Closes, Leaves
  <1>3. CASE Environment
    BY <1>0, <1>3 DEF Environment, GuestReceives, GuestFinishes, GuestHangs, CancelSignals,
                CancelEndsContext, QemuExits, Within
  <1> QED
    BY <1>1, <1>2, <1>3 DEF Watch

\* A session that prompts keeps its connection, unless it is interrupted.
LEMMA ConnectionStep ==
    ASSUME IInv, SInv, ConnectionOK, [Next]_vars
    PROVE  ConnectionOK'
  <1> USE DEF vars, programVars, sessionVars, guestVars, envVars
  <1>0. plan' = plan /\ Commands' = Commands /\ Commands \subseteq Nat /\ at \in Nat
    BY PlanStays, LenProperties DEF IInv, FlowOK
  <1>1. ASSUME at' = at, Prompting' => Prompting, ctxDone => ctxDone',
               qemu = "down" => qemu' = "down",
               Prompting => Step.client \in open' \/ Step.client \notin open \/ Interrupted
        PROVE  ConnectionOK'
    BY <1>0, <1>1 DEF ConnectionOK, Interrupted, Step
  <1>2. ASSUME phase' = "call" \/ phase' = "wait" \/ phase' = "return"
        PROVE  ConnectionOK'
    BY <1>2 DEF ConnectionOK, Prompting
  <1>3. CASE Program \/ User
    <2>1. Abort => ConnectionOK'
      BY <1>2 DEF Abort
    <2>2. CASE DialSSH \/ DialFails \/ CloseClient \/ Validate \/ ValidateFails
                \/ NewSessionFails \/ ReturnNil \/ ReturnError
      BY <1>2, <2>1, <2>2 DEF DialSSH, DialFails, CloseClient, Validate, ValidateFails,
                              NewSessionFails, ReturnNil, ReturnError, Advance
    <2>3. CASE StartCryptsetupFails \/ Reply \/ Disconnected \/ CopyGivesUp \/ User
      BY <1>2, <2>3 DEF StartCryptsetupFails, Reply, Disconnected, CopyGivesUp, User, TypePassword,
                        ReadPasswordFails, Goto
    <2>4. CASE NewSession
      <3>1. at' = at /\ open' = open /\ Step.client \in open
        BY <2>4 DEF NewSession, Goto, Answers
      <3> QED
        BY <1>0, <3>1 DEF ConnectionOK, Step
    <2>5. CASE StartCryptsetup \/ Finish
      BY <1>1, <2>5 DEF StartCryptsetup, Finish, Goto, Within, Prompting
    <2> QED
      BY <1>3, <2>2, <2>3, <2>4, <2>5 DEF Program
  <1>4. ASSUME NEW kind, Fires(kind) \/ Leaves(kind) PROVE ConnectionOK'
    BY <1>1, <1>4 DEF Fires, Leaves, Prompting
  <1>5. ASSUME NEW kind, Closes(kind) PROVE ConnectionOK'
    <2>1. PICK w \in firing : open' = open \ {plan[w[1]].client}
      BY <1>5 DEF Closes
    <2>2. /\ w[1] \in Commands /\ w[1] <= at /\ w[2] \in {"ctx", "timer"} /\ w = <<w[1], w[2]>>
          /\ w[2] = "ctx" => ctxDone
          /\ Prompting => <<at, "timer">> # w
      BY DEF SInv, WatchersOK, PatienceOK
    <2>3. UNCHANGED <<at, phase, ctxDone, qemu>>
      BY <1>5 DEF Closes
    <2>4. Prompting /\ plan[w[1]].client = Step.client => Interrupted
      <3>1. SUFFICES ASSUME Prompting, plan[w[1]].client = Step.client, w[2] = "timer"
                     PROVE  Interrupted
        BY <2>2 DEF Interrupted
      <3>2. w[1] < at
        BY <1>0, <2>2, <3>1
      <3> QED
        BY <2>2, <3>1, <3>2 DEF Interrupted
    <2> QED
      BY <1>1, <2>1, <2>3, <2>4 DEF Prompting
  <1>6. CASE Environment
    <2>1. CASE QemuExits
      BY <1>0, <2>1 DEF QemuExits, ConnectionOK, Interrupted
    <2>2. CASE Environment /\ ~QemuExits
      BY <1>1, <2>2 DEF Environment, GuestReceives, GuestFinishes, GuestHangs, CancelSignals,
                        CancelEndsContext, Prompting
    <2> QED
      BY <1>6, <2>1, <2>2
  <1>7. CASE UNCHANGED vars
    BY <1>1, <1>7 DEF Prompting
  <1> QED
    BY <1>3, <1>4, <1>5, <1>6, <1>7 DEF Next, Watch

\* While the user is at the prompt for a password, the session does not time out, and only
\* the end of the context or of QEMU, or the late timer of an earlier session on the same
\* connection, closes its connection.
THEOREM PromptWaits == Spec => []PromptIsPatient
  <1>1. Init => SInv /\ ConnectionOK
    BY DEF Init, SInv, WatchersOK, PatienceOK, ConnectionOK, Prompting
  <1>2. IInv /\ SInv /\ [Next]_vars => SInv'
    <2> SUFFICES ASSUME IInv, SInv, [Next]_vars PROVE SInv'
      OBVIOUS
    <2>1. CASE Next
      BY <2>1, ProgramPatience, OthersPatience DEF Next
    <2>2. CASE UNCHANGED vars
      BY <2>2 DEF vars, programVars, sessionVars, guestVars, envVars, SInv, WatchersOK,
                  PatienceOK, Prompting, Commands, Positions
    <2> QED
      BY <2>1, <2>2
  <1>3. SInv /\ ConnectionOK => PromptIsPatient
    BY DEF SInv, PatienceOK, ConnectionOK, Prompting, Interrupted, PromptIsPatient
  <1> QED
    BY <1>1, <1>2, <1>3, ConnectionStep, Invariance, PTL DEF Spec

-----------------------------------------------------------------------------

\* The types of what the proofs above leave aside.
TypeInv ==
    /\ config \in Configs /\ plan = Plan(config)
    /\ timedOut \in BOOLEAN
    /\ watch \subseteq Watchers /\ firing \subseteq Watchers
    /\ open \subseteq Clients
    /\ guest \in {"ok", "hung"}
    /\ qemu \in {"up", "signalled", "down"}
    /\ ctxDone \in BOOLEAN

\* Every step keeps these types.
LEMMA TypeStep ==
    ASSUME IInv, TypeInv, [Next]_vars
    PROVE  TypeInv'
  <1> USE DEF TypeInv, programVars, sessionVars, guestVars, envVars
  <1>0. /\ config' = config /\ plan' = plan
        /\ Watchers' = Watchers
        /\ at \in Commands => <<at, "ctx">> \in Watchers /\ <<at, "timer">> \in Watchers
        /\ phase # "call" => at \in Commands
        /\ \A i \in Positions : plan[i] \in PlanSteps
    <2>1. config' = config /\ plan' = plan
      BY DEF Next, Program, User, Watch, Environment, vars, DialSSH, DialFails, CloseClient,
             Validate, ValidateFails, Finish, NewSession, NewSessionFails, StartCryptsetup,
             StartCryptsetupFails, Reply, Disconnected, CopyGivesUp, ReturnNil, ReturnError,
             TypePassword, ReadPasswordFails, Fires, Closes, Leaves, GuestReceives, GuestFinishes,
             GuestHangs, CancelSignals, CancelEndsContext, QemuExits, Advance, Abort, Goto
    <2>2. \A i \in Positions : plan[i] \in PlanSteps
      BY ElementOfSeq, LenProperties DEF IInv, FlowOK, Positions
    <2>3. Watchers' = Watchers
      BY <2>1 DEF Watchers, Commands, Positions
    <2>4. at \in Commands => <<at, "ctx">> \in Watchers /\ <<at, "timer">> \in Watchers
      BY DEF Watchers
    <2> QED
      BY <2>1, <2>2, <2>3, <2>4 DEF IInv, FlowOK
  <1>1. CASE Program
    <2>1. ASSUME Abort PROVE TypeInv'
      BY <1>0, <2>1 DEF Abort
    <2>2. CASE DialSSH
      <3>1. Step.client \in Clients
        BY <1>0, <2>2 DEF DialSSH, Calling, Step, PlanSteps
      <3> QED
        BY <1>0, <2>2, <3>1 DEF DialSSH, Advance
    <2>3. CASE CloseClient
      BY <1>0, <2>3 DEF CloseClient, Advance
    <2>4. CASE NewSession
      <3>1. at \in Commands
        BY <2>4 DEF NewSession, Calling, Step, Commands
      <3>2. watch' \subseteq watch \cup {<<at, "ctx">>, <<at, "timer">>}
        BY <2>4 DEF NewSession, ContextWatcher, Timer
      <3>3. /\ UNCHANGED <<config, plan, firing, open, guest, qemu, ctxDone>>
            /\ timedOut' = FALSE
        BY <2>4 DEF NewSession, Goto
      <3> HIDE DEF NewSession
      <3> QED
        BY <1>0, <3>1, <3>2, <3>3
    <2>5. CASE Validate \/ Finish \/ StartCryptsetup \/ StartCryptsetupFails \/ Reply
               \/ Disconnected \/ CopyGivesUp \/ ReturnNil
      BY <1>0, <2>5 DEF Validate, Finish, StartCryptsetup, StartCryptsetupFails, Reply,
                        Disconnected, CopyGivesUp, ReturnNil, Advance, Goto
    <2>6. CASE DialFails \/ ValidateFails \/ NewSessionFails \/ ReturnError
      BY <2>1, <2>6 DEF DialFails, ValidateFails, NewSessionFails, ReturnError
    <2> QED
      BY <1>1, <2>2, <2>3, <2>4, <2>5, <2>6 DEF Program
  <1>2. CASE User
    <2>1. /\ watch' \subseteq watch \cup {<<at, "timer">>}
          /\ UNCHANGED <<config, plan, timedOut, firing, open, guest, qemu, ctxDone>>
          /\ phase = "prompt"
      BY <1>2 DEF User, TypePassword, ReadPasswordFails, Goto, Timer, Within
    <2> QED
      BY <1>0, <2>1
  <1>3. ASSUME NEW kind, Watch(kind) PROVE TypeInv'
    BY <1>0, <1>3 DEF Watch, Fires, Closes, Leaves
  <1>4. CASE Environment
    BY <1>0, <1>4 DEF Environment, GuestReceives, GuestFinishes, GuestHangs, CancelSignals,
                      CancelEndsContext, QemuExits
  <1>5. CASE UNCHANGED vars
    BY <1>0, <1>5 DEF vars
  <1> QED
    BY <1>1, <1>2, <1>3, <1>4, <1>5 DEF Next

\* Every variable keeps its type, so that a session is at a command of the plan and only
\* sessions of commands have watchers.
THEOREM TypeCorrect == Spec => []TypeOK
  <1>1. Init => TypeInv
    BY DEF Init, TypeInv, Configs
  <1>2. IInv /\ TypeInv => TypeOK
    BY DEF IInv, FlowOK, GuestOK, TypeInv, TypeOK
  <1> QED
    BY <1>1, <1>2, TypeStep, Invariance, PTL DEF Spec

-----------------------------------------------------------------------------
(***************************************************************************)
(* The contract.  The plan is a concatenation of parts; what is asked of   *)
(* it, and that everything comes after what it needs, is shown part by     *)
(* part.                                                                   *)
(***************************************************************************)

CommandsIn(s) == {i \in DOMAIN s : s[i].op = "run"}
EffectsOf(s) == {Effect(s[i]) : i \in CommandsIn(s)}

\* Of the effects in asked, what a command of s needs is given, or s has it earlier.
Ordered(s, given, asked) ==
    \A i \in CommandsIn(s) : \A e \in Share!Needs(Effect(s[i])) \cap asked :
        e \in given \/ \E j \in CommandsIn(s) : j < i /\ Effect(s[j]) = e

\* The effects of a concatenation are those of its parts, and it is ordered when its parts
\* are, the second with the effects of the first given.
LEMMA Parts ==
    ASSUME NEW s \in Seq(PlanSteps), NEW t \in Seq(PlanSteps)
    PROVE  /\ s \o t \in Seq(PlanSteps)
           /\ EffectsOf(s \o t) = EffectsOf(s) \cup EffectsOf(t)
           /\ \A given, asked :
                Ordered(s, given, asked) /\ Ordered(t, given \cup EffectsOf(s), asked)
                    => Ordered(s \o t, given, asked)
  <1> DEFINE n == Len(s)
             u == s \o t
  <1>1. /\ u \in Seq(PlanSteps)
        /\ n \in Nat /\ Len(t) \in Nat /\ Len(u) = n + Len(t)
        /\ DOMAIN s = 1..n /\ DOMAIN t = 1..Len(t) /\ DOMAIN u = 1..n + Len(t)
        /\ \A i \in 1..n + Len(t) : u[i] = IF i <= n THEN s[i] ELSE t[i - n]
    BY ConcatProperties, LenProperties
  <1>2. \A i \in CommandsIn(s) : i \in CommandsIn(u) /\ u[i] = s[i] /\ i <= n
    BY <1>1 DEF CommandsIn
  <1>3. \A i \in CommandsIn(t) : i + n \in CommandsIn(u) /\ u[i + n] = t[i] /\ i \in Nat \ {0}
    <2> SUFFICES ASSUME NEW i \in CommandsIn(t)
                 PROVE  i + n \in CommandsIn(u) /\ u[i + n] = t[i] /\ i \in Nat \ {0}
      OBVIOUS
    <2>1. i \in 1..Len(t) /\ t[i].op = "run"
      BY <1>1 DEF CommandsIn
    <2>2. i + n \in 1..n + Len(t) /\ ~(i + n <= n) /\ (i + n) - n = i
      BY <1>1, <2>1
    <2>3. u[i + n] = t[i]
      BY <1>1, <2>2
    <2> HIDE DEF u
    <2> QED
      BY <1>1, <2>1, <2>2, <2>3 DEF CommandsIn
  <1>4. ASSUME NEW i \in CommandsIn(u)
        PROVE  \/ i \in CommandsIn(s) /\ u[i] = s[i]
               \/ i - n \in CommandsIn(t) /\ u[i] = t[i - n] /\ i > n /\ i \in Nat
    <2>1. i \in 1..n + Len(t) /\ u[i].op = "run"
      BY <1>1 DEF CommandsIn
    <2> HIDE DEF u
    <2>2. CASE i <= n
      BY <1>1, <2>1, <2>2 DEF CommandsIn
    <2>3. CASE i > n
      <3>1. i - n \in 1..Len(t) /\ u[i] = t[i - n] /\ i \in Nat
        BY <1>1, <2>1, <2>3
      <3> QED
        BY <1>1, <2>1, <2>3, <3>1 DEF CommandsIn
    <2> QED
      BY <1>1, <2>1, <2>2, <2>3
  <1> HIDE DEF u
  <1>5. EffectsOf(u) = EffectsOf(s) \cup EffectsOf(t)
    <2>1. ASSUME NEW e \in EffectsOf(u) PROVE e \in EffectsOf(s) \cup EffectsOf(t)
      BY <1>4 DEF EffectsOf
    <2>2. ASSUME NEW e \in EffectsOf(s) \cup EffectsOf(t) PROVE e \in EffectsOf(u)
      BY <1>2, <1>3 DEF EffectsOf
    <2> QED
      BY <2>1, <2>2
  <1>6. ASSUME NEW given, NEW asked,
               Ordered(s, given, asked), Ordered(t, given \cup EffectsOf(s), asked)
        PROVE  Ordered(u, given, asked)
    <2> SUFFICES ASSUME NEW i \in CommandsIn(u), NEW e \in Share!Needs(Effect(u[i])) \cap asked,
                        e \notin given
                 PROVE  \E j \in CommandsIn(u) : j < i /\ Effect(u[j]) = e
      BY DEF Ordered
    <2>1. CASE i \in CommandsIn(s) /\ u[i] = s[i]
      <3>1. PICK j \in CommandsIn(s) : j < i /\ Effect(s[j]) = e
        BY <1>6, <2>1 DEF Ordered
      <3> QED
        BY <1>2, <3>1
    <2>2. CASE i - n \in CommandsIn(t) /\ u[i] = t[i - n] /\ i > n /\ i \in Nat
      <3>1. \/ e \in EffectsOf(s)
            \/ \E j \in CommandsIn(t) : j < i - n /\ Effect(t[j]) = e
        BY <1>6, <2>2 DEF Ordered
      <3>2. CASE e \in EffectsOf(s)
        <4>1. PICK j \in CommandsIn(s) : Effect(s[j]) = e
          BY <3>2 DEF EffectsOf
        <4>2. j \in CommandsIn(u) /\ u[j] = s[j] /\ j <= n /\ j \in Nat
          BY <1>1, <1>2 DEF CommandsIn
        <4> QED
          BY <1>1, <2>2, <4>1, <4>2
      <3>3. CASE \E j \in CommandsIn(t) : j < i - n /\ Effect(t[j]) = e
        <4>1. PICK j \in CommandsIn(t) : j < i - n /\ Effect(t[j]) = e
          BY <3>3
        <4>2. j + n \in CommandsIn(u) /\ u[j + n] = t[j] /\ j \in Nat
          BY <1>3
        <4>3. j + n < i
          BY <1>1, <2>2, <4>1, <4>2
        <4> QED
          BY <4>1, <4>2, <4>3
      <3> QED
        BY <3>1, <3>2, <3>3
    <2> QED
      BY <1>4, <2>1, <2>2
  <1> QED
    BY <1>1, <1>5, <1>6 DEF u

\* A part of a plan: the effects it has, when others are given.
Part(s, effects, given, asked) ==
    s \in Seq(PlanSteps) /\ EffectsOf(s) = effects /\ Ordered(s, given, asked)

\* Two parts make one when the first has what the second is given.
LEMMA PartsJoin ==
    ASSUME NEW s, NEW t, NEW e, NEW f, NEW u, NEW given, NEW more, NEW asked,
           Part(s, e, given, asked), Part(t, f, more, asked),
           more \subseteq given \cup e, u = e \cup f
    PROVE  Part(s \o t, u, given, asked)
  <1>1. s \in Seq(PlanSteps) /\ t \in Seq(PlanSteps) /\ EffectsOf(s) = e /\ EffectsOf(t) = f
    BY DEF Part
  <1>2. Ordered(s, given, asked) /\ Ordered(t, given \cup EffectsOf(s), asked)
    BY <1>1 DEF Part, Ordered
  <1> QED
    BY <1>1, <1>2, Parts DEF Part

\* An optional part.
LEMMA PartOptional ==
    ASSUME NEW condition, NEW s, NEW e, NEW given, NEW asked, Part(s, e, given, asked)
    PROVE  Part(Optionally(condition, s), Share!If(condition, e), given, asked)
  <1>1. Part(<<>>, {}, given, asked)
    BY EmptySeq DEF Part, EffectsOf, Ordered, CommandsIn
  <1> QED
    BY <1>1 DEF Optionally, Share!If

\* What a step does to the guest.
EffectOf(a) == IF a.op = "run" THEN {Effect(a)} ELSE {}
IsGiven(a, given, asked) == a.op = "run" => Share!Needs(Effect(a)) \cap asked \subseteq given

\* The literal parts of a plan, of up to three steps.
LEMMA ShortParts ==
    ASSUME NEW a \in PlanSteps, NEW b \in PlanSteps, NEW c \in PlanSteps, NEW given, NEW asked,
           IsGiven(a, given, asked), IsGiven(b, given, asked), IsGiven(c, given, asked)
    PROVE  /\ Part(<<a>>, EffectOf(a), given, asked)
           /\ Part(<<a, b>>, EffectOf(a) \cup EffectOf(b), given, asked)
           /\ Part(<<a, b, c>>, EffectOf(a) \cup EffectOf(b) \cup EffectOf(c), given, asked)
  <1>1. ASSUME NEW s \in Seq(PlanSteps), NEW n \in 1..3, Len(s) = n,
               \A i \in 1..n : IsGiven(s[i], given, asked),
               NEW e, \A x : x \in e <=> \E i \in 1..n : x \in EffectOf(s[i])
        PROVE  Part(s, e, given, asked)
    <2>1. DOMAIN s = 1..n
      BY <1>1, LenProperties
    <2>2. EffectsOf(s) = e
      BY <1>1, <2>1 DEF EffectsOf, EffectOf, CommandsIn
    <2>3. Ordered(s, given, asked)
      BY <1>1, <2>1 DEF Ordered, CommandsIn, IsGiven
    <2> QED
      BY <2>2, <2>3 DEF Part
  <1>2. Part(<<a>>, EffectOf(a), given, asked)
    <2> DEFINE s == <<a>>
               e == EffectOf(a)
    <2>1. /\ 1 \in 1..3 /\ s \in Seq(PlanSteps) /\ Len(s) = 1
          /\ s[1] = a
      OBVIOUS
    <2>2. e = EffectOf(a)
      OBVIOUS
    <2> HIDE DEF s, e
    <2>3. \A i \in 1..1 : IsGiven(s[i], given, asked)
      BY <2>1
    <2>4. \A x : x \in e <=> \E i \in 1..1 : x \in EffectOf(s[i])
      BY <2>1, <2>2
    <2>5. Part(s, e, given, asked)
      BY <1>1, <2>1, <2>3, <2>4
    <2> QED
      BY <2>5 DEF s, e
  <1>3. Part(<<a, b>>, EffectOf(a) \cup EffectOf(b), given, asked)
    <2> DEFINE s == <<a, b>>
               e == EffectOf(a) \cup EffectOf(b)
    <2>1. /\ 2 \in 1..3 /\ s \in Seq(PlanSteps) /\ Len(s) = 2
          /\ s[1] = a /\ s[2] = b
      OBVIOUS
    <2>2. e = EffectOf(a) \cup EffectOf(b)
      OBVIOUS
    <2> HIDE DEF s, e
    <2>3. \A i \in 1..2 : IsGiven(s[i], given, asked)
      BY <2>1
    <2>4. \A x : x \in e <=> \E i \in 1..2 : x \in EffectOf(s[i])
      BY <2>1, <2>2
    <2>5. Part(s, e, given, asked)
      BY <1>1, <2>1, <2>3, <2>4
    <2> QED
      BY <2>5 DEF s, e
  <1>4. Part(<<a, b, c>>, EffectOf(a) \cup EffectOf(b) \cup EffectOf(c), given, asked)
    <2> DEFINE s == <<a, b, c>>
               e == EffectOf(a) \cup EffectOf(b) \cup EffectOf(c)
    <2>1. /\ 3 \in 1..3 /\ s \in Seq(PlanSteps) /\ Len(s) = 3
          /\ s[1] = a /\ s[2] = b /\ s[3] = c
      OBVIOUS
    <2>2. e = EffectOf(a) \cup EffectOf(b) \cup EffectOf(c)
      OBVIOUS
    <2> HIDE DEF s, e
    <2>3. \A i \in 1..3 : IsGiven(s[i], given, asked)
      BY <2>1
    <2>4. \A x : x \in e <=> \E i \in 1..3 : x \in EffectOf(s[i])
      BY <2>1, <2>2
    <2>5. Part(s, e, given, asked)
      BY <1>1, <2>1, <2>3, <2>4
    <2> QED
      BY <2>5 DEF s, e
  <1> QED
    BY <1>2, <1>3, <1>4

\* Parts with one command, and without one.
LEMMA PartOfOneCommand ==
    ASSUME NEW d \in PlanSteps, NEW r \in PlanSteps, NEW c \in PlanSteps,
           NEW e, NEW given, NEW asked,
           d.op # "run", r.op = "run", c.op # "run",
           Effect(r) = e, Share!Needs(e) \cap asked \subseteq given
    PROVE  /\ Part(<<d>>, {}, given, asked)
           /\ Part(<<d, c>>, {}, given, asked)
           /\ Part(<<r>>, {e}, given, asked)
           /\ Part(<<d, r>>, {e}, given, asked)
           /\ Part(<<r, c>>, {e}, given, asked)
           /\ Part(<<d, r, c>>, {e}, given, asked)
  <1>1. /\ EffectOf(d) = {} /\ EffectOf(r) = {e} /\ EffectOf(c) = {}
        /\ IsGiven(d, given, asked) /\ IsGiven(r, given, asked) /\ IsGiven(c, given, asked)
    BY DEF EffectOf, IsGiven
  <1>2. /\ EffectOf(d) \cup EffectOf(c) = {}
        /\ EffectOf(d) \cup EffectOf(r) = {e}
        /\ EffectOf(r) \cup EffectOf(c) = {e}
        /\ EffectOf(d) \cup EffectOf(r) \cup EffectOf(c) = {e}
    BY <1>1
  <1>3. Part(<<d>>, {}, given, asked) /\ Part(<<r>>, {e}, given, asked)
    BY <1>1, ShortParts
  <1>4. Part(<<d, c>>, {}, given, asked)
    <2>1. Part(<<d, c>>, EffectOf(d) \cup EffectOf(c), given, asked)
      BY <1>1, ShortParts
    <2> QED
      BY <1>2, <2>1
  <1>5. Part(<<d, r>>, {e}, given, asked)
    <2>1. Part(<<d, r>>, EffectOf(d) \cup EffectOf(r), given, asked)
      BY <1>1, ShortParts
    <2> QED
      BY <1>2, <2>1
  <1>6. Part(<<r, c>>, {e}, given, asked)
    <2>1. Part(<<r, c>>, EffectOf(r) \cup EffectOf(c), given, asked)
      BY <1>1, ShortParts
    <2> QED
      BY <1>2, <2>1
  <1>7. Part(<<d, r, c>>, {e}, given, asked)
    <2>1. Part(<<d, r, c>>, EffectOf(d) \cup EffectOf(r) \cup EffectOf(c), given, asked)
      BY <1>1, ShortParts
    <2> QED
      BY <1>2, <2>1
  <1> QED
    BY <1>3, <1>4, <1>5, <1>6, <1>7

\* The plan of a command line has the effects the command line asks for, each after those
\* it needs.
LEMMA PlanKeepsNeeds ==
    ASSUME NEW cf \in Configs
    PROVE  Part(Plan(cf), Share!Asked(cf), {}, Share!Asked(cf))
  <1> DEFINE A == Share!Asked(cf)
             V == {"vgchange"}
             T == Share!If(cf.tap, {"ifconfig"})
             P == Share!If(cf.preopen, {"luksContainer", "containerVolumes"})
             D == Share!If(cf.luks, {"luksDevice"})
             R == {"copyConfig", "rcService", "changePass"}
  <1>1. /\ T = A \cap {"ifconfig"}
        /\ P = A \cap {"luksContainer", "containerVolumes"}
        /\ D = A \cap {"luksDevice"}
        /\ cf.command = "run" => A = V \cup T \cup P \cup D \cup {"mount"} \cup R
        /\ cf.command # "run" => T = {} /\ A = V \cup P \cup {"lsblk"}
    BY DEF Configs, Share!Asked, Share!If
  <1>0. /\ \A c \in Clients : Dial(c) \in PlanSteps /\ Close(c) \in PlanSteps
        /\ \A c \in Clients : \A n \in Names : Run(c, n) \in PlanSteps
        /\ \A n \in Names : Check(n) \in PlanSteps
        /\ \A c \in Clients : Dial(c).op # "run" /\ Close(c).op # "run"
        /\ \A n \in Names : Check(n).op # "run"
        /\ \A c \in Clients : \A n \in Names : Run(c, n).op = "run"
        /\ \A c \in Clients \ {"relvm"} : \A n \in Names : Effect(Run(c, n)) = n
        /\ \A n \in Names : Effect(Run("relvm", n)) = "containerVolumes"
    BY DEF PlanSteps, Names, Dial, Run, Close, Check, Effect
  <1>n. \A x \in {"vgchange", "ifconfig", "luksContainer", "luksDevice", "mount", "copyConfig",
                  "rcService", "changePass", "lsblk", "container", "device"} : x \in Names
    BY DEF Names
  <1>c. \A x \in {"init", "relvm", "net", "preopen", "mount", "scp", "share", "list"} :
            x \in Clients
    BY DEF Clients
  <1>2. /\ Share!Needs("vgchange") = {} /\ Share!Needs("ifconfig") = {}
        /\ Share!Needs("copyConfig") = {} /\ Share!Needs("changePass") = {}
        /\ Share!Needs("luksContainer") = V
        /\ Share!Needs("containerVolumes") = {"luksContainer"}
        /\ Share!Needs("luksDevice") \cap A \subseteq V \cup P
        /\ Share!Needs("mount") \cap A \subseteq V \cup P \cup D
        /\ Share!Needs("rcService") \cap A \subseteq {"mount", "copyConfig"} \cup T
        /\ Share!Needs("lsblk") \cap A \subseteq V \cup P
    BY <1>1 DEF Share!Needs
  <1> HIDE DEF A, T, P, D
  <1>s. ASSUME NEW c \in Clients, NEW n \in Names, NEW e, NEW given,
               Effect(Run(c, n)) = e, Share!Needs(e) \cap A \subseteq given
        PROVE  /\ Part(<<Dial(c)>>, {}, given, A) /\ Part(<<Close(c)>>, {}, given, A)
               /\ \A x \in Names : Part(<<Check(x), Dial(c)>>, {}, given, A)
               /\ Part(<<Run(c, n)>>, {e}, given, A)
               /\ Part(<<Dial(c), Run(c, n)>>, {e}, given, A)
               /\ \A x \in Names : Part(<<Check(x), Run(c, n)>>, {e}, given, A)
               /\ Part(<<Run(c, n), Close(c)>>, {e}, given, A)
               /\ Part(<<Dial(c), Run(c, n), Close(c)>>, {e}, given, A)
    <2>1. /\ Dial(c) \in PlanSteps /\ Run(c, n) \in PlanSteps /\ Close(c) \in PlanSteps
          /\ Dial(c).op # "run" /\ Run(c, n).op = "run" /\ Close(c).op # "run"
          /\ \A x \in Names : Check(x) \in PlanSteps /\ Check(x).op # "run"
      BY <1>0
    <2>2. /\ Part(<<Dial(c)>>, {}, given, A)
          /\ Part(<<Run(c, n)>>, {e}, given, A)
          /\ Part(<<Dial(c), Run(c, n)>>, {e}, given, A)
          /\ Part(<<Run(c, n), Close(c)>>, {e}, given, A)
          /\ Part(<<Dial(c), Run(c, n), Close(c)>>, {e}, given, A)
      BY <1>s, <2>1, PartOfOneCommand
    <2>3. Part(<<Close(c)>>, {}, given, A)
      BY <1>s, <2>1, PartOfOneCommand
    <2>4. ASSUME NEW x \in Names
          PROVE  /\ Part(<<Check(x), Dial(c)>>, {}, given, A)
                 /\ Part(<<Check(x), Run(c, n)>>, {e}, given, A)
      BY <1>s, <2>1, PartOfOneCommand
    <2> QED
      BY <2>2, <2>3, <2>4
  <1>3. Part(InitLVM("init"), V, {}, A)
    <2>1. Effect(Run("init", "vgchange")) = "vgchange"
          /\ Share!Needs("vgchange") \cap A \subseteq {}
      BY <1>0, <1>n, <1>c, <1>2
    <2> QED
      BY <1>n, <1>c, <1>s, <2>1 DEF InitLVM
  <1>4. Part(Optionally(cf.tap, ConfigureInterfaceStaticNet), T, V, A)
    <2>1. Part(ConfigureInterfaceStaticNet, {"ifconfig"}, V, A)
      <3>1. Effect(Run("net", "ifconfig")) = "ifconfig"
            /\ Share!Needs("ifconfig") \cap A \subseteq V
        BY <1>0, <1>n, <1>c, <1>2
      <3> QED
        BY <1>n, <1>c, <1>s, <3>1 DEF ConfigureInterfaceStaticNet
    <2> QED
      BY <2>1, PartOptional DEF T
  <1>5. ASSUME NEW c \in Clients \ {"relvm"}
        PROVE  Part(PreopenWithSSH(c), {"luksContainer", "containerVolumes"}, V, A)
    <2>1. Part(<<Check("container"), Run(c, "luksContainer")>>, {"luksContainer"}, V, A)
      <3>1. Effect(Run(c, "luksContainer")) = "luksContainer"
            /\ Share!Needs("luksContainer") \cap A \subseteq V
        BY <1>0, <1>n, <1>5, <1>2
      <3> QED
        BY <1>n, <1>5, <1>s, <3>1
    <2>2. Part(InitLVM("relvm"), {"containerVolumes"}, {"luksContainer"}, A)
      <3>1. Effect(Run("relvm", "vgchange")) = "containerVolumes"
            /\ Share!Needs("containerVolumes") \cap A \subseteq {"luksContainer"}
        BY <1>0, <1>n, <1>c, <1>2
      <3> QED
        BY <1>n, <1>c, <1>s, <3>1 DEF InitLVM
    <2> QED
      BY <2>1, <2>2, PartsJoin DEF PreopenWithSSH
  <1>6. CASE cf.command = "run"
    <2>1. Part(Mount(cf), P \cup D \cup {"mount"}, V, A)
      <3> DEFINE m1 == <<Check("device"), Dial("mount")>>
                 m2 == Optionally(cf.preopen, PreopenWithSSH("mount"))
                 m3 == Optionally(cf.luks, <<Run("mount", "luksDevice")>>)
                 m4 == <<Run("mount", "mount"), Close("mount")>>
      <3>1. Part(m1, {}, V, A)
        <4>1. Effect(Run("mount", "vgchange")) = "vgchange"
          BY <1>0, <1>n, <1>c
        <4>2. Share!Needs("vgchange") \cap A \subseteq V
          BY <1>2
        <4> QED
          BY <1>n, <1>c, <1>s, <4>1, <4>2
      <3>2. Part(m2, P, V, A)
        BY <1>5, <1>c, PartOptional DEF P
      <3>3. Part(m3, D, V \cup P, A)
        <4>1. Part(<<Run("mount", "luksDevice")>>, {"luksDevice"}, V \cup P, A)
          <5>1. Effect(Run("mount", "luksDevice")) = "luksDevice"
            BY <1>0, <1>n, <1>c
          <5> QED
            BY <1>n, <1>c, <1>2, <1>s, <5>1
        <4> QED
          BY <4>1, PartOptional DEF D
      <3>4. Part(m4, {"mount"}, V \cup P \cup D, A)
        <4>1. Effect(Run("mount", "mount")) = "mount"
          BY <1>0, <1>n, <1>c
        <4> QED
          BY <1>n, <1>c, <1>2, <1>s, <4>1
      <3>5. Mount(cf) = ((m1 \o m2) \o m3) \o m4
        BY DEF Mount
      <3> HIDE DEF m1, m2, m3, m4
      <3>6. Part(m1 \o m2, P, V, A)
        BY <3>1, <3>2, PartsJoin
      <3>7. Part((m1 \o m2) \o m3, P \cup D, V, A)
        BY <3>3, <3>6, PartsJoin
      <3>8. Part(((m1 \o m2) \o m3) \o m4, P \cup D \cup {"mount"}, V, A)
        BY <3>4, <3>7, PartsJoin
      <3> QED
        BY <3>5, <3>8
    <2>2. Part(StartGenericShare, R, {"mount"} \cup T, A)
      <3> DEFINE s == StartGenericShare
                 S7 == <<Dial("scp"), Run("scp", "copyConfig"), Close("scp"), Dial("share"),
                         Run("share", "rcService"), Run("share", "changePass"), Close("share")>>
      <3>1. /\ s = S7
            /\ s \in Seq(PlanSteps) /\ Len(s) = 7
            /\ s[1] = Dial("scp") /\ s[2] = Run("scp", "copyConfig") /\ s[3] = Close("scp")
            /\ s[4] = Dial("share") /\ s[5] = Run("share", "rcService")
            /\ s[6] = Run("share", "changePass") /\ s[7] = Close("share")
        <4>1. s = S7
          BY DEF StartGenericShare
        <4>2. /\ Dial("scp") \in PlanSteps /\ Run("scp", "copyConfig") \in PlanSteps
              /\ Close("scp") \in PlanSteps /\ Dial("share") \in PlanSteps
              /\ Run("share", "rcService") \in PlanSteps
              /\ Run("share", "changePass") \in PlanSteps /\ Close("share") \in PlanSteps
          BY <1>0, <1>n, <1>c
        <4> HIDE DEF s
        <4> QED
          BY <4>1, <4>2
      <3> HIDE DEF s
      <3>2. DOMAIN s = 1..7
        BY <3>1, LenProperties
      <3>3. CommandsIn(s) = {2, 5, 6}
        BY <1>0, <1>n, <1>c, <3>1, <3>2 DEF CommandsIn
      <3>4. Effect(s[2]) = "copyConfig" /\ Effect(s[5]) = "rcService"
            /\ Effect(s[6]) = "changePass"
        BY <1>0, <1>n, <1>c, <3>1
      <3>5. EffectsOf(s) = R
        BY <3>3, <3>4 DEF EffectsOf
      <3>6. Ordered(s, {"mount"} \cup T, A)
        <4> SUFFICES ASSUME NEW i \in {2, 5, 6}, NEW e \in Share!Needs(Effect(s[i])) \cap A
                     PROVE  \/ e \in {"mount"} \cup T
                            \/ \E j \in {2, 5, 6} : j < i /\ Effect(s[j]) = e
          BY <3>3 DEF Ordered
        <4>1. i = 5 /\ e \in {"mount", "copyConfig"} \cup T
          BY <1>2, <3>4
        <4> QED
          BY <3>4, <4>1
      <3>7. Part(s, R, {"mount"} \cup T, A)
        BY <3>1, <3>5, <3>6 DEF Part
      <3> QED
        BY <3>7 DEF s
    <2> DEFINE i == InitLVM("init")
               t == Optionally(cf.tap, ConfigureInterfaceStaticNet)
               m == Mount(cf)
               g == StartGenericShare
    <2>3. Plan(cf) = (i \o t) \o (m \o g)
      BY <1>6 DEF Plan
    <2> HIDE DEF i, t, m, g
    <2>4. Part(i \o t, V \cup T, {}, A)
      BY <1>3, <1>4, PartsJoin DEF i, t
    <2>5. Part(m \o g, P \cup D \cup {"mount"} \cup R, V \cup T, A)
      <3>1. Part(m, P \cup D \cup {"mount"}, V \cup T, A)
        BY <2>1 DEF m, Part, Ordered
      <3>2. Part(g, R, {"mount"} \cup T, A)
        BY <2>2 DEF g
      <3> QED
        BY <3>1, <3>2, PartsJoin
    <2>6. Part((i \o t) \o (m \o g), A, {}, A)
      BY <1>1, <1>6, <2>4, <2>5, PartsJoin
    <2> QED
      BY <2>3, <2>6 DEF A
  <1>7. CASE cf.command # "run"
    <2>1. Part(Optionally(cf.preopen, PreopenLUKSContainer), P, V, A)
      <3> DEFINE p1 == <<Dial("preopen")>>
                 p2 == PreopenWithSSH("preopen")
                 p3 == <<Close("preopen")>>
                 C == {"luksContainer", "containerVolumes"}
      <3>1. Part(p1, {}, V, A) /\ Part(p3, {}, V, A)
        <4>1. Effect(Run("preopen", "vgchange")) = "vgchange"
          BY <1>0, <1>n, <1>c
        <4>2. Share!Needs("vgchange") \cap A \subseteq V
          BY <1>2
        <4> QED
          BY <1>n, <1>c, <1>s, <4>1, <4>2
      <3>2. Part(p2, C, V, A)
        BY <1>5, <1>c
      <3>3. PreopenLUKSContainer = (p1 \o p2) \o p3
        BY DEF PreopenLUKSContainer
      <3> HIDE DEF p1, p2, p3
      <3>4. Part(p1 \o p2, C, V, A)
        BY <3>1, <3>2, PartsJoin
      <3>5. Part((p1 \o p2) \o p3, C, V, A)
        BY <3>1, <3>4, PartsJoin
      <3> QED
        BY <3>3, <3>5, PartOptional DEF P
    <2>2. Part(Lsblk, {"lsblk"}, V \cup P, A)
      <3>1. Effect(Run("list", "lsblk")) = "lsblk"
        BY <1>0, <1>n, <1>c
      <3> QED
        BY <1>n, <1>c, <1>2, <1>s, <3>1 DEF Lsblk
    <2> DEFINE i == InitLVM("init")
               t == Optionally(cf.tap, ConfigureInterfaceStaticNet)
               o == Optionally(cf.preopen, PreopenLUKSContainer)
               l == Lsblk
    <2>3. Plan(cf) = (i \o t) \o (o \o l)
      BY <1>7 DEF Plan
    <2> HIDE DEF i, t, o, l
    <2>4. Part(i \o t, V \cup T, {}, A)
      BY <1>3, <1>4, PartsJoin DEF i, t
    <2>5. Part(o \o l, P \cup {"lsblk"}, V, A)
      BY <2>1, <2>2, PartsJoin DEF o, l
    <2>6. Part((i \o t) \o (o \o l), A, {}, A)
      BY <1>1, <1>7, <2>4, <2>5, PartsJoin
    <2> QED
      BY <2>3, <2>6 DEF A
  <1> QED
    BY <1>6, <1>7

Checks(s, x) == \E i \in DOMAIN s : s[i] = Check(x)

\* A concatenation checks what its parts check.
LEMMA ChecksJoin ==
    ASSUME NEW s \in Seq(PlanSteps), NEW t \in Seq(PlanSteps), NEW x, Checks(s, x) \/ Checks(t, x)
    PROVE  s \o t \in Seq(PlanSteps) /\ Checks(s \o t, x)
  <1>1. /\ Len(s) \in Nat /\ Len(t) \in Nat /\ s \o t \in Seq(PlanSteps)
        /\ DOMAIN s = 1..Len(s) /\ DOMAIN t = 1..Len(t) /\ DOMAIN (s \o t) = 1..Len(s) + Len(t)
        /\ \A i \in 1..Len(s) + Len(t) :
              (s \o t)[i] = IF i <= Len(s) THEN s[i] ELSE t[i - Len(s)]
    BY ConcatProperties, LenProperties
  <1>2. CASE Checks(s, x)
    <2>1. PICK i \in 1..Len(s) : s[i] = Check(x)
      BY <1>1, <1>2 DEF Checks
    <2>2. i \in 1..Len(s) + Len(t) /\ i <= Len(s)
      BY <1>1
    <2>3. (s \o t)[i] = Check(x)
      BY <1>1, <2>1, <2>2
    <2> QED
      BY <1>1, <2>2, <2>3 DEF Checks
  <1>3. CASE Checks(t, x)
    <2>1. PICK i \in 1..Len(t) : t[i] = Check(x)
      BY <1>1, <1>3 DEF Checks
    <2>2. /\ i + Len(s) \in 1..Len(s) + Len(t)
          /\ ~(i + Len(s) <= Len(s)) /\ (i + Len(s)) - Len(s) = i
      BY <1>1
    <2>3. (s \o t)[i + Len(s)] = Check(x)
      BY <1>1, <2>1, <2>2
    <2> QED
      BY <1>1, <2>2, <2>3 DEF Checks
  <1> QED
    BY <1>1, <1>2, <1>3

NamesBadly(cf) == cf.rejected # ""

\* A name that is not accepted is checked by the plan, wherever it comes from.
LEMMA PlanChecks ==
    ASSUME NEW cf \in Configs, NamesBadly(cf)
    PROVE  Checks(Plan(cf), cf.rejected)
  <1>1. \/ cf.rejected = "device" /\ cf.command = "run"
        \/ cf.rejected = "container" /\ cf.preopen /\ cf.command = "run"
        \/ cf.rejected = "container" /\ cf.preopen /\ cf.command # "run"
    BY DEF Configs, NamesBadly
  <1> DEFINE i == InitLVM("init")
             t == Optionally(cf.tap, ConfigureInterfaceStaticNet)
             m1 == <<Check("device"), Dial("mount")>>
             m2 == Optionally(cf.preopen, PreopenWithSSH("mount"))
             m3 == Optionally(cf.luks, <<Run("mount", "luksDevice")>>)
             m4 == <<Run("mount", "mount"), Close("mount")>>
             g == StartGenericShare
             o == Optionally(cf.preopen, PreopenLUKSContainer)
             l == Lsblk
  <1>2. /\ i \o t \in Seq(PlanSteps) /\ m1 \in Seq(PlanSteps) /\ m2 \in Seq(PlanSteps)
        /\ m3 \in Seq(PlanSteps) /\ m4 \in Seq(PlanSteps) /\ g \in Seq(PlanSteps)
        /\ l \in Seq(PlanSteps)
    BY PlanParts, ConcatProperties
  <1>3. Checks(m1, "device")
    <2>1. DOMAIN m1 = 1..2 /\ m1[1] = Check("device")
      OBVIOUS
    <2> QED
      BY <2>1 DEF Checks
  <1>4. ASSUME NEW c \in Clients
        PROVE  PreopenWithSSH(c) \in Seq(PlanSteps) /\ Checks(PreopenWithSSH(c), "container")
    <2> DEFINE p == <<Check("container"), Run(c, "luksContainer")>>
    <2>1. p \in Seq(PlanSteps) /\ InitLVM("relvm") \in Seq(PlanSteps)
      BY PlanParts
    <2>2. Checks(p, "container")
      <3>1. DOMAIN p = 1..2 /\ p[1] = Check("container")
        OBVIOUS
      <3> QED
        BY <3>1 DEF Checks
    <2> HIDE DEF p
    <2>3. p \o InitLVM("relvm") \in Seq(PlanSteps) /\ Checks(p \o InitLVM("relvm"), "container")
      BY <2>1, <2>2, ChecksJoin
    <2> QED
      BY <2>3 DEF p, PreopenWithSSH
  <1>j. ASSUME NEW r \in Seq(PlanSteps), Checks(r, cf.rejected)
        PROVE  Checks((i \o t) \o r, cf.rejected)
    <2> HIDE DEF i, t
    <2> QED
      BY <1>2, <1>j, ChecksJoin
  <1>5. CASE cf.command = "run"
    <2>1. Plan(cf) = (i \o t) \o ((((m1 \o m2) \o m3) \o m4) \o g)
      BY <1>5 DEF Plan, Mount
    <2>2. Checks(m1, cf.rejected) \/ Checks(m2, cf.rejected)
      BY <1>1, <1>3, <1>4, <1>5 DEF Optionally, Clients
    <2> HIDE DEF i, t, m1, m2, m3, m4, g
    <2>3. m1 \o m2 \in Seq(PlanSteps) /\ Checks(m1 \o m2, cf.rejected)
      BY <1>2, <2>2, ChecksJoin
    <2>4. (m1 \o m2) \o m3 \in Seq(PlanSteps) /\ Checks((m1 \o m2) \o m3, cf.rejected)
      BY <1>2, <2>3, ChecksJoin
    <2>5. /\ ((m1 \o m2) \o m3) \o m4 \in Seq(PlanSteps)
          /\ Checks(((m1 \o m2) \o m3) \o m4, cf.rejected)
      BY <1>2, <2>4, ChecksJoin
    <2>6. /\ (((m1 \o m2) \o m3) \o m4) \o g \in Seq(PlanSteps)
          /\ Checks((((m1 \o m2) \o m3) \o m4) \o g, cf.rejected)
      BY <1>2, <2>5, ChecksJoin
    <2> QED
      BY <1>j, <2>1, <2>6
  <1>6. CASE cf.command # "run"
    <2>1. Plan(cf) = (i \o t) \o (o \o l)
      BY <1>6 DEF Plan
    <2>2. cf.rejected = "container" /\ o = PreopenLUKSContainer
      BY <1>1, <1>6 DEF Optionally
    <2> DEFINE p1 == <<Dial("preopen")>>
               p2 == PreopenWithSSH("preopen")
               p3 == <<Close("preopen")>>
    <2>3. p1 \in Seq(PlanSteps) /\ p3 \in Seq(PlanSteps)
      BY PlanParts
    <2>4. p2 \in Seq(PlanSteps) /\ Checks(p2, "container")
      BY <1>4 DEF Clients
    <2>5. o = (p1 \o p2) \o p3
      BY <2>2 DEF PreopenLUKSContainer
    <2> HIDE DEF i, t, o, l, p1, p2, p3
    <2>6. p1 \o p2 \in Seq(PlanSteps) /\ Checks(p1 \o p2, "container")
      BY <2>3, <2>4, ChecksJoin
    <2>7. o \in Seq(PlanSteps) /\ Checks(o, "container")
      BY <2>3, <2>5, <2>6, ChecksJoin
    <2>8. o \o l \in Seq(PlanSteps) /\ Checks(o \o l, "container")
      BY <1>2, <2>7, ChecksJoin
    <2>9. Checks((i \o t) \o (o \o l), cf.rejected)
      BY <1>j, <2>2, <2>8
    <2> QED
      BY <2>1, <2>9
  <1> QED
    BY <1>5, <1>6

-----------------------------------------------------------------------------

\* The guest, and the outcome, change as the contract allows.
LEMMA StepKeepsContract ==
    ASSUME IInv, TypeInv, [Next]_vars
    PROVE  [Share!Next]_(Share!vars)
  <1> DEFINE done == {Effect(plan[i]) : i \in executed}
             A == Share!Asked(config)
  <1> USE DEF Share!vars
  <1>1. config' = config /\ plan' = plan
    BY DEF Next, Program, User, Watch, Environment, vars, DialSSH, DialFails, CloseClient,
           Validate, ValidateFails, Finish, NewSession, NewSessionFails, StartCryptsetup,
           StartCryptsetupFails, Reply, Disconnected, CopyGivesUp, ReturnNil, ReturnError,
           TypePassword, ReadPasswordFails, Fires, Closes, Leaves, GuestReceives, GuestFinishes,
           GuestHangs, CancelSignals, CancelEndsContext, QemuExits, Advance, Abort, Goto,
           programVars
  <1>2. /\ config \in Configs /\ EffectsOf(plan) = A /\ Ordered(plan, {}, A)
        /\ Commands = CommandsIn(plan)
    BY PlanKeepsNeeds DEF TypeInv, Part, Commands, Positions, CommandsIn
  <1>3. CASE GuestFinishes
    <2>1. PICK i \in received \ finished : executed' \in {executed, executed \cup {i}}
      BY <1>3 DEF GuestFinishes
    <2>2. outcome' = outcome
      BY <1>3 DEF GuestFinishes, programVars
    <2>3. i \in Commands /\ Effect(plan[i]) \in A
      BY <1>2 DEF IInv, GuestOK, EffectsOf
    <2>4. Share!Needs(Effect(plan[i])) \cap A \subseteq done
      <3> SUFFICES ASSUME NEW e \in Share!Needs(Effect(plan[i])) \cap A PROVE e \in done
        OBVIOUS
      <3>1. PICK j \in Commands : j < i /\ Effect(plan[j]) = e
        BY <1>2, <2>3 DEF Ordered
      <3>2. j \in Nat /\ i \in Nat /\ at \in Nat
        BY <2>3, LenProperties DEF IInv, FlowOK, Commands, Positions
      <3>3. j < at
        BY <3>1, <3>2 DEF IInv, GuestOK
      <3>4. j \in executed
        BY <3>1, <3>3 DEF IInv, PastOK
      <3> QED
        BY <3>1, <3>4
    <2>5. CASE executed' = executed
      BY <1>1, <2>2, <2>5
    <2>6. CASE executed' = executed \cup {i}
      <3>1. {Effect(plan'[k]) : k \in executed'} = done \cup {Effect(plan[i])}
        BY <1>1, <2>6
      <3>2. Share!TakeEffect
        BY <1>1, <2>2, <2>3, <2>4, <3>1 DEF Share!TakeEffect
      <3> QED
        BY <3>2 DEF Share!Next
    <2> QED
      BY <2>1, <2>5, <2>6
  <1>4. CASE Finish
    <2>1. outcome = "none" /\ outcome' = "done" /\ executed' = executed
      BY <1>4 DEF Finish, guestVars
    <2>2. executed = Commands
      BY <1>4, LenProperties DEF Finish, IInv, FlowOK, GuestOK, PastOK, Commands, Positions
    <2>3. done = A
      BY <1>2, <2>2 DEF EffectsOf
    <2>4. config.rejected = ""
      <3> SUFFICES ASSUME NamesBadly(config) PROVE FALSE
        BY DEF NamesBadly
      <3>1. PICK i \in Positions : plan[i] = Check(config.rejected)
        BY <1>2, PlanChecks DEF TypeInv, Checks, Positions
      <3>2. i < at
        BY <1>4, LenProperties DEF Finish, IInv, FlowOK, Positions
      <3>3. plan[i].op = "check" /\ plan[i].cmd = config.rejected
        <4>1. \A n : Check(n).op = "check" /\ Check(n).cmd = n
          BY DEF Check
        <4> QED
          BY <3>1, <4>1
      <3> QED
        BY <3>2, <3>3 DEF IInv, PastOK
    <2>5. Share!Announce
      BY <1>1, <2>1, <2>3, <2>4 DEF Share!Announce
    <2> QED
      BY <2>5 DEF Share!Next
  <1>5. CASE DialFails \/ ValidateFails \/ NewSessionFails \/ ReturnError
    <2>1. outcome = "none" /\ outcome' = "failed" /\ executed' = executed
      BY <1>5 DEF DialFails, ValidateFails, NewSessionFails, ReturnError, Abort, Calling, Within,
                  guestVars
    <2>2. Share!Fail
      BY <1>1, <2>1 DEF Share!Fail
    <2> QED
      BY <2>2 DEF Share!Next
  <1>6. CASE ~(GuestFinishes \/ Finish \/ DialFails \/ ValidateFails \/ NewSessionFails
               \/ ReturnError)
    <2>1. outcome' = outcome /\ executed' = executed
      BY <1>6 DEF Next, Program, User, Watch, Environment, vars, DialSSH, CloseClient, Validate,
             NewSession, StartCryptsetup, StartCryptsetupFails, Reply, Disconnected, CopyGivesUp,
             ReturnNil, TypePassword, ReadPasswordFails, Fires, Closes, Leaves, GuestReceives,
             GuestHangs, CancelSignals, CancelEndsContext, QemuExits, Advance, Goto,
             programVars, guestVars
    <2> QED
      BY <1>1, <2>1
  <1> QED
    BY <1>3, <1>4, <1>5, <1>6

\* Whatever the guest, the timeouts and the user do, the guest gets what the command line
\* asked for, each effect after those it needs, and the share is announced when everything
\* is there.
THEOREM ShareImplemented == Spec => ImplementsShare
  <1>1. Init => Share!Init
    BY DEF Init, Share!Init
  <1>2. Init => TypeInv
    BY DEF Init, TypeInv
  <1> QED
    BY <1>1, <1>2, TypeStep, StepKeepsContract, Invariance, PTL
    DEF Spec, ImplementsShare, Share!Spec

=============================================================================
