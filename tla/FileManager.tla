---------------------------- MODULE FileManager ----------------------------
(***************************************************************************)
(* What a Linsk command does inside the guest once SSH is up: the sequence *)
(* of connections and remote commands of src/vm/filemanager.go, and the    *)
(* sessions of src/sshutil/ssh.go that run them, with their two watchers:  *)
(* one waits for the context, the other for the timeout, and each ends a   *)
(* session by closing the connection it shares with other sessions.        *)
(*                                                                         *)
(* The program is one goroutine and its remote commands are a plan fixed   *)
(* by the command line; a position in the plan stands for the command at   *)
(* it.  QEMU, the guest and the user at the terminal are the environment.  *)
(***************************************************************************)
EXTENDS Naturals, Sequences

CONSTANT GuestMayHang  \* TRUE when the guest may stop answering

ASSUME FileManagerAssumption == GuestMayHang \in BOOLEAN

-----------------------------------------------------------------------------
(***************************************************************************)
(* The plan.  A connection is named for the function that dials it.        *)
(***************************************************************************)

Dial(c)   == [op |-> "dial", client |-> c, cmd |-> ""]
Run(c, s) == [op |-> "run", client |-> c, cmd |-> s]
Close(c)  == [op |-> "close", client |-> c, cmd |-> ""]
Check(n)  == [op |-> "check", client |-> "", cmd |-> n]

InitLVM(c) == <<Dial(c), Run(c, "vgchange"), Close(c)>>

ConfigureInterfaceStaticNet == <<Dial("net"), Run("net", "ifconfig"), Close("net")>>

\* preopenLUKSContainerWithSSH: InitLVM dials a connection of its own.
PreopenWithSSH(c) == <<Check("container"), Run(c, "luksContainer")>> \o InitLVM("relvm")

PreopenLUKSContainer == <<Dial("preopen")>> \o PreopenWithSSH("preopen") \o <<Close("preopen")>>

Optionally(condition, steps) == IF condition THEN steps ELSE <<>>

\* Mutant: the device is opened before the container it is in.
MountDeviceFirst(cf) ==
    <<Check("device"), Dial("mount")>>
        \o Optionally(cf.luks, <<Run("mount", "luksDevice")>>)
        \o Optionally(cf.preopen, PreopenWithSSH("mount"))
        \o <<Run("mount", "mount"), Close("mount")>>

Mount(cf) ==
    <<Check("device"), Dial("mount")>>
        \o Optionally(cf.preopen, PreopenWithSSH("mount"))
        \o Optionally(cf.luks, <<Run("mount", "luksDevice")>>)
        \o <<Run("mount", "mount"), Close("mount")>>

StartGenericShare ==
    <<Dial("scp"), Run("scp", "copyConfig"), Close("scp"),
      Dial("share"), Run("share", "rcService"), Run("share", "changePass"), Close("share")>>

\* Lsblk leaves its connection open.
Lsblk == <<Dial("list"), Run("list", "lsblk")>>

Plan(cf) ==
    InitLVM("init")
        \o Optionally(cf.tap, ConfigureInterfaceStaticNet)
        \o IF cf.command = "run"
           THEN Mount(cf) \o StartGenericShare
           ELSE Optionally(cf.preopen, PreopenLUKSContainer) \o Lsblk

\* "rejected" is the name the validation of the package utils does not accept.
Configs ==
    {cf \in [command : {"run", "ls"}, preopen : BOOLEAN, luks : BOOLEAN, tap : BOOLEAN,
             rejected : {"", "device", "container"}] :
        /\ cf.command = "ls" => ~cf.luks /\ ~cf.tap /\ cf.rejected # "device"
        /\ cf.rejected = "container" => cf.preopen}

Clients == {"init", "relvm", "net", "preopen", "mount", "scp", "share", "list"}
NeedsPassword(s) == s \in {"luksContainer", "luksDevice"}

\* RunVM passes context.Background() to ConfigureInterfaceStaticNet.
HasContext(s) == s # "ifconfig"

-----------------------------------------------------------------------------
VARIABLES
    config,    \* the command line
    plan,      \* its operations
    at,        \* the position in the plan
    phase,     \* of the step at this position
    cmdErr,    \* what fn of the current session returned is an error
    timedOut,  \* the variable timedOut of the current session
    watch,     \* watchers that wait: <<position, "ctx" or "timer">>
    firing,    \* watchers that set timedOut and are about to close the connection
    open,      \* connections neither side has closed
    outcome,   \* of the program: "none" yet, "done" or "failed"
    received,  \* positions of the commands the guest has started
    finished,  \* positions of the commands that have ended, with any status
    executed,  \* positions of the commands that ended with status zero
    guest,     \* "ok" or "hung"
    qemu,      \* "up", "signalled" or "down"
    ctxDone    \* vm.ctx is canceled

programVars == <<config, plan, at, phase, cmdErr, outcome>>
sessionVars == <<timedOut, watch, firing, open>>
guestVars == <<received, finished, executed>>
envVars == <<guest, qemu, ctxDone>>
vars == <<programVars, sessionVars, guestVars, envVars>>

Positions == DOMAIN plan
Commands == {i \in Positions : plan[i].op = "run"}
Watchers == Commands \X {"ctx", "timer"}
Step == plan[at]

TypeOK ==
    /\ config \in Configs
    /\ plan = Plan(config)
    /\ at \in 1..Len(plan) + 1
    /\ phase \in {"call", "start", "prompt", "wait", "return"}
    /\ phase # "call" => at \in Commands
    /\ cmdErr \in BOOLEAN /\ timedOut \in BOOLEAN
    /\ watch \subseteq Watchers /\ firing \subseteq Watchers
    /\ open \subseteq Clients
    /\ outcome \in {"none", "done", "failed"}
    /\ received \subseteq Commands
    /\ finished \subseteq received
    /\ executed \subseteq finished
    /\ guest \in {"ok", "hung"}
    /\ qemu \in {"up", "signalled", "down"}
    /\ ctxDone \in BOOLEAN

Init ==
    /\ config \in Configs /\ plan = Plan(config)
    /\ at = 1 /\ phase = "call"
    /\ cmdErr = FALSE /\ timedOut = FALSE
    /\ watch = {} /\ firing = {} /\ open = {}
    /\ outcome = "none"
    /\ received = {} /\ finished = {} /\ executed = {}
    /\ guest = "ok" /\ qemu = "up" /\ ctxDone = FALSE

-----------------------------------------------------------------------------
(***************************************************************************)
(* The program outside a session.                                          *)
(***************************************************************************)

Calling(op) == outcome = "none" /\ phase = "call" /\ at \in Positions /\ Step.op = op

\* Mutant: a session that has returned is not left.
AdvanceWithin == at' = at + 1 /\ UNCHANGED <<config, plan, phase, cmdErr, outcome>>

Advance == at' = at + 1 /\ phase' = "call" /\ UNCHANGED <<config, plan, cmdErr, outcome>>

\* The error is passed up to the exit code, and the deferred calls close every
\* connection but Lsblk's.  Watchers of closed connections have no effect any more.
Abort ==
    /\ outcome' = "failed"
    /\ phase' = "call"
    /\ open' = open \cap {"list"}
    /\ watch' = {} /\ firing' = {}
    /\ UNCHANGED <<config, plan, at, cmdErr, timedOut, guestVars, envVars>>

\* The guest answers on a connection.
Answers(c) == c \in open /\ guest = "ok"

\* ssh.Dial waits for the guest without a limit.
DialSSH ==
    /\ Calling("dial")
    /\ qemu # "down" /\ guest = "ok"
    /\ open' = open \cup {Step.client}
    /\ Advance
    /\ UNCHANGED <<timedOut, watch, firing, guestVars, envVars>>

\* Mutant: a dial is repeated until the machine answers.
DialFailsOnRefusal ==
    /\ Calling("dial")
    /\ qemu # "down" /\ guest = "ok"
    /\ Abort

DialFails ==
    /\ Calling("dial")
    /\ qemu = "down" \/ guest = "ok"
    /\ Abort

CloseClient ==
    /\ Calling("close")
    /\ open' = open \ {Step.client}
    /\ watch' = {w \in watch : plan[w[1]].client # Step.client}
    /\ firing' = {w \in firing : plan[w[1]].client # Step.client}
    /\ Advance
    /\ UNCHANGED <<timedOut, guestVars, envVars>>

Validate ==
    /\ Calling("check")
    /\ config.rejected # Step.cmd
    /\ Advance
    /\ UNCHANGED <<sessionVars, guestVars, envVars>>

ValidateFails ==
    /\ Calling("check")
    /\ config.rejected = Step.cmd
    /\ Abort

\* The share is served, or the list was printed.
Finish ==
    /\ outcome = "none" /\ at = Len(plan) + 1
    /\ outcome' = "done"
    /\ UNCHANGED <<config, plan, at, phase, cmdErr, sessionVars, guestVars, envVars>>

-----------------------------------------------------------------------------
(***************************************************************************)
(* A session.                                                              *)
(***************************************************************************)

Within(p) == outcome = "none" /\ phase = p

Goto(p, error) == phase' = p /\ cmdErr' = error /\ UNCHANGED <<config, plan, at, outcome>>

ContextWatcher == IF HasContext(Step.cmd) THEN {<<at, "ctx">>} ELSE {}
Timer == {<<at, "timer">>}

\* Mutant: the timeout of a session that prompts starts with the session.
NewSessionWithTimeout ==
    /\ Calling("run")
    /\ Answers(Step.client)
    /\ timedOut' = FALSE
    /\ watch' = watch \cup IF Step.client = "scp" THEN {} ELSE ContextWatcher \cup Timer
    /\ Goto(IF NeedsPassword(Step.cmd) THEN "start" ELSE "wait", FALSE)
    /\ UNCHANGED <<firing, open, guestVars, envVars>>

\* sc.NewSession, the context watcher, and the timeout unless the session prompts first.
\* The SCP library bounds its session itself (see CopyGivesUp).
NewSession ==
    /\ Calling("run")
    /\ Answers(Step.client)
    /\ timedOut' = FALSE
    /\ watch' = watch \cup CASE Step.client = "scp"     -> {}
                              [] NeedsPassword(Step.cmd) -> ContextWatcher
                              [] OTHER                   -> ContextWatcher \cup Timer
    /\ Goto(IF NeedsPassword(Step.cmd) THEN "start" ELSE "wait", FALSE)
    /\ UNCHANGED <<firing, open, guestVars, envVars>>

NewSessionFails ==
    /\ Calling("run")
    /\ Step.client \in open => guest = "ok"
    /\ Abort

\* luksOpen: sess.Start, whose answer the prompt waits for.
StartCryptsetup ==
    /\ Within("start")
    /\ Answers(Step.client)
    /\ Goto("prompt", FALSE)
    /\ UNCHANGED <<sessionVars, guestVars, envVars>>

StartCryptsetupFails ==
    /\ Within("start")
    /\ Step.client \in open => guest = "ok"
    /\ Goto("return", TRUE)
    /\ UNCHANGED <<sessionVars, guestVars, envVars>>

\* term.ReadPassword returns: startTimeout.
TypePassword ==
    /\ Within("prompt")
    /\ watch' = watch \cup Timer
    /\ Goto("wait", FALSE)
    /\ UNCHANGED <<timedOut, firing, open, guestVars, envVars>>

\* The standard input ends, or is no terminal.
ReadPasswordFails ==
    /\ Within("prompt")
    /\ Goto("return", TRUE)
    /\ UNCHANGED <<sessionVars, guestVars, envVars>>

\* sess.Wait returns the exit status the guest has sent.
Reply ==
    /\ Within("wait")
    /\ at \in finished
    /\ Goto("return", at \notin executed)
    /\ UNCHANGED <<sessionVars, guestVars, envVars>>

\* sess.Wait, or a part of sess.Run before it, returns because the connection ended.
Disconnected ==
    /\ Within("wait")
    /\ Step.client \notin open
    /\ Goto("return", TRUE)
    /\ UNCHANGED <<sessionVars, guestVars, envVars>>

\* scpCtx ends, after its five seconds or with vm.ctx.
CopyGivesUp ==
    /\ Within("wait")
    /\ Step.client = "scp"
    /\ Goto("return", TRUE)
    /\ UNCHANGED <<sessionVars, guestVars, envVars>>

\* timedOut is read without synchronisation: while its writer has not closed the
\* connection yet, the old value may be seen.
StaleRead == \E w \in firing : w[1] = at

\* Mutant: the error of fn is returned only after a timeout.
ReturnTimeoutOnly ==
    /\ Within("return")
    /\ ~timedOut
    /\ Advance
    /\ UNCHANGED <<sessionVars, guestVars, envVars>>

ReturnNil ==
    /\ Within("return")
    /\ ~cmdErr
    /\ timedOut => StaleRead
    /\ Advance
    /\ UNCHANGED <<sessionVars, guestVars, envVars>>

ReturnError ==
    /\ Within("return")
    /\ cmdErr \/ timedOut
    /\ Abort

Program ==
    \/ DialSSH \/ DialFails \/ CloseClient \/ Validate \/ ValidateFails \/ Finish
    \/ NewSession \/ NewSessionFails \/ StartCryptsetup \/ StartCryptsetupFails
    \/ Reply \/ Disconnected \/ CopyGivesUp \/ ReturnNil \/ ReturnError

User == TypePassword \/ ReadPasswordFails

-----------------------------------------------------------------------------
(***************************************************************************)
(* The watchers of the sessions.  When a session has returned, its         *)
(* watchers leave, but one whose event comes at that moment may still take *)
(* it, for select chooses among what is ready.                             *)
(***************************************************************************)

Fires(kind) ==
    \E w \in watch :
        /\ w[2] = kind
        /\ kind = "ctx" => ctxDone
        /\ watch' = watch \ {w}
        /\ firing' = firing \cup {w}
        /\ timedOut' = (timedOut \/ (w[1] = at /\ phase # "call"))
        /\ UNCHANGED <<open, programVars, guestVars, envVars>>

\* Mutant: the timer only records that it has fired.
RecordsOnly(kind) ==
    \E w \in firing :
        /\ w[2] = kind
        /\ firing' = firing \ {w}
        /\ UNCHANGED <<open, watch, timedOut, programVars, guestVars, envVars>>

\* sc.Close ends every session on the connection.
Closes(kind) ==
    \E w \in firing :
        /\ w[2] = kind
        /\ firing' = firing \ {w}
        /\ open' = open \ {plan[w[1]].client}
        /\ UNCHANGED <<watch, timedOut, programVars, guestVars, envVars>>

Leaves(kind) ==
    \E w \in watch :
        /\ w[2] = kind /\ w[1] < at
        /\ watch' = watch \ {w}
        /\ UNCHANGED <<timedOut, firing, open, programVars, guestVars, envVars>>

Watch(kind) == Fires(kind) \/ Closes(kind) \/ Leaves(kind)

-----------------------------------------------------------------------------
(***************************************************************************)
(* The guest and QEMU.                                                     *)
(***************************************************************************)

\* The command, and the password for it, reach the guest.
GuestReceives ==
    /\ Within("wait")
    /\ Answers(Step.client)
    /\ received' = received \cup {at}
    /\ UNCHANGED <<programVars, sessionVars, finished, executed, envVars>>

\* A command ends with or without success, also when nobody waits for it any more.
GuestFinishes ==
    /\ qemu # "down" /\ guest = "ok"
    /\ \E i \in received \ finished :
        /\ finished' = finished \cup {i}
        /\ executed' \in {executed, executed \cup {i}}
    /\ UNCHANGED <<programVars, sessionVars, received, envVars>>

GuestHangs ==
    /\ GuestMayHang
    /\ guest' = "hung"
    /\ UNCHANGED <<programVars, sessionVars, guestVars, qemu, ctxDone>>

\* VM.Cancel sends the signal before it cancels the context.
CancelSignals ==
    /\ qemu = "up"
    /\ qemu' = "signalled"
    /\ UNCHANGED <<programVars, sessionVars, guestVars, guest, ctxDone>>

CancelEndsContext ==
    /\ qemu # "up"
    /\ ctxDone' = TRUE
    /\ UNCHANGED <<programVars, sessionVars, guestVars, guest, qemu>>

\* The connections end with QEMU.
QemuExits ==
    /\ qemu # "down"
    /\ qemu' = "down"
    /\ open' = {}
    /\ UNCHANGED <<programVars, timedOut, watch, firing, guestVars, guest, ctxDone>>

SignalledQemuExits == qemu = "signalled" /\ QemuExits

Environment ==
    GuestReceives \/ GuestFinishes \/ GuestHangs \/ CancelSignals \/ CancelEndsContext \/ QemuExits

Next == Program \/ User \/ Watch("ctx") \/ Watch("timer") \/ Environment

Spec == Init /\ [][Next]_vars

\* The program runs, timers expire, a signalled QEMU exits.  The guest may never
\* answer, the user may never type, and nobody needs to cancel.
Fairness ==
    /\ WF_vars(Program)
    /\ WF_vars(Watch("timer"))
    /\ WF_vars(SignalledQemuExits)

FairSpec == Spec /\ Fairness

-----------------------------------------------------------------------------
(***************************************************************************)
(* Properties.                                                             *)
(***************************************************************************)

\* What each command relies on: whatever timeouts, refusals and late answers there are,
\* a command takes effect in the guest only after all commands planned before it did:
\* nothing is mounted before its container is open, no server starts without its
\* configuration or before the mount.
EffectsInOrder ==
    \A i \in executed : \A j \in Commands : j < i => j \in executed

\* The share is announced, or the list printed, only after every command took effect
\* and every name was accepted.
ShareIsComplete ==
    outcome = "done" =>
        /\ executed = Commands
        /\ \A i \in Positions : plan[i].op = "check" => plan[i].cmd # config.rejected

\* What took effect in the guest, by what it is for: the second scan for volumes is the
\* one for those of the container.
Effect(step) == IF step.client = "relvm" THEN "containerVolumes" ELSE step.cmd

Share == INSTANCE ShareContract WITH done <- {Effect(plan[i]) : i \in executed}

\* Whatever the guest, the timeouts and the user do, and in whatever order the code has
\* its steps: nothing takes effect in the guest that the command line did not ask for or
\* before what it needs, the share is announced only when everything it needs is there,
\* and the program ends once.
ImplementsShare == Share!Spec

\* The timeout of a session that asks for a password begins when it was typed, "to avoid
\* timing out while the user is entering the password" (filemanager.go:122): at the prompt
\* nothing but the end of the context marks the session as timed out, and nothing but that
\* or the end of QEMU closes its connection.  One exception the code does not rule out:
\* the session of a device comes after that of its container on the same connection, and
\* the timer of the earlier session may be late and close it.
PromptIsPatient ==
    phase = "prompt" /\ ~ctxDone =>
        /\ ~timedOut
        /\ \/ Step.client \in open \/ qemu = "down"
           \/ \E i \in Commands : i < at /\ plan[i].client = Step.client

\* A command that was sent is waited for no longer than its timeout, even when the
\* guest does not answer and nobody cancels.
WaitsEnd == (outcome = "none" /\ phase = "wait") ~> (outcome # "none" \/ phase # "wait")

\* Once the context has ended the program comes to its end, unless it is at the
\* password prompt, which only the user ends.
CancelEndsWork ==
    [](ctxDone => <>[](outcome # "none" \/ phase = "prompt"))

=============================================================================
