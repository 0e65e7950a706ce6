--------------------------- MODULE SerialConsole ---------------------------
(***************************************************************************)
(* The serial console of the guest, over which Linsk logs in, sets up SSH  *)
(* and learns the host keys it will trust (src/vm/vm.go, src/vm/ssh.go).   *)
(*                                                                         *)
(* A line the guest prints goes through a pipe to the serial reader, which *)
(* sends it to the channel vm.serialStdoutCh without waiting.  The login   *)
(* handler receives from that channel, replaces it by an empty one before  *)
(* each command it types, and is watched by a goroutine that, when it      *)
(* takes too long, drains the channel for its error message.               *)
(***************************************************************************)
EXTENDS Naturals, Sequences

CONSTANTS
    Capacity,  \* of vm.serialStdoutCh (32 in the code)
    PipeSize,  \* lines between the guest and the serial reader
    MaxOutput, \* lines of the boot, of the setup command before its status, and of later
    MaxKeys,   \* key types of the guest's SSH server
    MaxNoise   \* kernel messages in the whole life of the guest

\* The output of the key scan, and what the kernel adds, fits in the channel.
ASSUME SerialAssumption ==
    /\ PipeSize \in Nat \ {0} /\ Capacity \in Nat
    /\ MaxOutput \in Nat /\ MaxKeys \in Nat /\ MaxNoise \in Nat
    /\ MaxNoise + MaxKeys + 1 <= Capacity

\* "garbled" is a key that a kernel message cut in two.
KeyLines == {"key", "garbled"}
Lines == KeyLines \cup {"other", "status0", "status1"}
None == "none"

VARIABLES
    guest,     \* what the guest is at
    printed,   \* lines of that printed so far
    noise,     \* kernel messages printed so far
    shown,     \* keys the key scan has printed
    sshdUp,    \* the setup command ended with status zero
    prompt,    \* the unfinished last line ends with "login:"
    pipe,      \* lines not yet read
    line,      \* the line the serial reader is about to send, or None
    outdated,  \* it will be sent to a channel that was replaced
    channel,   \* vm.serialStdoutCh
    reading,   \* the serial reader runs
    handler,   \* where the login handler is
    ret,       \* key lines scanSSHIdentity has collected
    watchdog,  \* "wait", "drain", "cancel" or "done"
    ctxDone,   \* vm.ctx is canceled
    closed     \* the serial pipes are closed

guestVars == <<guest, printed, noise, shown, sshdUp, prompt>>
readerVars == <<line, outdated, reading>>
handlerVars == <<handler, ret>>
cancelVars == <<watchdog, ctxDone, closed>>
vars == <<guestVars, pipe, readerVars, channel, handlerVars, cancelVars>>

TypeOK ==
    /\ guest \in {"boot", "login", "shell", "setup", "scan", "used", "off"}
    /\ printed \in 0..MaxOutput /\ noise \in 0..MaxNoise /\ shown \in 0..MaxKeys
    /\ sshdUp \in BOOLEAN
    /\ prompt \in BOOLEAN
    /\ pipe \in Seq(Lines) /\ Len(pipe) <= PipeSize
    /\ line \in Lines \cup {None}
    /\ outdated \in BOOLEAN /\ (line = None => ~outdated)
    /\ channel \in Seq(Lines) /\ Len(channel) <= Capacity
    /\ reading \in BOOLEAN
    /\ handler \in {"login", "setup", "typeSetup", "awaitSetup",
                    "scan", "typeScan", "awaitScan", "ready", "failed"}
    /\ ret \in Seq(KeyLines)
    /\ watchdog \in {"wait", "drain", "cancel", "done"}
    /\ ctxDone \in BOOLEAN /\ closed \in BOOLEAN

Init ==
    /\ guest = "boot" /\ printed = 0 /\ noise = 0 /\ shown = 0
    /\ sshdUp = FALSE /\ prompt = FALSE
    /\ pipe = <<>> /\ channel = <<>>
    /\ line = None /\ outdated = FALSE /\ reading = TRUE
    /\ handler = "login" /\ ret = <<>>
    /\ watchdog = "wait" /\ ctxDone = FALSE /\ closed = FALSE

-----------------------------------------------------------------------------
(***************************************************************************)
(* The guest.  It waits when the pipe is full.                             *)
(***************************************************************************)

Prints(l) == Len(pipe) < PipeSize /\ pipe' = Append(pipe, l)

HostUnchanged == UNCHANGED <<readerVars, channel, handlerVars, cancelVars>>

PrintOutput ==
    /\ guest \in {"boot", "setup", "used"} /\ printed < MaxOutput
    /\ Prints("other")
    /\ printed' = printed + 1
    /\ UNCHANGED <<guest, noise, shown, sshdUp, prompt>> /\ HostUnchanged

PrintLoginPrompt ==
    /\ guest = "boot"
    /\ guest' = "login" /\ prompt' = TRUE /\ printed' = 0
    /\ UNCHANGED <<noise, shown, sshdUp, pipe>> /\ HostUnchanged

\* A kernel message also ends the line of the login prompt.
PrintNoise ==
    /\ guest # "off" /\ noise < MaxNoise
    /\ Prints("other")
    /\ noise' = noise + 1 /\ prompt' = FALSE
    /\ UNCHANGED <<guest, printed, shown, sshdUp>> /\ HostUnchanged

PrintSetupStatus ==
    /\ guest = "setup"
    /\ \E ok \in BOOLEAN :
        /\ Prints(IF ok THEN "status0" ELSE "status1")
        /\ sshdUp' = ok
    /\ guest' = "shell" /\ printed' = 0
    /\ UNCHANGED <<noise, shown, prompt>> /\ HostUnchanged

PrintKey ==
    /\ guest = "scan" /\ shown < MaxKeys
    /\ \/ Prints("key") /\ UNCHANGED noise
       \/ Prints("garbled") /\ noise < MaxNoise /\ noise' = noise + 1
    /\ shown' = shown + 1
    /\ UNCHANGED <<guest, printed, sshdUp, prompt>> /\ HostUnchanged

\* ssh-keyscan && echo: there is no status line unless the scan succeeded.
ScanEnds ==
    /\ guest = "scan"
    /\ \/ Prints("status0")
       \/ UNCHANGED pipe
    /\ guest' = "used"
    /\ UNCHANGED <<printed, noise, shown, sshdUp, prompt>> /\ HostUnchanged

\* The guest hangs, or QEMU exits.
GuestStops ==
    /\ guest # "off"
    /\ guest' = "off"
    /\ UNCHANGED <<printed, noise, shown, sshdUp, prompt, pipe>> /\ HostUnchanged

Guest ==
    \/ PrintOutput \/ PrintLoginPrompt \/ PrintNoise \/ PrintSetupStatus
    \/ PrintKey \/ ScanEnds \/ GuestStops

-----------------------------------------------------------------------------
(***************************************************************************)
(* The serial reader: runSerialReader.                                     *)
(***************************************************************************)

ReadLine ==
    /\ reading /\ line = None /\ pipe # <<>>
    /\ line' = Head(pipe) /\ pipe' = Tail(pipe)
    /\ UNCHANGED <<guestVars, outdated, reading, channel, handlerVars, cancelVars>>

ReadFails ==
    /\ reading /\ line = None /\ closed
    /\ reading' = FALSE
    /\ UNCHANGED <<guestVars, pipe, line, outdated, channel, handlerVars, cancelVars>>

\* Mutant: the reader waits until there is room.
SendLineBlocking ==
    /\ line # None
    /\ outdated \/ Len(channel) < Capacity
    /\ channel' = IF outdated THEN channel ELSE Append(channel, line)
    /\ line' = None /\ outdated' = FALSE
    /\ UNCHANGED <<guestVars, pipe, reading, handlerVars, cancelVars>>

\* Mutant: the channel has no bound.
SendLineUnbounded ==
    /\ line # None
    /\ channel' = IF outdated THEN channel ELSE Append(channel, line)
    /\ line' = None /\ outdated' = FALSE
    /\ UNCHANGED <<guestVars, pipe, reading, handlerVars, cancelVars>>

\* The line is discarded when the buffer is full, and lost in an outdated channel.
SendLine ==
    /\ line # None
    /\ channel' = IF outdated \/ Len(channel) = Capacity THEN channel ELSE Append(channel, line)
    /\ line' = None /\ outdated' = FALSE
    /\ UNCHANGED <<guestVars, pipe, reading, handlerVars, cancelVars>>

Reader == ReadLine \/ ReadFails \/ SendLine

-----------------------------------------------------------------------------
(***************************************************************************)
(* The login handler: runVMLoginHandler, sshSetup, scanSSHIdentity.        *)
(***************************************************************************)

Goto(h) == handler' = h /\ UNCHANGED ret

OnlyHandler == UNCHANGED <<guestVars, pipe, readerVars, channel, cancelVars>>

\* The handler polls what the reader has buffered for the prompt, and types "root".
Login ==
    /\ handler = "login"
    /\ prompt /\ pipe = <<>> /\ guest = "login"
    /\ prompt' = FALSE /\ guest' = "shell"
    /\ Goto("setup")
    /\ UNCHANGED <<printed, noise, shown, sshdUp, pipe, readerVars, channel, cancelVars>>

\* serialReader.Peek in the handler and ReadBytes in the reader use one bufio.Reader
\* without synchronisation: output may be lost as long as the handler polls.
PeekRaces ==
    /\ handler = "login"
    /\ \/ pipe # <<>> /\ pipe' = Tail(pipe) /\ UNCHANGED prompt
       \/ prompt /\ prompt' = FALSE /\ UNCHANGED pipe
    /\ UNCHANGED <<guest, printed, noise, shown, sshdUp>> /\ HostUnchanged

\* resetSerialStdout.  A line the reader holds goes to the channel it has already
\* looked up, or to the new one.
ResetSerialStdout ==
    /\ channel' = <<>>
    /\ outdated' \in {outdated, line # None}

BeginSetup ==
    /\ handler = "setup"
    /\ ResetSerialStdout
    /\ Goto("typeSetup")
    /\ UNCHANGED <<guestVars, pipe, line, reading, cancelVars>>

BeginScan ==
    /\ handler = "scan"
    /\ ResetSerialStdout
    /\ Goto("typeScan")
    /\ UNCHANGED <<guestVars, pipe, line, reading, cancelVars>>

\* writeSerial: the guest takes the command up to its end.
TypeSetup ==
    /\ handler = "typeSetup" /\ guest = "shell" /\ ~closed
    /\ guest' = "setup" /\ printed' = 0
    /\ Goto("awaitSetup")
    /\ UNCHANGED <<noise, shown, sshdUp, prompt, pipe, readerVars, channel, cancelVars>>

\* Mutant: the channel is reset after the command was typed.
TypeScanThenReset ==
    /\ handler = "typeScan" /\ ~closed
    /\ IF guest = "shell"
       THEN guest' = "scan" /\ UNCHANGED <<handlerVars, outdated, channel>>
       ELSE ResetSerialStdout /\ Goto("awaitScan") /\ UNCHANGED guest
    /\ UNCHANGED <<printed, noise, shown, sshdUp, prompt, pipe, line, reading, cancelVars>>

TypeScan ==
    /\ handler = "typeScan" /\ guest = "shell" /\ ~closed
    /\ guest' = "scan"
    /\ Goto("awaitScan")
    /\ UNCHANGED <<printed, noise, shown, sshdUp, prompt, pipe, readerVars, channel, cancelVars>>

WriteSerialFails ==
    /\ handler \in {"typeSetup", "typeScan"} /\ closed
    /\ Goto("failed")
    /\ OnlyHandler

Receives == channel # <<>> /\ channel' = Tail(channel)

OnlyReceives == UNCHANGED <<guestVars, pipe, readerVars, cancelVars>>

\* Mutant: the digit after "SERIAL STATUS: " is not looked at.
ReceiveSetupLineAnyStatus ==
    /\ handler = "awaitSetup"
    /\ Receives
    /\ Goto(IF Head(channel) \in {"status0", "status1"} THEN "scan" ELSE "awaitSetup")
    /\ OnlyReceives

ReceiveSetupLine ==
    /\ handler = "awaitSetup"
    /\ Receives
    /\ Goto(CASE Head(channel) = "status0" -> "scan"
              [] Head(channel) = "status1" -> "failed"
              [] OTHER                     -> "awaitSetup")
    /\ OnlyReceives

\* ParseSSHKeyScan accepts lines of three fields with a base64 key.
Parses(keys) == \A i \in DOMAIN keys : keys[i] # "garbled"

ReceiveScanLine ==
    /\ handler = "awaitScan"
    /\ Receives
    /\ \/ /\ Head(channel) \in KeyLines
          /\ ret' = Append(ret, Head(channel)) /\ UNCHANGED handler
       \/ /\ Head(channel) \in {"status0", "status1"}
          /\ Goto(IF Head(channel) = "status0" /\ Parses(ret) THEN "ready" ELSE "failed")
       \/ /\ Head(channel) = "other"
          /\ UNCHANGED handlerVars
    /\ OnlyReceives

\* The deadlines of sshSetup and scanSSHIdentity.
Deadline ==
    /\ handler \in {"awaitSetup", "awaitScan"}
    /\ Goto("failed")
    /\ OnlyHandler

\* vm.ctx.Done, in each of the loops.
ContextEnds ==
    /\ handler \in {"login", "awaitSetup", "awaitScan"} /\ ctxDone
    /\ Goto("failed")
    /\ OnlyHandler

\* globalErrFn calls vm.Cancel.
FailureCancels ==
    /\ handler = "failed" /\ ~ctxDone
    /\ ctxDone' = TRUE
    /\ UNCHANGED <<guestVars, pipe, readerVars, channel, handlerVars, watchdog, closed>>

Handler ==
    \/ Login \/ PeekRaces \/ BeginSetup \/ BeginScan \/ TypeSetup \/ TypeScan
    \/ WriteSerialFails \/ ReceiveSetupLine \/ ReceiveScanLine \/ Deadline
    \/ ContextEnds \/ FailureCancels

-----------------------------------------------------------------------------
(***************************************************************************)
(* The watchdogs of the boot and of the whole setup, as one: the second    *)
(* may fire whenever the first may.  Cancel itself is module VM's.         *)
(***************************************************************************)

\* Mutant: only the boot is watched.
WatchdogFiresInBoot ==
    /\ watchdog = "wait" /\ handler = "login"
    /\ watchdog' = "drain"
    /\ UNCHANGED <<guestVars, pipe, readerVars, channel, handlerVars, ctxDone, closed>>

WatchdogFires ==
    /\ watchdog = "wait"
    /\ watchdog' = "drain"
    /\ UNCHANGED <<guestVars, pipe, readerVars, channel, handlerVars, ctxDone, closed>>

\* sshReadyCh is closed.
WatchdogLeaves ==
    /\ watchdog = "wait" /\ handler = "ready"
    /\ watchdog' = "done"
    /\ UNCHANGED <<guestVars, pipe, readerVars, channel, handlerVars, ctxDone, closed>>

\* consumeSerialStdout takes lines until there are none.
WatchdogConsumes ==
    /\ watchdog = "drain"
    /\ \/ channel # <<>> /\ channel' = Tail(channel) /\ UNCHANGED watchdog
       \/ channel = <<>> /\ watchdog' = "cancel" /\ UNCHANGED channel
    /\ UNCHANGED <<guestVars, pipe, readerVars, handlerVars, ctxDone, closed>>

WatchdogCancels ==
    /\ watchdog = "cancel"
    /\ watchdog' = "done" /\ ctxDone' = TRUE
    /\ UNCHANGED <<guestVars, pipe, readerVars, channel, handlerVars, closed>>

Watchdog == WatchdogFires \/ WatchdogLeaves \/ WatchdogConsumes \/ WatchdogCancels

\* Anybody else cancels.
OtherCancels ==
    /\ ~ctxDone
    /\ ctxDone' = TRUE
    /\ UNCHANGED <<guestVars, pipe, readerVars, channel, handlerVars, watchdog, closed>>

\* Cancel closes both pipes after the context.
ClosePipes ==
    /\ ctxDone /\ ~closed
    /\ closed' = TRUE
    /\ UNCHANGED <<guestVars, pipe, readerVars, channel, handlerVars, watchdog, ctxDone>>

Next == Guest \/ Reader \/ Handler \/ Watchdog \/ OtherCancels \/ ClosePipes

Spec == Init /\ [][Next]_vars

\* Goroutines run and timers expire; the guest promises nothing.
Fairness == WF_vars(Reader) /\ WF_vars(Handler) /\ WF_vars(Watchdog) /\ WF_vars(ClosePipes)

FairSpec == Spec /\ Fairness

-----------------------------------------------------------------------------
(***************************************************************************)
(* Properties.                                                             *)
(***************************************************************************)

\* The host keys Linsk trusts are all the guest printed, none lost in a full or a
\* replaced channel: a missing one would make every later connection fail.  Only the
\* watchdog's draining can take one away, and then the VM is on its way to its end.
KnownKeysAreComplete ==
    handler = "ready" => Len(ret) = shown \/ watchdog # "wait"

\* SSH is announced only after the setup command did all it should, however much
\* earlier output, of the boot or the kernel, is still under way.
SetupIsTrue == handler = "ready" => sshdUp

\* Nobody reads the channel while the guest boots, nor once SSH is up; the guest is
\* never blocked by that.
GuestNeverStalls ==
    (Len(pipe) = PipeSize) ~> (Len(pipe) < PipeSize \/ closed)

\* A guest that hangs at any moment does not keep the setup from ending.
SetupEnds == <>(handler \in {"ready", "failed"})

=============================================================================
