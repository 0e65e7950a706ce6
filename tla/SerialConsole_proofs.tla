------------------------ MODULE SerialConsole_proofs ------------------------
(***************************************************************************)
(* Theorems about module SerialConsole, for every capacity of the channel, *)
(* every number of boot lines, keys and kernel messages, and every order   *)
(* in which the reader, the handler, the watchdog and the guest run.       *)
(***************************************************************************)
EXTENDS SerialConsole, SequenceTheorems, TLAPS

-----------------------------------------------------------------------------
(***************************************************************************)
(* Lines in a queue.                                                       *)
(***************************************************************************)

Holds(q, l) == \E i \in 1..Len(q) : q[i] = l

\* A queue that a line was sent to holds that line and what it held before.
LEMMA AppendHolds ==
    ASSUME NEW q \in Seq(Lines), NEW e \in Lines
    PROVE  /\ Append(q, e) \in Seq(Lines)
           /\ Len(Append(q, e)) = Len(q) + 1
           /\ \A l : Holds(Append(q, e), l) <=> Holds(q, l) \/ l = e
  <1>1. /\ Append(q, e) \in Seq(Lines) /\ Len(Append(q, e)) = Len(q) + 1
        /\ \A i \in 1..Len(q) : Append(q, e)[i] = q[i]
        /\ Append(q, e)[Len(q) + 1] = e
    BY AppendProperties
  <1> QED
    BY <1>1, LenProperties DEF Holds

\* What is received was in the queue, and the rest stays.
LEMMA TailHolds ==
    ASSUME NEW q \in Seq(Lines), q # <<>>
    PROVE  /\ Head(q) \in Lines /\ Tail(q) \in Seq(Lines)
           /\ Len(Tail(q)) = Len(q) - 1 /\ Len(q) \in Nat
           /\ Holds(q, Head(q))
           /\ \A l : Holds(Tail(q), l) => Holds(q, l)
  <1>1. /\ Head(q) \in Lines /\ Tail(q) \in Seq(Lines) /\ Head(q) = q[1]
        /\ Len(Tail(q)) = Len(q) - 1
        /\ \A i \in 1..Len(Tail(q)) : Tail(q)[i] = q[i + 1]
    BY HeadTailProperties
  <1>2. Len(q) \in Nat /\ Len(q) > 0
    BY LenProperties, EmptySeq
  <1> QED
    BY <1>1, <1>2 DEF Holds

\* A new queue holds nothing.
LEMMA EmptyHolds == <<>> \in Seq(Lines) /\ Len(<<>>) = 0 /\ \A l : ~Holds(<<>>, l)
  BY EmptySeq DEF Holds

-----------------------------------------------------------------------------
(***************************************************************************)
(* Type correctness.                                                       *)
(***************************************************************************)

\* Every variable keeps its type: the channel never holds more than its capacity, and a
\* line the reader holds is the only one that can be outdated.
LEMMA TypeStep ==
    ASSUME TypeOK, [Next]_vars
    PROVE  TypeOK'
  <1> USE DEF TypeOK, guestVars, readerVars, handlerVars, cancelVars, HostUnchanged, OnlyHandler,
              OnlyReceives, Goto
  <1>0. /\ \A l \in {"other", "status0", "status1", "key", "garbled"} : l \in Lines
        /\ MaxOutput \in Nat /\ MaxKeys \in Nat /\ MaxNoise \in Nat
    BY SerialAssumption DEF Lines, KeyLines
  <1>1. CASE Guest
    <2>1. ASSUME NEW l \in Lines, Prints(l)
          PROVE  pipe' \in Seq(Lines) /\ Len(pipe') <= PipeSize
      BY <2>1, AppendHolds, LenProperties, SerialAssumption DEF Prints
    <2> HIDE DEF Prints
    <2>2. CASE PrintOutput
      BY <1>0, <2>1, <2>2 DEF PrintOutput
    <2>3. CASE PrintNoise
      <3>1. noise' \in 0..MaxNoise
        BY <1>0, <2>3 DEF PrintNoise
      <3>2. pipe' \in Seq(Lines) /\ Len(pipe') <= PipeSize
        BY <1>0, <2>1, <2>3 DEF PrintNoise
      <3>3. prompt' \in BOOLEAN
            /\ UNCHANGED <<guest, printed, shown, sshdUp, readerVars, channel, handlerVars,
                           cancelVars>>
        BY <2>3 DEF PrintNoise
      <3> QED
        BY <3>1, <3>2, <3>3
    <2>4. CASE PrintSetupStatus
      BY <1>0, <2>1, <2>4 DEF PrintSetupStatus
    <2>5. CASE PrintKey
      BY <1>0, <2>1, <2>5 DEF PrintKey
    <2>6. CASE ScanEnds
      BY <1>0, <2>1, <2>6 DEF ScanEnds
    <2>7. CASE PrintLoginPrompt
      BY <1>0, <2>7 DEF PrintLoginPrompt
    <2>8. CASE GuestStops
      BY <2>8 DEF GuestStops
    <2> QED
      BY <1>1, <2>2, <2>3, <2>4, <2>5, <2>6, <2>7, <2>8 DEF Guest
  <1>2. CASE Reader
    <2>1. CASE ReadLine
      <3>1. line' \in Lines /\ pipe' \in Seq(Lines) /\ Len(pipe') <= PipeSize
        BY <2>1, TailHolds, SerialAssumption DEF ReadLine
      <3>2. line' # None
        BY <3>1 DEF Lines, KeyLines, None
      <3> QED
        BY <2>1, <3>1, <3>2 DEF ReadLine
    <2>2. CASE ReadFails
      BY <2>2 DEF ReadFails
    <2>3. CASE SendLine
      <3>1. line \in Lines
        BY <2>3 DEF SendLine
      <3>2. channel' \in Seq(Lines) /\ Len(channel') <= Capacity
        BY <2>3, <3>1, AppendHolds, LenProperties, SerialAssumption DEF SendLine
      <3>3. line' \in {None} /\ outdated' \in BOOLEAN /\ ~outdated'
        BY <2>3 DEF SendLine
      <3>4. UNCHANGED <<guestVars, pipe, reading, handlerVars, cancelVars>>
        BY <2>3 DEF SendLine
      <3> QED
        BY <3>2, <3>3, <3>4
    <2> QED
      BY <1>2, <2>1, <2>2, <2>3 DEF Reader
  <1>3. CASE Handler
    <2>1. ASSUME Receives
          PROVE  channel' \in Seq(Lines) /\ Len(channel') <= Capacity /\ Head(channel) \in Lines
      BY <2>1, TailHolds, SerialAssumption DEF Receives
    <2> HIDE DEF Receives
    <2>2. CASE PeekRaces
      <3>1. pipe' \in Seq(Lines) /\ Len(pipe') <= PipeSize /\ prompt' \in BOOLEAN
        <4>1. CASE pipe # <<>> /\ pipe' = Tail(pipe) /\ UNCHANGED prompt
          BY <4>1, TailHolds, SerialAssumption
        <4>2. CASE prompt' = FALSE /\ UNCHANGED pipe
          BY <4>2
        <4> QED
          BY <2>2, <4>1, <4>2 DEF PeekRaces
      <3> QED
        BY <2>2, <3>1 DEF PeekRaces
    <2>3. CASE BeginSetup
      <3>1. channel' \in Seq(Lines) /\ Len(channel') <= Capacity
        BY EmptyHolds, SerialAssumption, <2>3 DEF BeginSetup, ResetSerialStdout
      <3>2. outdated' \in BOOLEAN /\ (line = None => ~outdated')
        BY <2>3 DEF BeginSetup, ResetSerialStdout
      <3> QED
        BY <2>3, <3>1, <3>2 DEF BeginSetup
    <2>4. CASE BeginScan
      <3>1. channel' \in Seq(Lines) /\ Len(channel') <= Capacity
        BY EmptyHolds, SerialAssumption, <2>4 DEF BeginScan, ResetSerialStdout
      <3>2. outdated' \in BOOLEAN /\ (line = None => ~outdated')
        BY <2>4 DEF BeginScan, ResetSerialStdout
      <3> QED
        BY <2>4, <3>1, <3>2 DEF BeginScan
    <2>5. CASE ReceiveSetupLine
      BY <1>0, <2>1, <2>5 DEF ReceiveSetupLine
    <2>6. CASE ReceiveScanLine
      <3>1. channel' \in Seq(Lines) /\ Len(channel') <= Capacity
        BY <2>1, <2>6 DEF ReceiveScanLine
      <3>2. ret' \in Seq(KeyLines)
        <4>1. \A e \in KeyLines : Append(ret, e) \in Seq(KeyLines)
          BY AppendProperties
        <4> QED
          BY <2>6, <4>1 DEF ReceiveScanLine
      <3> QED
        BY <2>6, <3>1, <3>2 DEF ReceiveScanLine
    <2>7. CASE Login
      BY <1>0, <2>7 DEF Login
    <2>8. CASE TypeSetup
      BY <1>0, <2>8 DEF TypeSetup
    <2>9. CASE TypeScan
      BY <1>0, <2>9 DEF TypeScan
    <2>10. CASE WriteSerialFails
      BY <1>0, <2>10 DEF WriteSerialFails
    <2>11. CASE Deadline
      BY <1>0, <2>11 DEF Deadline
    <2>12. CASE ContextEnds
      BY <1>0, <2>12 DEF ContextEnds
    <2>13. CASE FailureCancels
      BY <1>0, <2>13 DEF FailureCancels
    <2> QED
      BY <1>3, <2>2, <2>3, <2>4, <2>5, <2>6, <2>7, <2>8, <2>9, <2>10, <2>11, <2>12, <2>13
         DEF Handler
  <1>4. CASE Watchdog
    <2>1. CASE WatchdogFires
      BY <2>1 DEF WatchdogFires
    <2>2. CASE WatchdogLeaves
      BY <2>2 DEF WatchdogLeaves
    <2>3. CASE WatchdogConsumes
      <3>1. channel' \in Seq(Lines) /\ Len(channel') <= Capacity
        <4>1. CASE channel # <<>> /\ channel' = Tail(channel)
          BY <4>1, TailHolds, SerialAssumption
        <4>2. CASE UNCHANGED channel
          BY <4>2
        <4> QED
          BY <2>3, <4>1, <4>2 DEF WatchdogConsumes
      <3> QED
        BY <2>3, <3>1 DEF WatchdogConsumes
    <2>4. CASE WatchdogCancels
      BY <2>4 DEF WatchdogCancels
    <2> QED
      BY <1>4, <2>1, <2>2, <2>3, <2>4 DEF Watchdog
  <1>5. CASE OtherCancels
    BY <1>5 DEF OtherCancels
  <1>6. CASE ClosePipes
    BY <1>6 DEF ClosePipes
  <1>7. CASE UNCHANGED vars
    BY <1>7 DEF vars
  <1> QED
    BY <1>1, <1>2, <1>3, <1>4, <1>5, <1>6, <1>7 DEF Next

\* In every behaviour the channel stays within its capacity, and every variable has its type.
THEOREM TypeCorrect == Spec => []TypeOK
  <1>1. Init => TypeOK
    <2> SUFFICES ASSUME Init PROVE TypeOK
      OBVIOUS
    <2>1. pipe \in Seq(Lines) /\ Len(pipe) = 0 /\ channel \in Seq(Lines) /\ Len(channel) = 0
      BY EmptyHolds DEF Init
    <2>2. ret \in Seq(KeyLines)
      BY EmptySeq DEF Init
    <2>3. PipeSize \in Nat /\ Capacity \in Nat /\ MaxOutput \in Nat /\ MaxKeys \in Nat
          /\ MaxNoise \in Nat
      BY SerialAssumption
    <2>4. /\ sshdUp \in BOOLEAN /\ prompt \in BOOLEAN /\ reading \in BOOLEAN
          /\ ctxDone \in BOOLEAN /\ closed \in BOOLEAN
          /\ outdated \in BOOLEAN /\ ~outdated
      BY DEF Init
    <2>5. /\ guest = "boot" /\ printed = 0 /\ noise = 0 /\ shown = 0
          /\ line = None /\ handler = "login" /\ watchdog = "wait"
      BY DEF Init
    <2> QED
      BY <2>1, <2>2, <2>3, <2>4, <2>5 DEF TypeOK
  <1> QED
    BY <1>1, TypeStep, PTL DEF Spec

-----------------------------------------------------------------------------
(***************************************************************************)
(* SSH is announced only after a setup that succeeded.                     *)
(***************************************************************************)

\* Somewhere between the guest and the handler is a status line that says zero.
StatusUnderWay == Holds(channel, "status0") \/ Holds(pipe, "status0") \/ line = "status0"

SetupInv ==
    /\ handler \in {"login", "setup", "typeSetup"} =>
            guest \in {"boot", "login", "shell", "off"} /\ ~StatusUnderWay
    /\ handler = "awaitSetup" =>
            /\ guest \in {"setup", "shell", "off"}
            /\ guest = "setup" => ~StatusUnderWay
            /\ StatusUnderWay => sshdUp
    /\ handler \in {"scan", "typeScan", "awaitScan", "ready"} => sshdUp /\ guest # "setup"

\* Only the guest's two commands make a status line.
LEMMA StatusOrigin ==
    ASSUME TypeOK, [Next]_vars, ~PrintSetupStatus, ~ScanEnds, StatusUnderWay'
    PROVE  StatusUnderWay
  <1> USE DEF StatusUnderWay, guestVars, readerVars, handlerVars, cancelVars, HostUnchanged,
              OnlyHandler, OnlyReceives
  <1>0. pipe \in Seq(Lines) /\ channel \in Seq(Lines) /\ "other" \in Lines /\ "key" \in Lines
        /\ "garbled" \in Lines /\ line \in Lines \cup {None} /\ None # "status0"
    BY DEF TypeOK, Lines, KeyLines, None
  <1>1. CASE Guest
    <2>1. ASSUME NEW l \in Lines, l # "status0", Prints(l), Holds(pipe', "status0")
          PROVE  Holds(pipe, "status0")
      BY <1>0, <2>1, AppendHolds DEF Prints
    <2>2. CASE PrintOutput
      BY <1>0, <2>1, <2>2 DEF PrintOutput
    <2>3. CASE PrintNoise
      BY <1>0, <2>1, <2>3 DEF PrintNoise
    <2>4. CASE PrintKey
      BY <1>0, <2>1, <2>4 DEF PrintKey
    <2>5. CASE PrintLoginPrompt \/ GuestStops
      BY <2>5 DEF PrintLoginPrompt, GuestStops
    <2> QED
      BY <1>1, <2>2, <2>3, <2>4, <2>5 DEF Guest
  <1>2. CASE Reader
    <2>1. CASE ReadLine
      BY <1>0, <2>1, TailHolds DEF ReadLine
    <2>2. CASE ReadFails
      BY <2>2 DEF ReadFails
    <2>3. CASE SendLine
      <3>1. line \in Lines /\ line' = None /\ UNCHANGED pipe
        BY <1>0, <2>3 DEF SendLine
      <3>2. channel' = channel \/ channel' = Append(channel, line)
        BY <2>3 DEF SendLine
      <3>3. Holds(Append(channel, line), "status0") => Holds(channel, "status0") \/ line = "status0"
        BY <1>0, <3>1, AppendHolds
      <3>4. Holds(channel', "status0") => Holds(channel, "status0") \/ line = "status0"
        BY <3>2, <3>3
      <3> QED
        BY <1>0, <3>1, <3>4
    <2> QED
      BY <1>2, <2>1, <2>2, <2>3 DEF Reader
  <1>3. CASE Handler
    <2>1. CASE PeekRaces
      BY <1>0, <2>1, TailHolds DEF PeekRaces
    <2>2. CASE BeginSetup \/ BeginScan
      BY <2>2, EmptyHolds DEF BeginSetup, BeginScan, ResetSerialStdout
    <2>3. CASE ReceiveSetupLine \/ ReceiveScanLine
      BY <1>0, <2>3, TailHolds DEF ReceiveSetupLine, ReceiveScanLine, Receives
    <2>4. CASE Login \/ TypeSetup \/ TypeScan \/ WriteSerialFails
      BY <2>4 DEF Login, TypeSetup, TypeScan, WriteSerialFails
    <2>5. CASE Deadline \/ ContextEnds \/ FailureCancels
      BY <2>5 DEF Deadline, ContextEnds, FailureCancels
    <2> QED
      BY <1>3, <2>1, <2>2, <2>3, <2>4, <2>5 DEF Handler
  <1>4. CASE Watchdog
    BY <1>0, <1>4, TailHolds DEF Watchdog, WatchdogFires, WatchdogLeaves, WatchdogConsumes,
                                 WatchdogCancels
  <1>5. CASE OtherCancels \/ ClosePipes
    BY <1>5 DEF OtherCancels, ClosePipes
  <1>6. CASE UNCHANGED vars
    BY <1>6 DEF vars
  <1> QED
    BY <1>1, <1>2, <1>3, <1>4, <1>5, <1>6 DEF Next

\* Every step keeps the invariant of the setup.
LEMMA SetupStep ==
    ASSUME TypeOK, SetupInv, [Next]_vars
    PROVE  SetupInv'
  <1> USE DEF SetupInv, guestVars, readerVars, handlerVars, cancelVars, HostUnchanged, OnlyHandler,
              OnlyReceives, Goto
  <1>1. CASE PrintSetupStatus
    <2>1. /\ handler \notin {"login", "setup", "typeSetup"}
          /\ handler \notin {"scan", "typeScan", "awaitScan", "ready"}
          /\ handler' = handler /\ guest' = "shell"
          /\ handler = "awaitSetup" => ~StatusUnderWay
      BY <1>1 DEF PrintSetupStatus
    <2>2. CASE sshdUp'
      BY <2>1, <2>2
    <2>3. CASE ~sshdUp'
      <3>1. Prints("status1") /\ UNCHANGED <<channel, line>>
        BY <1>1, <2>3 DEF PrintSetupStatus
      <3>2. pipe \in Seq(Lines) /\ "status1" \in Lines
        BY DEF TypeOK, Lines
      <3>3. ~StatusUnderWay => ~StatusUnderWay'
        BY <3>1, <3>2, AppendHolds DEF Prints, StatusUnderWay
      <3> QED
        BY <2>1, <3>3
    <2> QED
      BY <2>2, <2>3
  <1>2. CASE ScanEnds
    BY <1>2 DEF ScanEnds
  <1>3. CASE ~PrintSetupStatus /\ ~ScanEnds
    <2>0. StatusUnderWay' => StatusUnderWay
      BY <1>3, StatusOrigin
    <2>1. CASE Guest
      BY <1>3, <2>0, <2>1 DEF Guest, PrintOutput, PrintNoise, PrintKey, PrintLoginPrompt,
                              GuestStops
    <2>2. CASE Reader
      BY <2>0, <2>2 DEF Reader, ReadLine, ReadFails, SendLine
    <2>3. CASE Login \/ PeekRaces \/ BeginSetup \/ BeginScan
      BY <2>0, <2>3 DEF Login, PeekRaces, BeginSetup, BeginScan
    <2>4. CASE TypeSetup \/ TypeScan \/ WriteSerialFails
      BY <2>0, <2>4 DEF TypeSetup, TypeScan, WriteSerialFails
    <2>5. CASE ReceiveSetupLine
      <3>1. Head(channel) = "status0" => StatusUnderWay
        BY <2>5, TailHolds DEF ReceiveSetupLine, Receives, StatusUnderWay, TypeOK
      <3>2. /\ handler = "awaitSetup" /\ UNCHANGED <<guest, sshdUp>>
            /\ handler' \in {"scan", "failed", "awaitSetup"}
            /\ handler' = "scan" => Head(channel) = "status0"
        BY <2>5 DEF ReceiveSetupLine
      <3> QED
        BY <2>0, <3>1, <3>2
    <2>6. CASE ReceiveScanLine
      BY <2>0, <2>6 DEF ReceiveScanLine
    <2>7. CASE Deadline \/ ContextEnds \/ FailureCancels
      BY <2>0, <2>7 DEF Deadline, ContextEnds, FailureCancels
    <2>8. CASE Watchdog \/ OtherCancels \/ ClosePipes
      BY <2>0, <2>8 DEF Watchdog, WatchdogFires, WatchdogLeaves, WatchdogConsumes, WatchdogCancels,
                        OtherCancels, ClosePipes
    <2>9. CASE UNCHANGED vars
      BY <2>0, <2>9 DEF vars
    <2> QED
      BY <2>1, <2>2, <2>3, <2>4, <2>5, <2>6, <2>7, <2>8, <2>9 DEF Next, Handler
  <1> QED
    BY <1>1, <1>2, <1>3

\* SSH is announced only after the setup command of the guest ended with status zero.
THEOREM SetupSucceeded == Spec => []SetupIsTrue
  <1>1. Init => SetupInv
    BY EmptyHolds DEF Init, SetupInv, StatusUnderWay, None
  <1>2. SetupInv => SetupIsTrue
    BY DEF SetupInv, SetupIsTrue
  <1> QED
    BY <1>1, <1>2, SetupStep, TypeCorrect, PTL DEF Spec

=============================================================================
