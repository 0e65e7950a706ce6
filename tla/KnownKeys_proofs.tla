-------------------------- MODULE KnownKeys_proofs --------------------------
(***************************************************************************)
(* The host keys Linsk trusts are complete, for every capacity of the      *)
(* channel that has room for the output of the key scan and the messages   *)
(* of the kernel.                                                          *)
(*                                                                         *)
(* The lines under way, from the channel over the reader's hand to the     *)
(* pipe, are one queue.  Every step appends a line to it, takes one out of *)
(* it, leaves it alone or, when the channel is replaced, shortens it to    *)
(* what the reader has not sent.  Keys are counted, so that one that is    *)
(* lost is missed.                                                         *)
(***************************************************************************)
EXTENDS SerialConsole_proofs, FiniteSetTheorems

Held == IF line = None THEN 0 ELSE 1

Total == Len(channel) + Held + Len(pipe)

UnderWay == [i \in 1..Total |->
    IF i <= Len(channel) THEN channel[i]
    ELSE IF i <= Len(channel) + Held THEN line
    ELSE pipe[i - Len(channel) - Held]]

KeysIn(n, s) == {i \in 1..n : s[i] \in KeyLines}

Statuses == {"status0", "status1"}

NothingShown == shown = 0 /\ Len(ret) = 0

OnlyOther == \A i \in 1..Total : UnderWay[i] = "other"

\* The status of the setup is under way, and what follows it are kernel messages.
OneStatus ==
    \E i \in 1..Total :
        /\ UnderWay[i] \in Statuses
        /\ \A j \in 1..Total : j # i => UnderWay[j] = "other"
        /\ Total <= noise + i

\* While the keys are awaited, what is behind a status is of no interest, and what is of
\* interest is so far in front that it finds room in the channel.
Awaiting ==
    /\ guest \in {"scan", "used", "off"}
    /\ guest = "scan" => Total <= noise + shown /\ \A i \in 1..Total : UnderWay[i] \notin Statuses
    /\ \A i \in 1..Total : UnderWay[i] # "other" => i <= Capacity
    /\ \A i, j \in 1..Total : UnderWay[i] \in Statuses /\ i < j => UnderWay[j] = "other"
    /\ outdated => line = "other"

Counted == watchdog = "wait" => Len(ret) + Cardinality(KeysIn(Total, UnderWay)) = shown

KeyInv ==
    /\ handler \in {"login", "setup", "typeSetup"} =>
            guest \in {"boot", "login", "shell", "off"} /\ NothingShown /\ OnlyOther
    /\ handler = "awaitSetup" =>
            /\ guest \in {"setup", "shell", "off"} /\ NothingShown
            /\ OnlyOther \/ (guest # "setup" /\ OneStatus)
    /\ handler \in {"scan", "typeScan"} =>
            guest \in {"shell", "off"} /\ NothingShown /\ OnlyOther /\ Total <= noise
    /\ handler = "awaitScan" => Awaiting /\ Counted
    /\ handler = "ready" => guest # "scan" /\ (watchdog = "wait" => Len(ret) = shown)

-----------------------------------------------------------------------------
(***************************************************************************)
(* Counting keys.                                                          *)
(***************************************************************************)

\* t, of length m, is s, of length n, without its element p.
Without(p, n, s, m, t) ==
    /\ p \in 1..n /\ m = n - 1
    /\ \A i \in 1..m : t[i] = IF i < p THEN s[i] ELSE s[i + 1]

\* t, of length m, is s, of length n, with l at its end.
With(l, n, s, m, t) ==
    /\ m = n + 1
    /\ \A i \in 1..n : t[i] = s[i]
    /\ t[m] = l

\* There are finitely many keys, and none where there is none.
LEMMA KeysAreFinite ==
    ASSUME NEW n \in Nat, NEW s
    PROVE  /\ IsFiniteSet(KeysIn(n, s)) /\ Cardinality(KeysIn(n, s)) \in Nat
           /\ (\A i \in 1..n : s[i] \notin KeyLines) => Cardinality(KeysIn(n, s)) = 0
  <1>1. IsFiniteSet(1..n)
    BY FS_Interval
  <1>2. KeysIn(n, s) \in SUBSET (1..n)
    BY DEF KeysIn
  <1>3. IsFiniteSet(KeysIn(n, s))
    BY <1>1, <1>2, FS_Subset
  <1>4. (\A i \in 1..n : s[i] \notin KeyLines) => KeysIn(n, s) = {}
    BY DEF KeysIn
  <1> QED
    BY <1>3, <1>4, FS_CardinalityType, FS_EmptySet

\* A line that is sent counts when it is a key.
LEMMA WithCounts ==
    ASSUME NEW n \in Nat, NEW s, NEW m, NEW t, NEW l, With(l, n, s, m, t)
    PROVE  Cardinality(KeysIn(m, t))
               = Cardinality(KeysIn(n, s)) + IF l \in KeyLines THEN 1 ELSE 0
  <1>1. IsFiniteSet(KeysIn(n, s)) /\ Cardinality(KeysIn(n, s)) \in Nat
    BY KeysAreFinite
  <1>2. CASE l \in KeyLines
    <2>1. KeysIn(m, t) = KeysIn(n, s) \cup {n + 1}
      BY <1>2 DEF KeysIn, With
    <2>2. n + 1 \notin KeysIn(n, s)
      BY DEF KeysIn
    <2> QED
      BY <1>1, <1>2, <2>1, <2>2, FS_AddElement
  <1>3. CASE l \notin KeyLines
    <2>1. KeysIn(m, t) = KeysIn(n, s)
      BY <1>3 DEF KeysIn, With
    <2> QED
      BY <1>1, <1>3, <2>1
  <1> QED
    BY <1>2, <1>3

\* A line that is taken away no longer counts.
LEMMA WithoutCounts ==
    ASSUME NEW n \in Nat, NEW s, NEW m, NEW t, NEW p, Without(p, n, s, m, t)
    PROVE  Cardinality(KeysIn(n, s))
               = Cardinality(KeysIn(m, t)) + IF s[p] \in KeyLines THEN 1 ELSE 0
  <1> DEFINE S == KeysIn(n, s) \ {p}
             T == KeysIn(m, t)
             f == [i \in S |-> IF i < p THEN i ELSE i - 1]
  <1>1. /\ IsFiniteSet(KeysIn(n, s)) /\ Cardinality(KeysIn(n, s)) \in Nat
        /\ p \in KeysIn(n, s) <=> s[p] \in KeyLines
    BY KeysAreFinite DEF Without, KeysIn
  <1>2. /\ IsFiniteSet(S)
        /\ Cardinality(S) = IF p \in KeysIn(n, s) THEN Cardinality(KeysIn(n, s)) - 1
                                                   ELSE Cardinality(KeysIn(n, s))
    BY <1>1, FS_RemoveElement
  <1>3. \A i \in S : f[i] \in T
    BY DEF KeysIn, Without
  <1>4. \A i, j \in S : f[i] = f[j] => i = j
    BY DEF KeysIn, Without
  <1>5. \A k \in T : \E i \in S : f[i] = k
    <2> SUFFICES ASSUME NEW k \in T PROVE \E i \in S : f[i] = k
      OBVIOUS
    <2>1. CASE k < p
      <3>1. k \in S /\ f[k] = k
        BY <2>1 DEF KeysIn, Without
      <3> QED
        BY <3>1
    <2>2. CASE ~(k < p)
      <3>1. k + 1 \in S /\ f[k + 1] = k
        BY <2>2 DEF KeysIn, Without
      <3> QED
        BY <3>1
    <2> QED
      BY <2>1, <2>2
  <1>6. f \in Bijection(S, T)
    <2> HIDE DEF S, T
    <2>1. f \in [S -> T]
      BY <1>3
    <2> QED
      BY <2>1, <1>4, <1>5 DEF Bijection, Injection, Surjection, IsInjective
  <1>7. Cardinality(T) = Cardinality(S)
    BY <1>2, <1>6, FS_Bijection DEF ExistsBijection
  <1> QED
    BY <1>1, <1>2, <1>7

-----------------------------------------------------------------------------
(***************************************************************************)
(* What the steps do to the lines under way.                               *)
(***************************************************************************)

\* The lines under way are those of the channel, of the reader and of the pipe.
LEMMA Positions ==
    ASSUME TypeOK
    PROVE  /\ Len(channel) \in Nat /\ Len(pipe) \in Nat /\ Held \in {0, 1} /\ Total \in Nat
           /\ \A i \in 1..Total : UnderWay[i] \in Lines
           /\ \A i \in 1..Len(channel) : UnderWay[i] = channel[i]
           /\ line # None => Held = 1 /\ UnderWay[Len(channel) + 1] = line
           /\ \A i \in 1..Len(pipe) : UnderWay[Len(channel) + Held + i] = pipe[i]
  <1>1. /\ Len(channel) \in Nat /\ Len(pipe) \in Nat /\ Held \in {0, 1} /\ Total \in Nat
        /\ \A i \in 1..Len(channel) : channel[i] \in Lines
        /\ \A i \in 1..Len(pipe) : pipe[i] \in Lines
        /\ line # None => line \in Lines /\ Held = 1
        /\ line = None => Held = 0
    BY LenProperties, ElementOfSeq DEF TypeOK, Held, Total
  <1>2. \A i \in 1..Total :
            UnderWay[i] = IF i <= Len(channel) THEN channel[i]
                          ELSE IF i <= Len(channel) + Held THEN line
                          ELSE pipe[i - Len(channel) - Held]
    BY DEF UnderWay
  <1>3. Total = Len(channel) + Held + Len(pipe)
    BY DEF Total
  <1>4. \A i \in 1..Total : UnderWay[i] \in Lines
    <2> SUFFICES ASSUME NEW i \in 1..Total PROVE UnderWay[i] \in Lines
      OBVIOUS
    <2>1. CASE i <= Len(channel)
      BY <1>1, <1>2, <2>1
    <2>2. CASE ~(i <= Len(channel)) /\ i <= Len(channel) + Held
      BY <1>1, <1>2, <2>2
    <2>3. CASE ~(i <= Len(channel) + Held)
      <3>1. i - Len(channel) - Held \in 1..Len(pipe)
        BY <1>1, <1>3, <2>3
      <3> QED
        BY <1>1, <1>2, <2>3, <3>1
    <2> QED
      BY <1>1, <2>1, <2>2, <2>3
  <1>5. \A i \in 1..Len(channel) : UnderWay[i] = channel[i]
    BY <1>1, <1>2, <1>3
  <1>6. line # None => Held = 1 /\ UnderWay[Len(channel) + 1] = line
    BY <1>1, <1>2, <1>3
  <1>7. \A i \in 1..Len(pipe) : UnderWay[Len(channel) + Held + i] = pipe[i]
    <2> SUFFICES ASSUME NEW i \in 1..Len(pipe)
                 PROVE  UnderWay[Len(channel) + Held + i] = pipe[i]
      OBVIOUS
    <2>1. /\ Len(channel) + Held + i \in 1..Total
          /\ ~(Len(channel) + Held + i <= Len(channel) + Held)
          /\ ~(Len(channel) + Held + i <= Len(channel))
          /\ (Len(channel) + Held + i) - Len(channel) - Held = i
      BY <1>1, <1>3
    <2> QED
      BY <1>2, <2>1
  <1> QED
    BY <1>1, <1>4, <1>5, <1>6, <1>7

\* The guest prints at the end.
LEMMA PrintsAtEnd ==
    ASSUME TypeOK, NEW l \in Lines, Prints(l), UNCHANGED <<line, channel>>
    PROVE  With(l, Total, UnderWay, Total', UnderWay')
  <1>1. /\ Len(channel) \in Nat /\ Len(pipe) \in Nat /\ Held \in {0, 1} /\ pipe \in Seq(Lines)
    BY Positions DEF TypeOK
  <1>2. /\ Len(pipe') = Len(pipe) + 1
        /\ \A i \in 1..Len(pipe) : pipe'[i] = pipe[i]
        /\ pipe'[Len(pipe) + 1] = l
    BY <1>1, AppendProperties DEF Prints
  <1>3. Held' = Held /\ channel' = channel /\ line' = line
    BY DEF Held
  <1>4. Total' = Total + 1 /\ Total = Len(channel) + Held + Len(pipe)
    BY <1>1, <1>2, <1>3 DEF Total
  <1>5. \A i \in 1..Total : UnderWay'[i] = UnderWay[i]
    BY <1>1, <1>2, <1>3, <1>4 DEF UnderWay
  <1>6. UnderWay'[Total'] = l
    BY <1>1, <1>2, <1>3, <1>4 DEF UnderWay
  <1> QED
    BY <1>4, <1>5, <1>6 DEF With

\* The serial reader moves a line on.
LEMMA ReadsNext ==
    ASSUME TypeOK, ReadLine
    PROVE  Total' = Total /\ UnderWay' = UnderWay
  <1>1. /\ Len(channel) \in Nat /\ Len(pipe) \in Nat /\ pipe \in Seq(Lines) /\ pipe # <<>>
        /\ line = None /\ Held = 0 /\ channel' = channel
    BY Positions DEF TypeOK, ReadLine, Held
  <1>2. /\ line' = pipe[1] /\ line' \in Lines /\ Len(pipe') = Len(pipe) - 1 /\ Len(pipe) > 0
        /\ \A i \in 1..Len(pipe') : pipe'[i] = pipe[i + 1]
    BY <1>1, HeadTailProperties, LenProperties, EmptySeq DEF ReadLine
  <1>3. Held' = 1
    BY <1>2 DEF Held, None, Lines, KeyLines
  <1>4. Total' = Total
    BY <1>1, <1>2, <1>3 DEF Total
  <1>5. \A i \in 1..Total :
            (IF i <= Len(channel') THEN channel'[i]
             ELSE IF i <= Len(channel') + Held' THEN line'
             ELSE pipe'[i - Len(channel') - Held'])
          = (IF i <= Len(channel) THEN channel[i]
             ELSE IF i <= Len(channel) + Held THEN line
             ELSE pipe[i - Len(channel) - Held])
    BY <1>1, <1>2, <1>3 DEF Total
  <1> QED
    BY <1>4, <1>5 DEF UnderWay

\* The serial reader sends its line, or loses it in a channel that is full or replaced.
LEMMA SendsOrLoses ==
    ASSUME TypeOK, SendLine
    PROVE  \/ ~outdated /\ Total' = Total /\ UnderWay' = UnderWay
           \/ /\ outdated \/ Len(channel) = Capacity
              /\ Without(Len(channel) + 1, Total, UnderWay, Total', UnderWay')
              /\ UnderWay[Len(channel) + 1] = line
  <1>1. /\ Len(channel) \in Nat /\ Len(pipe) \in Nat /\ line # None /\ line \in Lines /\ Held = 1
        /\ channel \in Seq(Lines) /\ pipe' = pipe /\ UnderWay[Len(channel) + 1] = line
    BY Positions DEF TypeOK, SendLine
  <1>2. Held' = 0
    BY DEF SendLine, Held
  <1>3. CASE outdated \/ Len(channel) = Capacity
    <2>1. channel' = channel
      BY <1>3 DEF SendLine
    <2>2. Without(Len(channel) + 1, Total, UnderWay, Total', UnderWay')
      BY <1>1, <1>2, <2>1 DEF Without, Total, UnderWay
    <2> QED
      BY <1>1, <1>3, <2>2
  <1>4. CASE ~(outdated \/ Len(channel) = Capacity)
    <2>1. channel' = Append(channel, line)
      BY <1>4 DEF SendLine
    <2>2. /\ Len(channel') = Len(channel) + 1
          /\ \A i \in 1..Len(channel) : channel'[i] = channel[i]
          /\ channel'[Len(channel) + 1] = line
      BY <1>1, <2>1, AppendProperties
    <2>3. Total' = Total
      BY <1>1, <1>2, <2>2 DEF Total
    <2>4. \A i \in 1..Total :
            (IF i <= Len(channel') THEN channel'[i]
             ELSE IF i <= Len(channel') + Held' THEN line'
             ELSE pipe'[i - Len(channel') - Held'])
          = (IF i <= Len(channel) THEN channel[i]
             ELSE IF i <= Len(channel) + Held THEN line
             ELSE pipe[i - Len(channel) - Held])
      BY <1>1, <1>2, <2>2 DEF Total
    <2> QED
      BY <1>4, <2>3, <2>4 DEF UnderWay
  <1> QED
    BY <1>3, <1>4

\* Who receives takes the first line.
LEMMA ReceivesFirst ==
    ASSUME TypeOK, channel # <<>>, channel' = Tail(channel), UNCHANGED <<line, pipe>>
    PROVE  /\ Without(1, Total, UnderWay, Total', UnderWay')
           /\ UnderWay[1] = Head(channel)
  <1>1. /\ Len(channel) \in Nat /\ Len(pipe) \in Nat /\ Held \in {0, 1} /\ Held' = Held
        /\ channel \in Seq(Lines)
    BY Positions DEF TypeOK, Held
  <1>2. /\ Head(channel) = channel[1] /\ Len(channel') = Len(channel) - 1 /\ Len(channel) > 0
        /\ \A i \in 1..Len(channel') : channel'[i] = channel[i + 1]
    BY <1>1, HeadTailProperties, LenProperties, EmptySeq
  <1> QED
    BY <1>1, <1>2 DEF Without, Total, UnderWay

\* A new channel leaves what the reader has not sent.
LEMMA NewChannelKeeps ==
    ASSUME TypeOK, channel' = <<>>, UNCHANGED <<line, pipe>>
    PROVE  /\ Total' \in Nat /\ Total' <= Total
           /\ \A i \in 1..Total' : \E j \in 1..Total : UnderWay'[i] = UnderWay[j]
  <1>1. /\ Len(channel) \in Nat /\ Len(pipe) \in Nat /\ Held \in {0, 1} /\ Held' = Held
        /\ Len(channel') = 0
    BY Positions, EmptySeq DEF Held
  <1>2. Total' = Held + Len(pipe) /\ Total = Len(channel) + Total'
    BY <1>1 DEF Total
  <1>3. \A i \in 1..Total' :
            i + Len(channel) \in 1..Total /\ UnderWay'[i] = UnderWay[i + Len(channel)]
    BY <1>1, <1>2 DEF UnderWay
  <1> QED
    BY <1>1, <1>2, <1>3

\* The login handler's Peek may take the next line away from the reader.
LEMMA PeekLoses ==
    ASSUME TypeOK, pipe # <<>>, pipe' = Tail(pipe), UNCHANGED <<line, channel>>
    PROVE  Without(Len(channel) + Held + 1, Total, UnderWay, Total', UnderWay')
  <1>1. /\ Len(channel) \in Nat /\ Len(pipe) \in Nat /\ Held \in {0, 1} /\ Held' = Held
        /\ pipe \in Seq(Lines)
    BY Positions DEF TypeOK, Held
  <1>2. /\ Len(pipe') = Len(pipe) - 1 /\ Len(pipe) > 0
        /\ \A i \in 1..Len(pipe') : pipe'[i] = pipe[i + 1]
    BY <1>1, HeadTailProperties, LenProperties, EmptySeq
  <1> QED
    BY <1>1, <1>2 DEF Without, Total, UnderWay

-----------------------------------------------------------------------------
(***************************************************************************)
(* What that does to the invariant.                                        *)
(***************************************************************************)

\* Steps that touch neither the lines under way nor the handler.
LEMMA Unmoved ==
    ASSUME KeyInv, Total' = Total, UnderWay' = UnderWay,
           UNCHANGED <<handler, noise, shown, ret>>,
           \/ guest' \in {guest, "off"}
           \/ guest = "boot" /\ guest' = "login",
           outdated' => outdated /\ line' = line,
           watchdog' = "wait" => watchdog = "wait"
    PROVE  KeyInv'
  <1> USE DEF KeyInv, NothingShown, OnlyOther, OneStatus, Awaiting, Counted
  <1>1. Total' = Total /\ UnderWay' = UnderWay /\ KeysIn(Total, UnderWay)' = KeysIn(Total, UnderWay)
    BY DEF KeysIn
  <1>2. (handler' \in {"login", "setup", "typeSetup"} =>
            guest' \in {"boot", "login", "shell", "off"} /\ NothingShown' /\ OnlyOther')
    OBVIOUS
  <1>3. (handler' = "awaitSetup" =>
            /\ guest' \in {"setup", "shell", "off"} /\ NothingShown'
            /\ OnlyOther' \/ (guest' # "setup" /\ OneStatus'))
    OBVIOUS
  <1>4. (handler' \in {"scan", "typeScan"} =>
            guest' \in {"shell", "off"} /\ NothingShown' /\ OnlyOther' /\ Total' <= noise')
    OBVIOUS
  <1>5. handler' = "awaitScan" => Awaiting'
    OBVIOUS
  <1>6. handler' = "awaitScan" => Counted'
    BY <1>1
  <1>7. handler' = "ready" => guest' # "scan" /\ (watchdog' = "wait" => Len(ret') = shown')
    OBVIOUS
  <1> QED
    BY <1>2, <1>3, <1>4, <1>5, <1>6, <1>7

\* A line that is no status and no key comes to the end.
LEMMA OtherComes ==
    ASSUME TypeOK, KeyInv, With("other", Total, UnderWay, Total', UnderWay'),
           UNCHANGED <<handler, guest, shown, ret, outdated, line, watchdog>>,
           noise' \in {noise, noise + 1},
           guest \in {"boot", "setup", "used"} \/ noise' = noise + 1
    PROVE  KeyInv'
  <1>1. /\ Total \in Nat /\ Total' = Total + 1 /\ noise \in Nat /\ shown \in Nat /\ noise' >= noise
        /\ \A i \in 1..Total : UnderWay'[i] = UnderWay[i]
        /\ UnderWay'[Total'] = "other"
    BY Positions, SerialAssumption DEF With, TypeOK
  <1>2. OnlyOther => OnlyOther'
    BY <1>1 DEF OnlyOther
  <1>3. OneStatus /\ noise' = noise + 1 => OneStatus'
    BY <1>1 DEF OneStatus
  <1>4. Cardinality(KeysIn(Total, UnderWay)') = Cardinality(KeysIn(Total, UnderWay))
    <2>1. "other" \notin KeyLines
      BY DEF KeyLines
    <2> QED
      BY <1>1, <2>1, WithCounts, KeysAreFinite
  <1>5. handler = "awaitScan" => Awaiting'
    <2> SUFFICES ASSUME Awaiting PROVE Awaiting'
      BY DEF KeyInv
    <2>1. guest' \in {"scan", "used", "off"} /\ (outdated' => line' = "other")
      BY DEF Awaiting
    <2>2. guest' = "scan" => /\ Total' <= noise' + shown'
                             /\ \A i \in 1..Total' : UnderWay'[i] \notin Statuses
      BY <1>1 DEF Awaiting, Statuses
    <2>3. \A i \in 1..Total' : UnderWay'[i] # "other" => i <= Capacity
      BY <1>1 DEF Awaiting
    <2>4. \A i, j \in 1..Total' : UnderWay'[i] \in Statuses /\ i < j => UnderWay'[j] = "other"
      BY <1>1 DEF Awaiting
    <2> QED
      BY <2>1, <2>2, <2>3, <2>4 DEF Awaiting
  <1>6. handler = "awaitScan" => Counted'
    BY <1>4 DEF KeyInv, Counted
  <1> QED
    BY <1>1, <1>2, <1>3, <1>5, <1>6 DEF KeyInv, NothingShown

\* A line disappears that, as far as keys are counted, is none.
LEMMA OtherGoes ==
    ASSUME TypeOK, KeyInv, NEW p, Without(p, Total, UnderWay, Total', UnderWay'),
           UNCHANGED <<handler, guest, shown, ret, noise, watchdog>>,
           outdated' => outdated /\ line' = line,
           handler = "awaitScan" /\ watchdog = "wait" => UnderWay[p] = "other"
    PROVE  KeyInv'
  <1>1. /\ Total \in Nat /\ p \in 1..Total /\ Total' = Total - 1 /\ noise \in Nat /\ shown \in Nat
        /\ \A i \in 1..Total' : UnderWay'[i] = IF i < p THEN UnderWay[i] ELSE UnderWay[i + 1]
    BY Positions, SerialAssumption DEF Without, TypeOK
  <1>2. OnlyOther => OnlyOther'
    BY <1>1 DEF OnlyOther
  <1>3. OneStatus => OneStatus' \/ OnlyOther'
    <2> SUFFICES ASSUME NEW k \in 1..Total, UnderWay[k] \in Statuses,
                        \A j \in 1..Total : j # k => UnderWay[j] = "other",
                        Total <= noise + k
                 PROVE  OneStatus' \/ OnlyOther'
      BY DEF OneStatus
    <2>1. CASE p = k
      BY <1>1, <2>1 DEF OnlyOther
    <2>2. CASE p < k
      <3>1. k - 1 \in 1..Total' /\ UnderWay'[k - 1] \in Statuses /\ Total' <= noise' + (k - 1)
        BY <1>1, <2>2
      <3>2. \A j \in 1..Total' : j # k - 1 => UnderWay'[j] = "other"
        BY <1>1, <2>2
      <3> QED
        BY <3>1, <3>2 DEF OneStatus
    <2>3. CASE p > k
      <3>1. k \in 1..Total' /\ UnderWay'[k] \in Statuses /\ Total' <= noise' + k
        BY <1>1, <2>3
      <3>2. \A j \in 1..Total' : j # k => UnderWay'[j] = "other"
        BY <1>1, <2>3
      <3> QED
        BY <3>1, <3>2 DEF OneStatus
    <2> QED
      BY <1>1, <2>1, <2>2, <2>3
  <1>4. handler = "awaitScan" => Awaiting'
    <2> SUFFICES ASSUME Awaiting PROVE Awaiting'
      BY DEF KeyInv
    <2>1. guest' \in {"scan", "used", "off"} /\ (outdated' => line' = "other")
      BY DEF Awaiting
    <2>2. guest' = "scan" => /\ Total' <= noise' + shown'
                             /\ \A i \in 1..Total' : UnderWay'[i] \notin Statuses
      BY <1>1 DEF Awaiting
    <2>3. \A i \in 1..Total' : UnderWay'[i] # "other" => i <= Capacity
      BY <1>1, SerialAssumption DEF Awaiting
    <2>4. \A i, j \in 1..Total' : UnderWay'[i] \in Statuses /\ i < j => UnderWay'[j] = "other"
      BY <1>1 DEF Awaiting
    <2> QED
      BY <2>1, <2>2, <2>3, <2>4 DEF Awaiting
  <1>5. handler = "awaitScan" => Counted'
    <2> SUFFICES ASSUME Counted, watchdog = "wait", UnderWay[p] = "other" PROVE Counted'
      BY DEF KeyInv, Counted
    <2>1. "other" \notin KeyLines
      BY DEF KeyLines
    <2>2. Cardinality(KeysIn(Total, UnderWay)') = Cardinality(KeysIn(Total, UnderWay))
      BY <1>1, <2>1, WithoutCounts, KeysAreFinite
    <2> QED
      BY <2>2 DEF Counted
  <1> QED
    BY <1>1, <1>2, <1>3, <1>4, <1>5 DEF KeyInv, NothingShown

-----------------------------------------------------------------------------
(***************************************************************************)
(* Every step keeps the invariant.                                         *)
(***************************************************************************)

\* The status of the setup is the only line of interest.
LEMMA SetupStatusComes ==
    ASSUME TypeOK, KeyInv, PrintSetupStatus
    PROVE  KeyInv'
  <1> USE DEF HostUnchanged, readerVars, handlerVars, cancelVars
  <1>1. PICK l \in Statuses : Prints(l)
    BY DEF PrintSetupStatus, Statuses
  <1>2. /\ l \in Lines /\ guest = "setup" /\ guest' = "shell"
        /\ UNCHANGED <<line, channel, handler, ret, shown, noise, watchdog>>
    BY DEF PrintSetupStatus, Statuses, Lines
  <1>3. With(l, Total, UnderWay, Total', UnderWay')
    BY <1>1, <1>2, PrintsAtEnd
  <1>4. CASE handler = "awaitSetup"
    <2>1. OnlyOther /\ NothingShown
      BY <1>2, <1>4 DEF KeyInv
    <2>2. Total' \in 1..Total' /\ Total' <= noise' + Total'
      BY <1>2, <1>3, Positions, SerialAssumption DEF With, TypeOK
    <2>3. /\ UnderWay'[Total'] \in Statuses
          /\ \A j \in 1..Total' : j # Total' => UnderWay'[j] = "other"
      BY <1>3, <2>1, Positions DEF With, OnlyOther
    <2>4. OneStatus'
      BY <2>2, <2>3 DEF OneStatus
    <2> QED
      BY <1>2, <1>4, <2>1, <2>4 DEF KeyInv, NothingShown
  <1>5. CASE handler # "awaitSetup"
    <2>1. handler \notin {"login", "setup", "typeSetup", "awaitSetup", "scan", "typeScan",
                          "awaitScan"}
      BY <1>2, <1>5 DEF KeyInv, Awaiting
    <2> QED
      BY <1>2, <2>1 DEF KeyInv
  <1> QED
    BY <1>4, <1>5

\* One more line is within one more key.
LEMMA OneMore ==
    ASSUME NEW n \in Nat, NEW m, NEW a \in Nat, NEW b \in Nat, NEW c \in Nat, NEW d,
           n <= a + c, m = n + 1, b >= a, d = c + 1
    PROVE  m <= b + d
  OBVIOUS

\* A key is counted, and finds room.
LEMMA KeyComes ==
    ASSUME TypeOK, KeyInv, PrintKey
    PROVE  KeyInv'
  <1> USE DEF HostUnchanged, readerVars, handlerVars, cancelVars
  <1>1. PICK l \in KeyLines : Prints(l)
    BY DEF PrintKey, KeyLines
  <1>2. /\ l \in Lines /\ l \notin Statuses /\ guest = "scan" /\ guest' = guest
        /\ shown' = shown + 1 /\ shown < MaxKeys
        /\ UNCHANGED <<line, outdated, channel, handler, ret, watchdog>>
    BY DEF PrintKey, Lines, KeyLines, Statuses
  <1>3. /\ noise \in Nat /\ noise <= MaxNoise /\ noise' >= noise /\ noise' \in Nat
        /\ shown \in Nat /\ Capacity \in Nat
        /\ MaxNoise \in Nat /\ MaxKeys \in Nat /\ MaxNoise + MaxKeys + 1 <= Capacity
    BY SerialAssumption DEF PrintKey, TypeOK
  <1>4. With(l, Total, UnderWay, Total', UnderWay')
    BY <1>1, <1>2, PrintsAtEnd
  <1>5. /\ Total \in Nat /\ Total' = Total + 1 /\ UnderWay'[Total'] = l
        /\ \A i \in 1..Total : UnderWay'[i] = UnderWay[i]
    BY <1>4, Positions DEF With
  <1>6. CASE handler = "awaitScan"
    <2>1. /\ Total <= noise + shown
          /\ \A i \in 1..Total : UnderWay[i] \notin Statuses
          /\ \A i \in 1..Total : UnderWay[i] # "other" => i <= Capacity
          /\ outdated => line = "other"
      BY <1>2, <1>6 DEF KeyInv, Awaiting
    <2>2. \A i \in 1..Total' : UnderWay'[i] \notin Statuses
      BY <1>2, <1>5, <2>1
    <2>3. \A i \in 1..Total' : UnderWay'[i] # "other" => i <= Capacity
      BY <1>2, <1>3, <1>5, <2>1
    <2>4. Awaiting'
      <3>1. Total' <= noise' + shown'
        <4>1. Total \in Nat /\ Total' = Total + 1 /\ Total <= noise + shown
          BY <1>5, <2>1
        <4>2. noise \in Nat /\ noise' \in Nat /\ noise' >= noise /\ shown \in Nat
          BY <1>3
        <4>3. shown' = shown + 1
          BY <1>2
        <4> QED
          BY <4>1, <4>2, <4>3, OneMore
      <3> QED
        BY <1>2, <2>1, <2>2, <2>3, <3>1 DEF Awaiting
    <2>5. Cardinality(KeysIn(Total, UnderWay)') = Cardinality(KeysIn(Total, UnderWay)) + 1
      BY <1>4, Positions, WithCounts
    <2>6. Len(ret) \in Nat /\ Cardinality(KeysIn(Total, UnderWay)) \in Nat
      BY <1>5, KeysAreFinite, LenProperties DEF TypeOK
    <2>7. Counted'
      BY <1>2, <1>6, <2>5, <2>6 DEF KeyInv, Counted
    <2> QED
      BY <1>2, <1>6, <2>4, <2>7 DEF KeyInv
  <1>7. CASE handler # "awaitScan"
    <2>1. handler \notin {"login", "setup", "typeSetup", "awaitSetup", "scan", "typeScan",
                          "awaitScan", "ready"}
      BY <1>2, <1>7 DEF KeyInv
    <2> QED
      BY <1>2, <2>1 DEF KeyInv
  <1> QED
    BY <1>6, <1>7

\* The status of the scan comes behind all keys, and finds room as well.
LEMMA ScanStatusComes ==
    ASSUME TypeOK, KeyInv, ScanEnds
    PROVE  KeyInv'
  <1> USE DEF HostUnchanged, readerVars, handlerVars, cancelVars
  <1>1. /\ guest = "scan" /\ guest' = "used"
        /\ Prints("status0") \/ UNCHANGED pipe
        /\ UNCHANGED <<line, outdated, channel, handler, ret, shown, noise, watchdog>>
    BY DEF ScanEnds
  <1>2. CASE handler = "awaitScan"
    <2>1. /\ Awaiting /\ Counted /\ Total <= noise + shown
          /\ \A i \in 1..Total : UnderWay[i] \notin Statuses
      BY <1>1, <1>2 DEF KeyInv, Awaiting
    <2>2. CASE Prints("status0")
      <3>0. "status0" \in Lines /\ "status0" \notin KeyLines
        BY DEF Lines, KeyLines
      <3>1. With("status0", Total, UnderWay, Total', UnderWay')
        BY <1>1, <2>2, <3>0, PrintsAtEnd
      <3>2. /\ Total \in Nat /\ Total' = Total + 1 /\ UnderWay'[Total'] = "status0"
            /\ \A i \in 1..Total : UnderWay'[i] = UnderWay[i]
        BY <3>1, Positions DEF With
      <3>3. Total' <= Capacity
        BY <2>1, <3>2, SerialAssumption DEF TypeOK
      <3>4. Awaiting'
        <4>1. \A i \in 1..Total' : UnderWay'[i] # "other" => i <= Capacity
          BY <3>2, <3>3, SerialAssumption
        <4>2. \A i, j \in 1..Total' : UnderWay'[i] \in Statuses /\ i < j => UnderWay'[j] = "other"
          BY <2>1, <3>2
        <4> QED
          BY <1>1, <2>1, <4>1, <4>2 DEF Awaiting
      <3>5. Cardinality(KeysIn(Total, UnderWay)') = Cardinality(KeysIn(Total, UnderWay))
        BY <3>0, <3>1, <3>2, WithCounts, KeysAreFinite
      <3>6. Counted'
        BY <1>1, <2>1, <3>5 DEF Counted
      <3> QED
        BY <1>1, <1>2, <3>4, <3>6 DEF KeyInv
    <2>3. CASE UNCHANGED pipe
      <3>1. Total' = Total /\ UnderWay' = UnderWay
        BY <1>1, <2>3 DEF Total, UnderWay, Held
      <3>2. KeysIn(Total, UnderWay)' = KeysIn(Total, UnderWay)
        BY <3>1 DEF KeysIn
      <3>3. Awaiting' /\ Counted'
        BY <1>1, <2>1, <3>1, <3>2 DEF Awaiting, Counted
      <3> QED
        BY <1>1, <1>2, <3>3 DEF KeyInv
    <2> QED
      BY <1>1, <2>2, <2>3
  <1>3. CASE handler # "awaitScan"
    <2>1. handler \notin {"login", "setup", "typeSetup", "awaitSetup", "scan", "typeScan",
                          "awaitScan", "ready"}
      BY <1>1, <1>3 DEF KeyInv
    <2> QED
      BY <1>1, <2>1 DEF KeyInv
  <1> QED
    BY <1>2, <1>3

\* The handler takes a status or another line.
LEMMA Received ==
    ASSUME TypeOK, KeyInv, ReceiveSetupLine \/ ReceiveScanLine
    PROVE  KeyInv'
  <1> USE DEF OnlyReceives, guestVars, readerVars, cancelVars, handlerVars, Goto
  <1>1. /\ channel # <<>> /\ channel' = Tail(channel) /\ UNCHANGED <<line, pipe>>
        /\ UNCHANGED <<guest, shown, noise, outdated, watchdog>>
    BY DEF ReceiveSetupLine, ReceiveScanLine, Receives
  <1>2. /\ Without(1, Total, UnderWay, Total', UnderWay')
        /\ UnderWay[1] = Head(channel)
    BY <1>1, ReceivesFirst
  <1>3. /\ Total \in Nat /\ 1 \in 1..Total /\ Total' = Total - 1 /\ Total' \in Nat
        /\ \A i \in 1..Total' : UnderWay'[i] = UnderWay[i + 1]
    BY <1>2, Positions DEF Without
  <1>4. CASE ReceiveSetupLine
    <2>1. handler = "awaitSetup" /\ ret' = ret
      BY <1>4 DEF ReceiveSetupLine
    <2>2. CASE Head(channel) = "status0"
      <3>1. handler' = "scan"
        BY <1>4, <2>2 DEF ReceiveSetupLine
      <3>2. ~OnlyOther
        BY <1>2, <1>3, <2>2 DEF OnlyOther
      <3>3. guest # "setup" /\ OneStatus /\ guest \in {"setup", "shell", "off"} /\ NothingShown
        BY <2>1, <3>2 DEF KeyInv
      <3>4. PICK k \in 1..Total : /\ UnderWay[k] \in Statuses
                                  /\ \A j \in 1..Total : j # k => UnderWay[j] = "other"
                                  /\ Total <= noise + k
        BY <3>3 DEF OneStatus
      <3>5. k = 1
        BY <1>2, <1>3, <2>2, <3>4
      <3>6. OnlyOther'
        BY <1>3, <3>4, <3>5 DEF OnlyOther
      <3>7. Total' <= noise'
        BY <1>1, <1>3, <3>4, <3>5, SerialAssumption DEF TypeOK
      <3> QED
        BY <1>1, <2>1, <3>1, <3>3, <3>6, <3>7 DEF KeyInv, NothingShown
    <2>3. CASE Head(channel) = "status1"
      <3>1. handler' = "failed"
        BY <1>4, <2>3 DEF ReceiveSetupLine
      <3> QED
        BY <3>1 DEF KeyInv
    <2>4. CASE Head(channel) \notin {"status0", "status1"}
      <3>1. handler' = handler
        BY <1>4, <2>1, <2>4 DEF ReceiveSetupLine
      <3> QED
        BY <1>1, <1>2, <2>1, <3>1, OtherGoes
    <2> QED
      BY <2>2, <2>3, <2>4
  <1>5. CASE ReceiveScanLine
    <2>0. handler = "awaitScan"
      BY <1>5 DEF ReceiveScanLine
    <2>1. CASE Head(channel) \in KeyLines
      <3>1. handler' = handler /\ ret' = Append(ret, Head(channel))
        BY <1>5, <2>1 DEF ReceiveScanLine, KeyLines
      <3>2. /\ Len(ret') = Len(ret) + 1 /\ Len(ret) \in Nat
        BY <2>1, <3>1, AppendProperties, LenProperties DEF TypeOK
      <3>3. Cardinality(KeysIn(Total, UnderWay)) = Cardinality(KeysIn(Total, UnderWay)') + 1
        BY <1>2, <1>3, <2>1, WithoutCounts
      <3>4. Cardinality(KeysIn(Total, UnderWay)') \in Nat
        BY <1>3, KeysAreFinite
      <3>5. Counted'
        BY <1>1, <2>0, <3>2, <3>3, <3>4 DEF KeyInv, Counted
      <3>6. Awaiting'
        <4>1. Awaiting
          BY <2>0 DEF KeyInv
        <4>2. guest' = "scan" => /\ Total' <= noise' + shown'
                                 /\ \A i \in 1..Total' : UnderWay'[i] \notin Statuses
          BY <1>1, <1>3, <4>1, SerialAssumption DEF Awaiting, TypeOK
        <4>3. \A i \in 1..Total' : UnderWay'[i] # "other" => i <= Capacity
          BY <1>3, <4>1, SerialAssumption DEF Awaiting
        <4>4. \A i, j \in 1..Total' : UnderWay'[i] \in Statuses /\ i < j => UnderWay'[j] = "other"
          BY <1>3, <4>1 DEF Awaiting
        <4> QED
          BY <1>1, <4>1, <4>2, <4>3, <4>4 DEF Awaiting
      <3> QED
        BY <2>0, <3>1, <3>5, <3>6 DEF KeyInv
    <2>2. CASE Head(channel) \in {"status0", "status1"}
      <3>1. handler' \in {"ready", "failed"} /\ ret' = ret
        BY <1>5, <2>2 DEF ReceiveScanLine, KeyLines
      <3>2. Awaiting /\ Counted /\ UnderWay[1] \in Statuses
        BY <1>2, <2>0, <2>2 DEF KeyInv, Statuses
      <3>3. \A i \in 1..Total : UnderWay[i] \notin KeyLines
        <4>1. UnderWay[1] \notin KeyLines /\ "other" \notin KeyLines
          BY <3>2 DEF Statuses, KeyLines
        <4>2. \A i \in 1..Total : i # 1 => UnderWay[i] = "other"
          BY <1>3, <3>2 DEF Awaiting
        <4> QED
          BY <4>1, <4>2
      <3>4. Cardinality(KeysIn(Total, UnderWay)) = 0
        BY <1>3, <3>3, KeysAreFinite
      <3>5. watchdog = "wait" => Len(ret) = shown
        BY <3>2, <3>4, LenProperties DEF Counted, TypeOK
      <3>6. guest # "scan"
        BY <1>3, <3>2 DEF Awaiting
      <3> QED
        BY <1>1, <3>1, <3>5, <3>6 DEF KeyInv
    <2>3. CASE Head(channel) = "other"
      <3>1. UNCHANGED handlerVars
        BY <1>5, <2>3 DEF ReceiveScanLine, KeyLines
      <3> QED
        BY <1>1, <1>2, <2>3, <3>1, OtherGoes
    <2> QED
      BY <1>5, <2>1, <2>2, <2>3 DEF ReceiveScanLine
  <1> QED
    BY <1>4, <1>5

\* The channel is replaced before a command is typed.
LEMMA Replaced ==
    ASSUME TypeOK, KeyInv, BeginSetup \/ BeginScan
    PROVE  KeyInv'
  <1>1. /\ channel' = <<>> /\ UNCHANGED <<line, pipe>>
        /\ UNCHANGED <<guest, shown, noise, ret>>
        /\ \/ handler = "setup" /\ handler' = "typeSetup"
           \/ handler = "scan" /\ handler' = "typeScan"
    BY DEF BeginSetup, BeginScan, ResetSerialStdout, Goto, guestVars, cancelVars
  <1>2. /\ Total' \in Nat /\ Total' <= Total
        /\ \A i \in 1..Total' : \E j \in 1..Total : UnderWay'[i] = UnderWay[j]
    BY <1>1, NewChannelKeeps
  <1>3. OnlyOther /\ NothingShown /\ guest \in {"boot", "login", "shell", "off"}
    BY <1>1 DEF KeyInv
  <1>4. OnlyOther' /\ NothingShown'
    BY <1>1, <1>2, <1>3 DEF OnlyOther, NothingShown
  <1>5. handler = "scan" => guest \in {"shell", "off"} /\ Total' <= noise'
    BY <1>1, <1>2, Positions, SerialAssumption DEF KeyInv, TypeOK
  <1> QED
    BY <1>1, <1>3, <1>4, <1>5 DEF KeyInv

\* The key scan is typed when nothing but kernel messages is under way.
LEMMA ScanTyped ==
    ASSUME TypeOK, KeyInv, TypeScan
    PROVE  KeyInv'
  <1>1. /\ handler = "typeScan" /\ handler' = "awaitScan" /\ guest' = "scan"
        /\ UNCHANGED <<channel, line, pipe, outdated, shown, noise, ret, watchdog>>
    BY DEF TypeScan, Goto, readerVars, cancelVars
  <1>2. OnlyOther /\ NothingShown /\ Total <= noise
    BY <1>1 DEF KeyInv
  <1>3. Total' = Total /\ UnderWay' = UnderWay
    BY <1>1 DEF Total, UnderWay, Held
  <1>4. line # None => line = "other"
    <2>1. line # None => Len(channel) + 1 \in 1..Total /\ UnderWay[Len(channel) + 1] = line
      BY Positions DEF Total
    <2> QED
      BY <1>2, <2>1, Positions DEF OnlyOther
  <1>5. Awaiting'
    <2>1. outdated => line # None
      BY DEF TypeOK
    <2>2. "other" \notin Statuses
      BY DEF Statuses
    <2>3. Total' <= noise' + shown'
      BY <1>1, <1>2, <1>3, SerialAssumption DEF NothingShown, TypeOK
    <2>4. \A i \in 1..Total' : UnderWay'[i] = "other"
      BY <1>2, <1>3 DEF OnlyOther
    <2>5. outdated' => line' = "other"
      BY <1>1, <1>4, <2>1
    <2> QED
      BY <1>1, <2>2, <2>3, <2>4, <2>5 DEF Awaiting
  <1>6. Counted'
    <2>1. \A i \in 1..Total : UnderWay[i] \notin KeyLines
      BY <1>2 DEF OnlyOther, KeyLines
    <2>2. Cardinality(KeysIn(Total, UnderWay)) = 0
      BY <1>4, <2>1, Positions, KeysAreFinite
    <2>3. KeysIn(Total, UnderWay)' = KeysIn(Total, UnderWay)
      BY <1>3 DEF KeysIn
    <2> QED
      BY <1>1, <1>2, <2>2, <2>3 DEF Counted, NothingShown
  <1> QED
    BY <1>1, <1>5, <1>6 DEF KeyInv

\* Every step of the guest, the reader, the handler and the watchdog keeps the keys
\* counted and in front of the lines that are lost.
LEMMA KeyStep ==
    ASSUME TypeOK, KeyInv, [Next]_vars
    PROVE  KeyInv'
  <1> USE DEF vars, guestVars, readerVars, handlerVars, cancelVars, HostUnchanged, OnlyHandler, Goto
  <1>1. UNCHANGED <<channel, line, pipe>> => Total' = Total /\ UnderWay' = UnderWay
    BY DEF Total, UnderWay, Held
  <1>2. CASE Guest
    <2>1. CASE PrintOutput \/ PrintNoise
      <3>1. /\ Prints("other") /\ "other" \in Lines
            /\ UNCHANGED <<line, channel, handler, guest, shown, ret, outdated, watchdog>>
            /\ noise' \in {noise, noise + 1}
            /\ guest \in {"boot", "setup", "used"} \/ noise' = noise + 1
        BY <2>1 DEF PrintOutput, PrintNoise, Lines
      <3>2. With("other", Total, UnderWay, Total', UnderWay')
        BY <3>1, PrintsAtEnd
      <3> QED
        BY <3>1, <3>2, OtherComes
    <2>2. CASE PrintLoginPrompt \/ GuestStops
      <3>1. /\ UNCHANGED <<channel, line, pipe, handler, noise, shown, ret, outdated, watchdog>>
            /\ \/ guest' \in {guest, "off"}
               \/ guest = "boot" /\ guest' = "login"
        BY <2>2 DEF PrintLoginPrompt, GuestStops
      <3> QED
        BY <1>1, <3>1, Unmoved
    <2> QED
      BY <1>2, <2>1, <2>2, SetupStatusComes, KeyComes, ScanStatusComes DEF Guest
  <1>3. CASE Reader
    <2>1. CASE ReadLine
      <3>1. /\ ~outdated'
            /\ UNCHANGED <<handler, noise, shown, ret, guest, watchdog>>
        BY <2>1 DEF ReadLine, TypeOK
      <3> QED
        BY <2>1, <3>1, ReadsNext, Unmoved
    <2>2. CASE ReadFails
      <3>1. UNCHANGED <<channel, line, pipe, handler, noise, shown, ret, guest, outdated, watchdog>>
        BY <2>2 DEF ReadFails
      <3> QED
        BY <1>1, <3>1, Unmoved
    <2>3. CASE SendLine
      <3>1. /\ ~outdated'
            /\ UNCHANGED <<handler, noise, shown, ret, guest, watchdog>>
        BY <2>3 DEF SendLine
      <3>2. CASE Total' = Total /\ UnderWay' = UnderWay
        BY <3>1, <3>2, Unmoved
      <3>3. CASE /\ outdated \/ Len(channel) = Capacity
                 /\ Without(Len(channel) + 1, Total, UnderWay, Total', UnderWay')
                 /\ UnderWay[Len(channel) + 1] = line
        <4>1. ASSUME handler = "awaitScan" PROVE UnderWay[Len(channel) + 1] = "other"
          <5>1. Awaiting
            BY <4>1 DEF KeyInv
          <5>2. CASE outdated
            BY <3>3, <5>1, <5>2 DEF Awaiting
          <5>3. CASE Len(channel) = Capacity
            <6>1. Len(channel) + 1 \in 1..Total /\ ~(Len(channel) + 1 <= Capacity)
              BY <3>3, <5>3, Positions DEF Without
            <6> QED
              BY <5>1, <6>1 DEF Awaiting
          <5> QED
            BY <3>3, <5>2, <5>3
        <4> QED
          BY <3>1, <3>3, <4>1, OtherGoes
      <3> QED
        BY <2>3, <3>2, <3>3, SendsOrLoses
    <2> QED
      BY <1>3, <2>1, <2>2, <2>3 DEF Reader
  <1>4. CASE Handler
    <2>1. CASE Login \/ TypeSetup
      <3>1. /\ UNCHANGED <<channel, line, pipe, shown, ret>>
            /\ \/ handler = "login" /\ handler' = "setup" /\ guest' = "shell"
               \/ handler = "typeSetup" /\ handler' = "awaitSetup" /\ guest' = "setup"
        BY <2>1 DEF Login, TypeSetup
      <3>2. OnlyOther' /\ NothingShown'
        BY <1>1, <3>1 DEF KeyInv, OnlyOther, NothingShown
      <3> QED
        BY <3>1, <3>2 DEF KeyInv
    <2>2. CASE PeekRaces
      <3>1. /\ handler = "login"
            /\ UNCHANGED <<line, channel, handler, noise, shown, ret, guest, outdated, watchdog>>
            /\ (pipe # <<>> /\ pipe' = Tail(pipe)) \/ UNCHANGED pipe
        BY <2>2 DEF PeekRaces
      <3>2. CASE UNCHANGED pipe
        BY <1>1, <3>1, <3>2, Unmoved
      <3>3. CASE pipe # <<>> /\ pipe' = Tail(pipe)
        BY <3>1, <3>3, PeekLoses, OtherGoes
      <3> QED
        BY <3>1, <3>2, <3>3
    <2>3. CASE WriteSerialFails \/ Deadline \/ ContextEnds
      <3>1. handler' = "failed"
        BY <2>3 DEF WriteSerialFails, Deadline, ContextEnds
      <3> QED
        BY <3>1 DEF KeyInv
    <2>4. CASE FailureCancels
      <3>1. UNCHANGED <<channel, line, pipe, handler, noise, shown, ret, guest, outdated, watchdog>>
        BY <2>4 DEF FailureCancels
      <3> QED
        BY <1>1, <3>1, Unmoved
    <2> QED
      BY <1>4, <2>1, <2>2, <2>3, <2>4, Received, Replaced, ScanTyped DEF Handler
  <1>5. CASE Watchdog
    <2>1. /\ UNCHANGED <<line, pipe, handler, noise, shown, ret, guest, outdated>>
          /\ watchdog' = "wait" => watchdog = "wait"
      BY <1>5 DEF Watchdog, WatchdogFires, WatchdogLeaves, WatchdogConsumes, WatchdogCancels
    <2>2. \/ UNCHANGED channel
          \/ /\ channel # <<>> /\ channel' = Tail(channel)
             /\ watchdog = "drain" /\ UNCHANGED watchdog
      BY <1>5 DEF Watchdog, WatchdogFires, WatchdogLeaves, WatchdogConsumes, WatchdogCancels
    <2>3. CASE UNCHANGED channel
      BY <1>1, <2>1, <2>3, Unmoved
    <2>4. CASE /\ channel # <<>> /\ channel' = Tail(channel)
               /\ watchdog = "drain" /\ UNCHANGED watchdog
      BY <2>1, <2>4, ReceivesFirst, OtherGoes
    <2> QED
      BY <2>2, <2>3, <2>4
  <1>6. CASE OtherCancels \/ ClosePipes \/ UNCHANGED vars
    <2>1. UNCHANGED <<channel, line, pipe, handler, noise, shown, ret, guest, outdated, watchdog>>
      BY <1>6 DEF OtherCancels, ClosePipes
    <2> QED
      BY <1>1, <2>1, Unmoved
  <1> QED
    BY <1>2, <1>3, <1>4, <1>5, <1>6 DEF Next

-----------------------------------------------------------------------------

\* When scanSSHIdentity returns its keys, they are all the keys the guest printed, unless
\* the watchdog has fired: none was lost in a full or a replaced channel.
THEOREM KeysAreComplete == Spec => []KnownKeysAreComplete
  <1>1. Init => KeyInv
    <2> SUFFICES ASSUME Init PROVE KeyInv
      OBVIOUS
    <2>1. Len(channel) = 0 /\ Len(pipe) = 0 /\ Len(ret) = 0 /\ Held = 0
      BY EmptySeq DEF Init, Held
    <2>2. Total = 0
      BY <2>1 DEF Total
    <2> QED
      BY <2>1, <2>2 DEF Init, KeyInv, NothingShown, OnlyOther
  <1>2. KeyInv => KnownKeysAreComplete
    BY DEF KeyInv, KnownKeysAreComplete
  <1>3. TypeOK /\ KeyInv /\ [Next]_vars => KeyInv'
    BY KeyStep
  <1> QED
    BY <1>1, <1>2, <1>3, TypeCorrect, PTL DEF Spec

=============================================================================
