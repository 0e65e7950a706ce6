---------------------------- MODULE Launch_proofs ----------------------------
(***************************************************************************)
(* Theorems about the ports of a share, for every number of ports, every   *)
(* first port and passive range that meet the assumption, and whatever     *)
(* other programs do; first of module SharePorts, then of module Launch,   *)
(* every step of which is a step of SharePorts or leaves it alone.  Last,  *)
(* the machine QEMU builds, for every command line.                        *)
(***************************************************************************)
EXTENDS Launch, TLAPS

-----------------------------------------------------------------------------
(***************************************************************************)
(* The arithmetic of port numbers.                                         *)
(***************************************************************************)

\* What the assumption says of the constants.
LEMMA Constants ==
    /\ Size \in Nat /\ Size > 0 /\ LastPort \in Nat /\ LastPort + 1 = Size
    /\ FirstPort \in Nat /\ 0 < FirstPort /\ FirstPort < Size
    /\ PassiveCount \in Nat /\ 0 < PassiveCount /\ PassiveCount < FirstPort
    /\ Ports = 0..LastPort
  BY SharePortsAssumption DEF Ports, LastPort

\* A sum below Size is kept, and another comes out below its first part.
LEMMA AddFacts ==
    ASSUME NEW a \in Nat, NEW b \in Nat, a < Size, b <= Size
    PROVE  /\ Add(a, b) \in Ports
           /\ a + b < Size => Add(a, b) = a + b
           /\ a + b >= Size /\ b < Size => Add(a, b) < a
           /\ a + b = Size => Add(a, b) = 0
  <1>1. ASSUME NEW c \in Nat, c < Size
        PROVE  c % Size = c
    BY <1>1, Constants
  <1>2. ASSUME NEW c \in Nat, c < Size
        PROVE  (c + Size) % Size = c
    BY <1>2, Constants
  <1>3. CASE a + b < Size
    BY <1>1, <1>3, Constants DEF Add
  <1>4. CASE a + b >= Size
    <2> DEFINE c == a + b - Size
    <2>1. c \in Nat /\ c < Size /\ a + b = c + Size
      BY <1>4, Constants
    <2>2. Add(a, b) = c
      BY <1>2, <2>1 DEF Add
    <2> QED
      BY <1>4, <2>1, <2>2, Constants
  <1> QED
    BY <1>3, <1>4, Constants

-----------------------------------------------------------------------------
(***************************************************************************)
(* The search and what it found.                                           *)
(***************************************************************************)

Stride == 1 + PassiveCount

\* The candidates of the FTP backend are a stride apart.
CandidateInv ==
    /\ port >= FirstPort
    /\ backend = "ftp" => \E k \in 0..Size : port = FirstPort + k * Stride

\* A candidate that passed the overflow check has room for its successors.
RoomInv ==
    pc \in {"probe", "new", "boot", "setup", "serve"} /\ backend # "none" =>
        /\ port < LastPort
        /\ backend = "ftp" => port + Stride < Size

\* What the search looked at is free while nobody interferes.
FreeInv ==
    /\ pc = "probe" => seq < Checked /\ backend # "none"
    /\ pc = "search" => backend # "none"
    /\ ~disturbed =>
        /\ pc = "probe" => \A i \in 0..seq - 1 : ~InUse(<<"loopback", port + i>>)
        /\ pc \in {"new", "boot"} /\ backend # "none" =>
                \A i \in 0..Checked - 1 : ~InUse(<<"loopback", port + i>>)
        /\ pc = "boot" => ~InUse(<<"loopback", sshPort>>)

\* The rules of a share are those of its backend for some address.
RulesInv ==
    pc \in {"boot", "setup", "serve"} /\ backend # "none" =>
        \E listen \in Addresses : extraRules = ShareRules(listen)

BootInv ==
    /\ FoundIsBindable
    /\ RulesInv
    /\ pc = "serve" /\ backend = "ftp" => announced = port + 1..port + 1 + PassiveCount

PortInv == TypeOK /\ CandidateInv /\ RoomInv /\ FreeInv /\ BootInv

\* How many ports the search looks at.
LEMMA CheckedFacts ==
    ASSUME TypeOK
    PROVE  /\ Subsequent = IF backend = "ftp" THEN PassiveCount ELSE 0
           /\ Checked = IF backend = "ftp" THEN PassiveCount ELSE 1
           /\ Subsequent \in Nat /\ Checked \in Nat /\ Checked >= 1 /\ Checked <= PassiveCount
  BY Constants DEF Subsequent, Checked

\* The rules of a candidate with room are for the ports next to it.
LEMMA RulesAreNext ==
    ASSUME TypeOK, CandidateInv, RoomInv, NEW listen \in Addresses,
           pc \in {"new", "boot", "setup", "serve"}, backend # "none"
    PROVE  LET rules == ShareRules(listen)
           IN  /\ rules \in Seq(ForwardingRules)
               /\ backend = "ftp" => DOMAIN rules = 1..1 + PassiveCount
               /\ backend # "ftp" => DOMAIN rules = {1}
               /\ \A i \in DOMAIN rules : rules[i].host = listen /\ rules[i].port = port + (i - 1)
               /\ backend = "ftp" =>
                    \A i \in DOMAIN rules :
                        rules[i].port # port => rules[i].guest = rules[i].port
  <1>0. port \in Nat /\ port < Size /\ port \in Ports
    BY Constants DEF TypeOK
  <1>1. CASE backend = "ftp"
    <2>1. port + Stride < Size
      BY <1>1 DEF RoomInv
    <2>2. \A i \in 1..1 + PassiveCount :
            Add(port, i - 1) = port + (i - 1) /\ Add(port, i - 1) \in Ports
      <3> TAKE i \in 1..1 + PassiveCount
      <3>1. i - 1 \in Nat /\ port + (i - 1) < Size /\ i - 1 <= Size
        BY <1>0, <2>1, Constants DEF Stride
      <3> QED
        BY <1>0, <3>1, AddFacts
    <2> DEFINE rule(i) == Rule(listen, Add(port, i - 1),
                               IF i = 1 THEN 21 ELSE Add(port, i - 1))
               rules == [i \in 1..1 + PassiveCount |-> rule(i)]
    <2>3. ShareRules(listen) = rules
      BY <1>1 DEF ShareRules, FTPRules
    <2>4. \A i \in 1..1 + PassiveCount :
            /\ rule(i) \in ForwardingRules
            /\ rule(i).host = listen /\ rule(i).port = port + (i - 1)
            /\ rule(i).port # port => rule(i).guest = rule(i).port
      <3> TAKE i \in 1..1 + PassiveCount
      <3>1. Add(port, i - 1) \in Ports /\ Add(port, i - 1) \in Nat
            /\ Add(port, i - 1) = port + (i - 1)
        BY <2>2, Constants
      <3>2. i = 1 => port + (i - 1) = port
        BY <1>0
      <3> QED
        BY <3>1, <3>2 DEF Rule, ForwardingRules
    <2> HIDE DEF rule
    <2>5. rules \in Seq(ForwardingRules) /\ DOMAIN rules = 1..1 + PassiveCount
      BY <2>4, Constants
    <2>6. \A i \in 1..1 + PassiveCount : rules[i] = rule(i)
      OBVIOUS
    <2> HIDE DEF rules
    <2> QED
      BY <1>1, <2>3, <2>4, <2>5, <2>6
  <1>2. CASE backend # "ftp"
    <2>1. PICK g \in Nat : ShareRules(listen) = <<Rule(listen, port, g)>>
      BY <1>2 DEF ShareRules
    <2>2. Rule(listen, port, g) \in ForwardingRules
      BY <1>0, <2>1 DEF Rule, ForwardingRules
    <2>3. Rule(listen, port, g).host = listen /\ Rule(listen, port, g).port = port + (1 - 1)
      BY <1>0 DEF Rule
    <2> QED
      BY <1>2, <2>1, <2>2, <2>3
  <1> QED
    BY <1>1, <1>2

\* A candidate that passes the overflow check has room.
LEMMA SearchStep ==
    ASSUME PortInv, Search
    PROVE  PortInv'
  <1> USE DEF PortInv, Search
  <1>1. TypeOK' /\ CandidateInv' /\ BootInv'
    BY Constants DEF TypeOK, CandidateInv, BootInv, FoundIsBindable, RulesInv
  <1>2. FreeInv'
    BY CheckedFacts, Constants DEF FreeInv, Checked, Subsequent
  <1>3. RoomInv'
    <2>1. SUFFICES ASSUME pc' = "probe", backend # "none" PROVE RoomInv'
      BY DEF RoomInv
    <2>2. port < LastPort /\ Add(port, Subsequent) >= port
      BY <2>1
    <2>3. CASE backend = "ftp"
      <3>1. port \in Nat /\ port < Size
        BY Constants DEF TypeOK
      <3>2. port + PassiveCount < Size
        <4>1. Add(port, PassiveCount) >= port
          BY <2>2, <2>3 DEF Subsequent
        <4>2. PassiveCount < Size
          BY Constants
        <4> QED
          BY <3>1, <4>1, <4>2, AddFacts, Constants DEF Ports
      <3>3. port + PassiveCount # LastPort
        BY <2>3, SharePortsAssumption DEF CandidateInv, Stride
      <3> QED
        BY <2>2, <2>3, <3>1, <3>2, <3>3, Constants DEF RoomInv, Stride
    <2>4. CASE backend # "ftp"
      BY <2>2, <2>4 DEF RoomInv
    <2> QED
      BY <2>3, <2>4
  <1> QED
    BY <1>1, <1>2, <1>3


\* A port found free stays free while nobody interferes.
LEMMA ProbeFreeStep ==
    ASSUME PortInv, ProbeFree
    PROVE  PortInv'
  <1> USE DEF PortInv, ProbeFree
  <1>0. port \in Nat /\ port < Size /\ seq \in Nat /\ Checked \in Nat /\ seq < Checked
        /\ Checked <= PassiveCount /\ Checked' = Checked
    BY CheckedFacts, Constants DEF TypeOK, FreeInv, Checked, Subsequent
  <1>1. TypeOK' /\ CandidateInv' /\ RoomInv'
    BY <1>0, Constants DEF TypeOK, CandidateInv, RoomInv, FreeInv
  <1>2. BootInv'
    BY DEF BootInv, FoundIsBindable, RulesInv
  <1>3. FreeInv'
    <2>1. Add(port, seq) = port + seq
      <3>1. port + seq < Size /\ seq <= Size
        BY <1>0, CheckedFacts, Constants DEF RoomInv, FreeInv, Stride
      <3> QED
        BY <1>0, <3>1, AddFacts
    <2>2. ~InUse(<<"loopback", port + seq>>)
      BY <2>1 DEF Probed
    <2>3. ~disturbed => \A i \in 0..seq : ~InUse(<<"loopback", port + i>>)
      BY <1>0, <2>2 DEF FreeInv
    <2>4. \A s : InUse(s)' <=> InUse(s)
      BY DEF InUse
    <2> QED
      BY <1>0, <2>3, <2>4 DEF FreeInv
  <1> QED
    BY <1>1, <1>2, <1>3

\* The next candidate is a stride further, and does not wrap around.
LEMMA ProbeInUseStep ==
    ASSUME PortInv, ProbeInUse
    PROVE  PortInv'
  <1> USE DEF PortInv, ProbeInUse
  <1>0. port \in Nat /\ port < LastPort /\ Subsequent \in Nat /\ backend # "none"
    BY CheckedFacts, Constants DEF TypeOK, RoomInv, FreeInv
  <1>1. port + (1 + Subsequent) < Size
    BY <1>0, CheckedFacts, Constants DEF RoomInv, Stride
  <1>2. port' = port + (1 + Subsequent)
    BY <1>0, <1>1, AddFacts, Constants
  <1>3. TypeOK'
    BY <1>0, <1>1, <1>2, Constants DEF TypeOK
  <1>4. CandidateInv'
    <2>1. port' >= FirstPort
      BY <1>0, <1>2, Constants DEF CandidateInv
    <2>2. CASE backend = "ftp"
      <3>1. PICK k \in 0..Size : port = FirstPort + k * Stride
        BY <2>2 DEF CandidateInv
      <3>2. (k + 1) * Stride = k * Stride + Stride /\ k * Stride >= k
        BY <3>1, Constants DEF Stride
      <3>3. port' = FirstPort + (k + 1) * Stride
        BY <1>2, <2>2, <3>1, <3>2, Constants DEF Stride, Subsequent
      <3>4. k + 1 \in 0..Size
        BY <1>0, <3>1, <3>2, Constants DEF Stride
      <3> QED
        BY <2>1, <3>3, <3>4 DEF CandidateInv
    <2> QED
      BY <2>1, <2>2 DEF CandidateInv
  <1>5. RoomInv' /\ FreeInv' /\ BootInv'
    BY <1>0 DEF RoomInv, FreeInv, BootInv, FoundIsBindable, RulesInv
  <1> QED
    BY <1>3, <1>4, <1>5

\* NewVM takes the rules of the share, and a free port for SSH.
LEMMA NewVMStep ==
    ASSUME PortInv, NEW listen \in Addresses, NEW forwards \in Seq(ForwardingRules),
           NewVM(listen, forwards)
    PROVE  PortInv'
  <1> USE DEF PortInv, NewVM
  <1>1. ShareRules(listen)' = ShareRules(listen) /\ \A s : InUse(s)' <=> InUse(s)
    BY DEF ShareRules, FTPRules, InUse, Add
  <1>2. extraRules' \in Seq(ForwardingRules)
    BY RulesAreNext
  <1>3. RulesInv'
    <2>1. backend # "none" => extraRules' = ShareRules(listen)'
      BY <1>1
    <2> HIDE DEF NewVM
    <2>2. backend' = backend
      BY DEF NewVM
    <2> QED
      BY <2>1, <2>2 DEF RulesInv
  <1>4. TypeOK' /\ CandidateInv' /\ RoomInv'
    BY <1>2, Constants DEF TypeOK, CandidateInv, RoomInv
  <1>5. FreeInv'
    BY <1>1, Constants DEF FreeInv, Checked, Subsequent
  <1>6. BootInv'
    BY <1>3 DEF BootInv, FoundIsBindable
  <1> QED
    BY <1>4, <1>5, <1>6

\* Two listeners are in each other's way.
LEMMA ClashIsMutual ==
    ASSUME NEW s, NEW t, Clash(s, t)
    PROVE  Clash(t, s)
  BY DEF Clash

\* A bind that fails has one of the known reasons.
LEMMA BootStep ==
    ASSUME PortInv, Boot
    PROVE  PortInv'
  <1> USE DEF PortInv
  <1>0. /\ pc = "boot" /\ pc' \in {"setup", "bindFailed"}
        /\ UNCHANGED <<backend, port, seq, sshPort, taken, disturbed, extraRules, announced>>
    BY DEF Boot
  <1>1. TypeOK' /\ CandidateInv' /\ RoomInv' /\ FreeInv'
    BY <1>0 DEF TypeOK, CandidateInv, RoomInv, FreeInv
  <1>2. ASSUME pc' = "bindFailed", ~disturbed, ~(backend = "none" /\ extraRules # <<>>)
        PROVE  \/ \E i \in DOMAIN extraRules :
                    LET rule == extraRules[i]
                    IN  \/ rule.host \in {"foreign", "ipv6"}
                        \/ \E t \in taken : /\ Clash(SocketOf(rule), t)
                                            /\ ~Clash(<<"loopback", rule.port>>, t)
                        \/ Clash(SocketOf(rule), SocketOf(SSHRule))
               \/ backend = "ftp" /\ InUse(<<"loopback", Add(port, PassiveCount)>>)
    <2>1. Bindable(SSHRule)
      BY <1>0, <1>2 DEF FreeInv, Bindable, SocketOf, SSHRule, Rule
    <2>2. /\ DOMAIN AllRules = 0..Len(extraRules)
          /\ Len(extraRules) \in Nat /\ DOMAIN extraRules = 1..Len(extraRules)
          /\ AllRules[0] = SSHRule
          /\ \A i \in DOMAIN extraRules : i # 0 /\ AllRules[i] = extraRules[i]
      BY DEF TypeOK, AllRules
    <2>3. \A i \in DOMAIN AllRules : i = 0 \/ i \in DOMAIN extraRules
      BY <2>2
    <2>4. \/ \E i \in DOMAIN AllRules : ~Bindable(AllRules[i])
          \/ \E i, j \in DOMAIN AllRules :
                i # j /\ Clash(SocketOf(AllRules[i]), SocketOf(AllRules[j]))
      BY <1>2 DEF Boot
    <2>5. \/ \E i \in DOMAIN extraRules : ~Bindable(extraRules[i])
          \/ \E i \in DOMAIN extraRules : Clash(SocketOf(extraRules[i]), SocketOf(SSHRule))
          \/ \E i, j \in DOMAIN extraRules :
                i # j /\ Clash(SocketOf(extraRules[i]), SocketOf(extraRules[j]))
      <3>1. CASE \E i \in DOMAIN AllRules : ~Bindable(AllRules[i])
        BY <2>1, <2>2, <2>3, <3>1
      <3>2. CASE \E i, j \in DOMAIN AllRules :
                    i # j /\ Clash(SocketOf(AllRules[i]), SocketOf(AllRules[j]))
        BY <2>2, <2>3, <3>2, ClashIsMutual
      <3> QED
        BY <2>4, <3>1, <3>2
    <2>6. backend # "none"
      <3>1. extraRules = <<>> => DOMAIN extraRules = {}
        OBVIOUS
      <3> QED
        BY <1>2, <2>5, <3>1
    <2>7. PICK listen \in Addresses : extraRules = ShareRules(listen)
      BY <1>0, <2>6 DEF BootInv, RulesInv
    <2>8. /\ backend = "ftp" => DOMAIN extraRules = 1..1 + PassiveCount
          /\ backend # "ftp" => DOMAIN extraRules = {1}
          /\ \A i \in DOMAIN extraRules : extraRules[i].port = port + (i - 1)
      BY <1>0, <2>6, <2>7, RulesAreNext
    <2>9. port \in Nat /\ port < Size
      BY Constants DEF TypeOK
    <2>10. CASE \E i \in DOMAIN extraRules : ~Bindable(extraRules[i])
      <3>1. PICK i \in DOMAIN extraRules : ~Bindable(extraRules[i])
        BY <2>10
      <3> DEFINE rule == extraRules[i]
      <3>2. SUFFICES ASSUME rule.host \notin {"foreign", "ipv6"}, NEW t \in taken,
                            Clash(SocketOf(rule), t), Clash(<<"loopback", rule.port>>, t)
                     PROVE  backend = "ftp" /\ InUse(<<"loopback", Add(port, PassiveCount)>>)
        BY <3>1 DEF Bindable, InUse
      <3>3. rule.port = port + (i - 1)
        BY <2>8
      <3>4. InUse(<<"loopback", port + (i - 1)>>)
        BY <3>2, <3>3 DEF InUse
      <3>5. i - 1 \notin 0..Checked - 1
        BY <1>0, <1>2, <2>6, <3>4 DEF FreeInv
      <3>6. backend = "ftp" /\ i - 1 = PassiveCount
        BY <2>8, <3>5, CheckedFacts, Constants
      <3>7. Add(port, PassiveCount) = port + PassiveCount
        <4>1. port + PassiveCount < Size /\ PassiveCount <= Size
          BY <1>0, <2>9, <3>6, Constants DEF RoomInv, Stride
        <4> QED
          BY <2>9, <4>1, AddFacts, Constants
      <3> QED
        BY <3>4, <3>6, <3>7
    <2>11. ~\E i, j \in DOMAIN extraRules :
                i # j /\ Clash(SocketOf(extraRules[i]), SocketOf(extraRules[j]))
      <3> SUFFICES ASSUME NEW i \in DOMAIN extraRules, NEW j \in DOMAIN extraRules,
                          Clash(SocketOf(extraRules[i]), SocketOf(extraRules[j]))
                   PROVE  i = j
        OBVIOUS
      <3>1. extraRules[i].port = extraRules[j].port
        BY DEF Clash, SocketOf
      <3>2. i \in Nat /\ j \in Nat
        BY <2>2
      <3> QED
        BY <2>8, <2>9, <3>1, <3>2
    <2> QED
      BY <2>5, <2>10, <2>11
  <1>3. FoundIsBindable'
    BY <1>0, <1>2 DEF FoundIsBindable, InUse, SSHRule, Add
  <1>4. RulesInv'
    BY <1>0 DEF BootInv, RulesInv, ShareRules, FTPRules, Add
  <1>5. BootInv'
    BY <1>0, <1>3, <1>4 DEF BootInv
  <1> QED
    BY <1>1, <1>5

\* What the FTP server announces are the ports after the control port.
LEMMA StartServerStep ==
    ASSUME PortInv, StartServer
    PROVE  PortInv'
  <1> USE DEF PortInv, StartServer
  <1>1. /\ announced' \subseteq Ports
        /\ backend = "ftp" => announced' = port + 1..port + 1 + PassiveCount
    <2>1. CASE backend = "ftp"
      <3>1. port \in Nat /\ port + 1 + PassiveCount < Size
        BY <2>1, Constants DEF TypeOK, RoomInv, Stride
      <3>2. /\ 1 \in Nat /\ 1 <= Size /\ PassiveCount \in Nat /\ PassiveCount <= Size
            /\ port < Size /\ port + 1 \in Nat /\ port + 1 < Size
        BY <3>1, Constants
      <3>3. Add(port, 1) = port + 1
        BY <3>1, <3>2, AddFacts
      <3>4. Add(port + 1, PassiveCount) = port + 1 + PassiveCount
        BY <3>1, <3>2, AddFacts
      <3> QED
        BY <2>1, <3>1, <3>2, <3>3, <3>4, Constants
    <2>2. CASE backend # "ftp"
      BY <2>2
    <2> QED
      BY <2>1, <2>2
  <1>2. RulesInv'
    BY DEF BootInv, RulesInv, ShareRules, FTPRules, Add
  <1> QED
    BY <1>1, <1>2 DEF TypeOK, CandidateInv, RoomInv, FreeInv, BootInv, FoundIsBindable

\* Every step keeps the invariant.
LEMMA PortStep ==
    ASSUME PortInv, [Next]_vars
    PROVE  PortInv'
  <1> USE DEF PortInv
  <1>1. CASE ProbeFails \/ GiveUp
    BY <1>1 DEF ProbeFails, GiveUp, TypeOK, CandidateInv, RoomInv, FreeInv, BootInv,
                FoundIsBindable, RulesInv
  <1>2. CASE \E listen \in Addresses, forwards \in Seq(ForwardingRules) : NewVM(listen, forwards)
    BY <1>2, NewVMStep
  <1>3. CASE Disturb
    <2>1. /\ pc \in {"search", "probe", "new", "boot"}
          /\ taken' \subseteq OtherSockets /\ disturbed' \in BOOLEAN /\ disturbed'
          /\ UNCHANGED <<backend, pc, port, seq, sshPort, extraRules, announced>>
      BY <1>3 DEF Disturb, TypeOK
    <2>2. TypeOK' /\ CandidateInv' /\ RoomInv'
      BY <2>1 DEF TypeOK, CandidateInv, RoomInv
    <2>3. FreeInv'
      BY <2>1 DEF FreeInv, Checked, Subsequent
    <2>4. BootInv'
      BY <2>1 DEF BootInv, FoundIsBindable, RulesInv, ShareRules, FTPRules, Add
    <2> QED
      BY <2>2, <2>3, <2>4
  <1>4. CASE UNCHANGED vars
    <2>1. \A s : InUse(s)' <=> InUse(s)
      BY <1>4 DEF vars, InUse
    <2>2. RulesInv' /\ FoundIsBindable'
      BY <1>4, <2>1 DEF vars, BootInv, RulesInv, ShareRules, FTPRules, Add, FoundIsBindable, SSHRule
    <2> QED
      BY <1>4, <2>1, <2>2 DEF vars, TypeOK, CandidateInv, RoomInv, FreeInv, BootInv,
                              Checked, Subsequent
  <1> QED
    BY <1>1, <1>2, <1>3, <1>4, SearchStep, ProbeFreeStep, ProbeInUseStep, BootStep,
       StartServerStep DEF Next, Share

\* The invariant holds of every behaviour.
LEMMA PortInvariance == Spec => []PortInv
  <1>1. Init => PortInv
    <2> SUFFICES ASSUME Init PROVE PortInv
      OBVIOUS
    <2>1. TypeOK
      <3>1. disturbed \in BOOLEAN
        BY DEF Init
      <3>2. port \in Ports /\ seq \in 0..PassiveCount /\ taken \subseteq OtherSockets
        BY Constants DEF Init
      <3>3. backend \in Backends /\ pc \in {"search", "new"} /\ sshPort = 0
            /\ extraRules = <<>> /\ announced = {}
        BY DEF Init
      <3> QED
        BY <3>1, <3>2, <3>3 DEF TypeOK
    <2>2. CandidateInv
      <3>1. FirstPort = FirstPort + 0 * Stride /\ 0 \in 0..Size
        BY Constants DEF Stride
      <3> QED
        BY <3>1, Constants DEF Init, CandidateInv
    <2> QED
      BY <2>1, <2>2 DEF Init, PortInv, RoomInv, FreeInv, BootInv, FoundIsBindable, RulesInv
  <1> QED
    BY <1>1, PortStep, PTL DEF Spec

-----------------------------------------------------------------------------
(***************************************************************************)
(* Module Launch.                                                          *)
(***************************************************************************)

\* Building the QEMU arguments refines the step from the search to the binding of ports.
THEOREM LaunchImplementsPorts == LaunchSpec => Spec
  <1>1. LaunchInit => Init
    BY DEF LaunchInit
  <1>2. [LaunchNext]_launchVars => [Next]_vars
    <2> SUFFICES ASSUME [LaunchNext]_launchVars PROVE [Next]_vars
      OBVIOUS
    <2>1. CASE Configure
      BY <2>1, LaunchAssumption DEF Configure, Next, Share
    <2>2. CASE SearchAndServe \/ ConfigureFails \/ QemuRefuses \/ QemuStarts \/ Disturb
      BY <2>2 DEF SearchAndServe, ConfigureFails, QemuRefuses, QemuStarts, Next, Share
    <2> QED
      BY <2>1, <2>2 DEF LaunchNext, Start, launchVars
  <1> QED
    BY <1>1, <1>2, PTL DEF LaunchSpec, Spec

\* Every variable keeps its type, and QEMU has a machine only while it runs.
THEOREM LaunchTypeCorrect == LaunchSpec => []LaunchTypeOK
  <1> DEFINE Rest == /\ request \in Requests \cup {NoRequest}
                     /\ machine.disks # {} => pc \in {"setup", "serve"}
  <1>1. LaunchInit => Rest
    BY DEF LaunchInit, NoMachine
  <1>2. Rest /\ [LaunchNext]_launchVars => Rest'
    <2> SUFFICES ASSUME Rest, [LaunchNext]_launchVars PROVE Rest'
      OBVIOUS
    <2>1. CASE SearchAndServe
      BY <2>1 DEF SearchAndServe, Search, ProbeFree, ProbeInUse, ProbeFails, StartServer
    <2>2. CASE Configure \/ ConfigureFails \/ QemuRefuses
      BY <2>2 DEF Configure, ConfigureFails, QemuRefuses, NewVM, GiveUp
    <2>3. CASE QemuStarts
      BY <2>3 DEF QemuStarts, NoMachine
    <2>4. CASE Disturb /\ UNCHANGED <<request, machine>>
      BY <2>4 DEF Disturb
    <2>5. CASE UNCHANGED launchVars
      BY <2>5 DEF launchVars, vars
    <2> QED
      BY <2>1, <2>2, <2>3, <2>4, <2>5 DEF LaunchNext, Start
  <1>3. PortInv /\ Rest => LaunchTypeOK
    BY DEF PortInv, LaunchTypeOK
  <1> QED
    BY <1>1, <1>2, <1>3, LaunchImplementsPorts, PortInvariance, PTL DEF LaunchSpec

\* The 16-bit arithmetic of the search never wraps around to a port below the first one.
THEOREM PortsStayInRange == LaunchSpec => []PortsAreInRange
  <1>1. PortInv => PortsAreInRange
    <2> SUFFICES ASSUME PortInv, pc \in {"boot", "setup", "serve"}, backend # "none",
                        NEW i \in DOMAIN extraRules
                 PROVE  extraRules[i].port >= FirstPort
      BY DEF PortsAreInRange
    <2>1. PICK listen \in Addresses : extraRules = ShareRules(listen)
      BY DEF PortInv, BootInv, RulesInv
    <2>2. /\ extraRules[i].port = port + (i - 1) /\ i \in Nat /\ i >= 1
          /\ port \in Nat /\ port >= FirstPort
      BY <2>1, RulesAreNext, Constants DEF PortInv, TypeOK, CandidateInv
    <2> QED
      BY <2>2, Constants
  <1> QED
    BY <1>1, LaunchImplementsPorts, PortInvariance, PTL

\* Undisturbed, QEMU can bind what was found, but for what the search does not look at:
\* the other addresses, the last FTP port and the port for SSH.
THEOREM FoundPortsBind == LaunchSpec => []FoundIsBindable
  <1>1. PortInv => FoundIsBindable
    BY DEF PortInv, BootInv
  <1> QED
    BY <1>1, LaunchImplementsPorts, PortInvariance, PTL

\* The passive ports the FTP server announces are forwarded, but for one too many.
THEOREM PassivePortsForwarded == LaunchSpec => []PassivePortsAgree
  <1>1. PortInv => PassivePortsAgree
    <2> SUFFICES ASSUME PortInv, pc = "serve", backend = "ftp"
                 PROVE  /\ port \notin announced
                        /\ {extraRules[i].port : i \in DOMAIN extraRules}
                             = {port} \cup (announced \ {Add(port, 1 + PassiveCount)})
                        /\ \A i \in DOMAIN extraRules :
                             extraRules[i].port # port => extraRules[i].guest = extraRules[i].port
      BY DEF PassivePortsAgree
    <2>1. port \in Nat /\ port + 1 + PassiveCount < Size
      BY Constants DEF PortInv, TypeOK, RoomInv, Stride
    <2>2. PICK listen \in Addresses : extraRules = ShareRules(listen)
      BY DEF PortInv, BootInv, RulesInv
    <2>4. /\ DOMAIN extraRules = 1..1 + PassiveCount
          /\ \A i \in DOMAIN extraRules :
                /\ extraRules[i].port = port + (i - 1)
                /\ extraRules[i].port # port => extraRules[i].guest = extraRules[i].port
      BY <2>2, RulesAreNext DEF PortInv
    <2>5. {extraRules[i].port : i \in DOMAIN extraRules} = port..port + PassiveCount
      <3>1. \A p \in port..port + PassiveCount :
                p - port + 1 \in 1..1 + PassiveCount /\ port + ((p - port + 1) - 1) = p
        BY <2>1, Constants
      <3>2. \A i \in 1..1 + PassiveCount : port + (i - 1) \in port..port + PassiveCount
        BY <2>1, Constants
      <3> QED
        BY <2>4, <3>1, <3>2
    <2>6. announced = port + 1..port + 1 + PassiveCount
      BY DEF PortInv, BootInv
    <2>3. Add(port, 1 + PassiveCount) = port + 1 + PassiveCount
      <3>1. 1 + PassiveCount \in Nat /\ 1 + PassiveCount <= Size /\ port < Size
            /\ port + (1 + PassiveCount) < Size
            /\ port + (1 + PassiveCount) = port + 1 + PassiveCount
        BY <2>1, Constants
      <3> QED
        BY <2>1, <3>1, AddFacts
    <2>7. port..port + PassiveCount
            = {port} \cup ((port + 1..port + 1 + PassiveCount) \ {port + 1 + PassiveCount})
      BY <2>1, Constants
    <2>8. port \notin announced
      BY <2>1, <2>6
    <2> QED
      BY <2>3, <2>4, <2>5, <2>6, <2>7, <2>8
  <1> QED
    BY <1>1, LaunchImplementsPorts, PortInvariance, PTL

-----------------------------------------------------------------------------
(***************************************************************************)
(* The machine of a request.                                               *)
(***************************************************************************)

\* The two arguments of the image, and the two of a block device passed through.
ImageDrive(r) ==
    [arg |-> "drive", id |-> "drive0", file |-> CleanQEMUPath(r, r.image),
     format |-> "qcow2", snapshot |-> r.command # "build"]

ImageDevice(r) ==
    [arg |-> "device", driver |-> "virtio-blk-pci", drive |-> "drive0",
     bootindex |-> r.command # "build", blockSize |-> Unset]

BlockDrive(r) ==
    [arg |-> "drive", id |-> "drive1", file |-> CleanQEMUPath(r, r.device),
     format |-> "raw", snapshot |-> FALSE]

BlockDevice(r) ==
    [arg |-> "device", driver |-> "virtio-blk-pci", drive |-> "drive1",
     bootindex |-> FALSE,
     blockSize |-> IF r.passthrough = "dev" THEN r.blockSize ELSE DefaultBlockSize]

HasBlock(r) == r.passthrough \in {"dev", "dev_faulty_bs"}

\* What a path is cleaned of is not its name.
LEMMA CleanPath ==
    ASSUME NEW r \in CommandLines, NEW path \in Paths
    PROVE  /\ CleanQEMUPath(r, path).name = path.name
           /\ CleanQEMUPath(r, path).chars \subseteq path.chars
  BY DEF CommandLines, Paths, CleanQEMUPath

\* The parts of the configuration that the arguments are made of.
LEMMA ConfigFacts ==
    ASSUME NEW r \in CommandLines, NEW ports
    PROVE  /\ UserNetwork(Config(r, ports)) =
                {[arg |-> "netdev", type |-> "user", id |-> "net0",
                  restrict |-> r.command = "ls" \/ (r.command = "run" /\ ~r.unrestricted),
                  hostfwd |-> ports],
                 [arg |-> "device", driver |-> "virtio-net", netdev |-> "net0"]}
           /\ Drives(Config(r, ports)) = {ImageDrive(r), ImageDevice(r)}
           /\ BlockPassthrough(Config(r, ports)) =
                IF HasBlock(r) THEN {BlockDrive(r), BlockDevice(r)} ELSE {}
           /\ USBPassthrough(Config(r, ports)) =
                IF r.passthrough = "usb"
                THEN {[arg |-> "device", driver |-> "usb-host", usb |-> r.usbID % IDSize]}
                ELSE {}
  <1> DEFINE c == Config(r, ports)
  <1>1. /\ c.windows = r.windows /\ c.cdrom = (r.command = "build")
        /\ c.drive = [path |-> r.image, snapshot |-> r.command # "build"]
        /\ c.usb = USB(r) /\ c.block = Block(r) /\ c.forwards = ports
        /\ c.unrestricted = (r.command \in {"build", "shell"}
                                \/ (r.command = "run" /\ r.unrestricted))
    BY DEF Config
  <1>2. /\ r.command \in {"run", "ls", "shell", "build"} /\ r.unrestricted \in BOOLEAN
        /\ r.passthrough \in {"none", "dev", "dev_faulty_bs", "usb"}
    BY DEF CommandLines
  <1>3. \A path : CleanQEMUPath(c, path) = CleanQEMUPath(r, path)
    BY <1>1 DEF CleanQEMUPath
  <1>4. UserNetwork(c) =
                {[arg |-> "netdev", type |-> "user", id |-> "net0",
                  restrict |-> r.command = "ls" \/ (r.command = "run" /\ ~r.unrestricted),
                  hostfwd |-> ports],
                 [arg |-> "device", driver |-> "virtio-net", netdev |-> "net0"]}
    <2>1. (~c.unrestricted) = (r.command = "ls" \/ (r.command = "run" /\ ~r.unrestricted))
      BY <1>1, <1>2
    <2> QED
      BY <1>1, <2>1 DEF UserNetwork
  <1>5. Drives(c) = {ImageDrive(r), ImageDevice(r)}
    <2>1. (~c.cdrom) = (r.command # "build")
      BY <1>1
    <2>2. c.drive.path = r.image /\ c.drive.snapshot = (r.command # "build")
      BY <1>1
    <2> QED
      BY <1>3, <2>1, <2>2 DEF Drives, ImageDrive, ImageDevice
  <1>6. BlockPassthrough(c) = IF HasBlock(r) THEN {BlockDrive(r), BlockDevice(r)} ELSE {}
    <2>1. CASE r.passthrough \in {"dev", "dev_faulty_bs"}
      <3> DEFINE d == [path |-> r.device,
                       blockSize |-> IF r.passthrough = "dev" THEN r.blockSize
                                                              ELSE DefaultBlockSize]
      <3>1. c.block = {d}
        BY <1>1, <2>1 DEF Block
      <3> HIDE DEF c
      <3>2. BlockPassthrough(c) =
                {[arg |-> "device", driver |-> "virtio-blk-pci", drive |-> "drive1",
                  bootindex |-> FALSE, blockSize |-> d.blockSize],
                 [arg |-> "drive", id |-> "drive1", file |-> CleanQEMUPath(c, d.path),
                  format |-> "raw", snapshot |-> FALSE]}
        BY <3>1 DEF BlockPassthrough
      <3> QED
        BY <1>3, <2>1, <3>2 DEF HasBlock, BlockDrive, BlockDevice
    <2>2. CASE r.passthrough \in {"none", "usb"}
      <3>1. c.block = {}
        BY <1>1, <2>2 DEF Block
      <3> HIDE DEF c
      <3> QED
        BY <2>2, <3>1 DEF HasBlock, BlockPassthrough
    <2> QED
      BY <1>2, <2>1, <2>2
  <1>7. USBPassthrough(c) =
                IF r.passthrough = "usb"
                THEN {[arg |-> "device", driver |-> "usb-host", usb |-> r.usbID % IDSize]}
                ELSE {}
    BY <1>1 DEF USBPassthrough, USB
  <1> QED
    BY <1>4, <1>5, <1>6, <1>7

\* The arguments QEMU groups together.
LEMMA GroupedArgs ==
    ASSUME NEW r \in CommandLines, NEW ports
    PROVE  LET args == Args(Config(r, ports))
           IN  /\ Of(args, "drive") =
                      {ImageDrive(r)} \cup IF HasBlock(r) THEN {BlockDrive(r)} ELSE {}
               /\ Having(args, "drive") =
                    {ImageDevice(r)} \cup IF HasBlock(r) THEN {BlockDevice(r)} ELSE {}
               /\ Having(args, "usb") = USBPassthrough(Config(r, ports))
               /\ Of(args, "netdev") =
                    {[arg |-> "netdev", type |-> "user", id |-> "net0",
                      restrict |-> r.command = "ls" \/ (r.command = "run" /\ ~r.unrestricted),
                      hostfwd |-> ports]}
                    \cup IF r.tap THEN {[arg |-> "netdev", type |-> "tap", id |-> "net1"]} ELSE {}
               /\ Of(args, "boot") =
                    IF r.command = "build" THEN {[arg |-> "boot", order |-> "d"]} ELSE {}
               /\ Of(args, "m") =
                    {[arg |-> "m",
                      value |-> IF r.command = "build" THEN 512 ELSE MemoryAlloc(r)]}
  <1> DEFINE c == Config(r, ports)
             args == Args(c)
             user == [arg |-> "netdev", type |-> "user", id |-> "net0",
                      restrict |-> r.command = "ls" \/ (r.command = "run" /\ ~r.unrestricted),
                      hostfwd |-> ports]
             card(n) == [arg |-> "device", driver |-> "virtio-net", netdev |-> n]
             tap == [arg |-> "netdev", type |-> "tap", id |-> "net1"]
             usb == [arg |-> "device", driver |-> "usb-host", usb |-> r.usbID % IDSize]
             mem == [arg |-> "m",
                     value |-> IF r.command = "build" THEN 512 ELSE MemoryAlloc(r)]
             boot == [arg |-> "boot", order |-> "d"]
             cdrom == [arg |-> "cdrom"]
             Always == {mem, user, card("net0"), ImageDrive(r), ImageDevice(r)}
             IfBuild == IF r.command = "build" THEN {cdrom, boot} ELSE {}
             IfTap == IF r.tap THEN {tap, card("net1")} ELSE {}
             IfUSB == IF r.passthrough = "usb" THEN {usb} ELSE {}
             IfBlock == IF HasBlock(r) THEN {BlockDrive(r), BlockDevice(r)} ELSE {}
  <1>1. args = Always \cup IfBuild \cup IfTap \cup IfUSB \cup IfBlock
    <2>1. BaseArgs(c) = {mem} \cup IfBuild
      BY DEF BaseArgs, Config
    <2>2. TapNetwork(c) = IfTap
      BY DEF TapNetwork, Config
    <2>3. /\ UserNetwork(c) = {user, card("net0")}
          /\ Drives(c) = {ImageDrive(r), ImageDevice(r)}
          /\ BlockPassthrough(c) = IfBlock
          /\ USBPassthrough(c) = IfUSB
      BY ConfigFacts
    <2> HIDE DEF c, mem, user, card, boot, cdrom, tap, usb
    <2> QED
      BY <2>1, <2>2, <2>3 DEF Args
  <1>2. /\ mem.arg = "m" /\ user.arg = "netdev" /\ tap.arg = "netdev" /\ boot.arg = "boot"
        /\ cdrom.arg = "cdrom" /\ usb.arg = "device" /\ \A n : card(n).arg = "device"
        /\ ImageDrive(r).arg = "drive" /\ BlockDrive(r).arg = "drive"
        /\ ImageDevice(r).arg = "device" /\ BlockDevice(r).arg = "device"
    BY DEF ImageDrive, BlockDrive, ImageDevice, BlockDevice
  <1>3. /\ "drive" \in DOMAIN ImageDevice(r) /\ "drive" \in DOMAIN BlockDevice(r)
        /\ "drive" \notin DOMAIN usb /\ \A n : "drive" \notin DOMAIN card(n)
        /\ "usb" \notin DOMAIN ImageDevice(r) /\ "usb" \notin DOMAIN BlockDevice(r)
        /\ "usb" \in DOMAIN usb /\ \A n : "usb" \notin DOMAIN card(n)
    BY DEF ImageDevice, BlockDevice
  <1>4. USBPassthrough(c) = IfUSB
    BY ConfigFacts
  <1> HIDE DEF c, args, mem, user, card, boot, cdrom, tap, usb
  <1>5. /\ Of(args, "drive") = {ImageDrive(r)} \cup IF HasBlock(r) THEN {BlockDrive(r)} ELSE {}
        /\ Of(args, "netdev") = {user} \cup IF r.tap THEN {tap} ELSE {}
    BY <1>1, <1>2 DEF Of
  <1>6. /\ Of(args, "boot") = IF r.command = "build" THEN {boot} ELSE {}
        /\ Of(args, "m") = {mem}
    BY <1>1, <1>2 DEF Of
  <1>7. /\ Having(args, "drive") =
                {ImageDevice(r)} \cup IF HasBlock(r) THEN {BlockDevice(r)} ELSE {}
        /\ Having(args, "usb") = IfUSB
    BY <1>1, <1>2, <1>3 DEF Having, Of
  <1> QED
    BY <1>4, <1>5, <1>6, <1>7 DEF c, args, mem, user, boot, tap

\* What NewVM does not refuse has no comma in a path, and a block size.
LEMMA AcceptedFacts ==
    ASSUME NEW r \in CommandLines, ~Refused(r)
    PROVE  /\ FileOpened(ImageDrive(r).file) = r.image.name
           /\ HasBlock(r) => /\ FileOpened(BlockDrive(r).file) = r.device.name
                             /\ BlockDevice(r).blockSize # Unset
  <1> DEFINE c == Config(r, {})
             args == Args(c)
  <1>1. Of(args, "drive") = {ImageDrive(r)} \cup IF HasBlock(r) THEN {BlockDrive(r)} ELSE {}
    BY GroupedArgs
  <1>2. \A file \in Files(args) : ValidArgStrValue(file)
    BY DEF Refused
  <1>3. \A file \in Files(args) : FileOpened(file) = file.name
    BY <1>2 DEF ValidArgStrValue, FileOpened
  <1>4. \A d \in Of(args, "drive") : d.file \in Files(args)
    BY DEF Files, Of
  <1>5. FileOpened(ImageDrive(r).file) = r.image.name
    <2>1. FileOpened(ImageDrive(r).file) = ImageDrive(r).file.name
      BY <1>1, <1>3, <1>4
    <2>2. ImageDrive(r).file = CleanQEMUPath(r, r.image) /\ r.image \in Paths
      BY DEF ImageDrive, CommandLines
    <2> QED
      BY <2>1, <2>2, CleanPath
  <1>6. ASSUME HasBlock(r)
        PROVE  FileOpened(BlockDrive(r).file) = r.device.name
    <2>1. FileOpened(BlockDrive(r).file) = BlockDrive(r).file.name
      BY <1>1, <1>3, <1>4, <1>6
    <2>2. BlockDrive(r).file = CleanQEMUPath(r, r.device) /\ r.device \in Paths
      BY DEF BlockDrive, CommandLines
    <2> QED
      BY <2>1, <2>2, CleanPath
  <1>7. ASSUME HasBlock(r)
        PROVE  BlockDevice(r).blockSize # Unset
    <2>1. CASE r.passthrough = "dev"
      <3>1. c.block = {[path |-> r.device, blockSize |-> r.blockSize]}
        BY <2>1 DEF Config, Block
      <3>2. \A d \in c.block : ValidBlockSize(d.blockSize)
        BY DEF Refused
      <3> HIDE DEF c
      <3>3. ValidBlockSize(r.blockSize)
        BY <3>1, <3>2
      <3> QED
        BY <2>1, <3>3 DEF ValidBlockSize, BlockDevice, Unset
    <2>2. CASE r.passthrough # "dev"
      BY <2>2 DEF BlockDevice, Unset, DefaultBlockSize
    <2> QED
      BY <2>1, <2>2
  <1> QED
    BY <1>5, <1>6, <1>7

\* LUKS gets its memory.
LEMMA MemoryFacts ==
    ASSUME NEW r \in CommandLines, r.luks, ~r.allowLowMemory
    PROVE  r.command # "build" /\ MemoryAlloc(r) >= LUKSMemory
  BY DEF CommandLines, MemoryAlloc, LUKSMemory

\* The disks QEMU makes: each drive is named by one device.
LEMMA DisksOfRequest ==
    ASSUME NEW r \in CommandLines, ~Refused(r), NEW ports
    PROVE  Machine(Args(Config(r, ports))).disks
             = {ImageDisk(r)} \cup IF HasBlock(r) THEN {DeviceDisk(r)} ELSE {}
  <1> DEFINE args == Args(Config(r, ports))
             Disk(drive, device) ==
                [file      |-> FileOpened(drive.file),
                 format    |-> drive.format,
                 snapshot  |-> drive.snapshot,
                 boots     |-> device.bootindex,
                 blockSize |-> IF device.blockSize = Unset THEN DefaultBlockSize
                                                           ELSE device.blockSize]
             Pairs == {q \in Of(args, "drive") \X Having(args, "drive") : q[1].id = q[2].drive}
  <1>1. Machine(args).disks = {Disk(p[1], p[2]) : p \in Pairs}
    BY DEF Machine
  <1>2. /\ Of(args, "drive") = {ImageDrive(r)} \cup IF HasBlock(r) THEN {BlockDrive(r)} ELSE {}
        /\ Having(args, "drive") =
                {ImageDevice(r)} \cup IF HasBlock(r) THEN {BlockDevice(r)} ELSE {}
    BY GroupedArgs
  <1>3. /\ ImageDrive(r).id = "drive0" /\ BlockDrive(r).id = "drive1"
        /\ ImageDevice(r).drive = "drive0" /\ BlockDevice(r).drive = "drive1"
    BY DEF ImageDrive, BlockDrive, ImageDevice, BlockDevice
  <1>4. Pairs = {<<ImageDrive(r), ImageDevice(r)>>}
                    \cup IF HasBlock(r) THEN {<<BlockDrive(r), BlockDevice(r)>>} ELSE {}
    <2> HIDE DEF args
    <2> QED
      BY <1>2, <1>3
  <1>5. Disk(ImageDrive(r), ImageDevice(r)) = ImageDisk(r)
    BY AcceptedFacts DEF ImageDrive, ImageDevice, ImageDisk
  <1>6. HasBlock(r) => Disk(BlockDrive(r), BlockDevice(r)) = DeviceDisk(r)
    <2> SUFFICES ASSUME HasBlock(r)
                 PROVE  Disk(BlockDrive(r), BlockDevice(r)) = DeviceDisk(r)
      OBVIOUS
    <2>1. /\ FileOpened(BlockDrive(r).file) = r.device.name
          /\ BlockDevice(r).blockSize # Unset
      BY AcceptedFacts
    <2>2. /\ BlockDrive(r).format = "raw" /\ BlockDrive(r).snapshot = FALSE
          /\ BlockDevice(r).bootindex = FALSE
          /\ BlockDevice(r).blockSize
                = IF r.passthrough = "dev" THEN r.blockSize ELSE DefaultBlockSize
      BY DEF BlockDrive, BlockDevice
    <2> QED
      BY <2>1, <2>2 DEF DeviceDisk
  <1> HIDE DEF Pairs, args, Disk
  <1>7. {Disk(p[1], p[2]) : p \in Pairs}
            = {ImageDisk(r)} \cup IF HasBlock(r) THEN {DeviceDisk(r)} ELSE {}
    <2>1. CASE HasBlock(r)
      <3>1. Pairs = {<<ImageDrive(r), ImageDevice(r)>>, <<BlockDrive(r), BlockDevice(r)>>}
        BY <1>4, <2>1
      <3> QED
        BY <1>5, <1>6, <2>1, <3>1
    <2>2. CASE ~HasBlock(r)
      <3>1. Pairs = {<<ImageDrive(r), ImageDevice(r)>>}
        BY <1>4, <2>2
      <3> QED
        BY <1>5, <2>2, <3>1
    <2> QED
      BY <2>1, <2>2
  <1> QED
    BY <1>1, <1>7 DEF args

\* The rest of the machine.
LEMMA MachineOfRequest ==
    ASSUME NEW r \in CommandLines, NEW ports
    PROVE  LET m == Machine(Args(Config(r, ports)))
           IN  /\ m.usb = IF r.passthrough = "usb" THEN {r.usbID % IDSize} ELSE {}
               /\ m.bootCdrom <=> r.command = "build"
               /\ m.forwards = ports
               /\ m.restricted <=> r.command = "ls" \/ (r.command = "run" /\ ~r.unrestricted)
               /\ "tap" \in m.networks <=> r.tap
               /\ (r.luks /\ ~r.allowLowMemory) => \A n \in m.memory : n >= LUKSMemory
  <1> DEFINE args == Args(Config(r, ports))
             user == [arg |-> "netdev", type |-> "user", id |-> "net0",
                      restrict |-> r.command = "ls" \/ (r.command = "run" /\ ~r.unrestricted),
                      hostfwd |-> ports]
             tap == [arg |-> "netdev", type |-> "tap", id |-> "net1"]
  <1>1. Machine(args).usb = IF r.passthrough = "usb" THEN {r.usbID % IDSize} ELSE {}
    <2>1. Machine(args).usb = {a.usb : a \in Having(args, "usb")}
      BY DEF Machine
    <2>2. Having(args, "usb") =
                IF r.passthrough = "usb"
                THEN {[arg |-> "device", driver |-> "usb-host", usb |-> r.usbID % IDSize]}
                ELSE {}
      BY GroupedArgs, ConfigFacts
    <2> DEFINE id == r.usbID % IDSize
               usb == [arg |-> "device", driver |-> "usb-host", usb |-> id]
    <2>3. CASE r.passthrough = "usb"
      <3>1. Having(args, "usb") = {usb} /\ usb.usb = id
        BY <2>2, <2>3
      <3> HIDE DEF args, usb, id
      <3>2. {a.usb : a \in Having(args, "usb")} = {id}
        BY <3>1
      <3> QED
        BY <2>1, <2>3, <3>2 DEF id
    <2> HIDE DEF args
    <2>4. CASE r.passthrough # "usb"
      BY <2>1, <2>2, <2>4
    <2> QED
      BY <2>3, <2>4
  <1>2. Machine(args).bootCdrom <=> r.command = "build"
    <2>1. Of(args, "boot") =
                IF r.command = "build" THEN {[arg |-> "boot", order |-> "d"]} ELSE {}
      BY GroupedArgs
    <2>2. Machine(args).bootCdrom = (Of(args, "boot") # {})
      BY DEF Machine
    <2> QED
      BY <2>1, <2>2
  <1>3. Of(args, "netdev") = {user} \cup IF r.tap THEN {tap} ELSE {}
    BY GroupedArgs
  <1>4. /\ user.type = "user" /\ user.hostfwd = ports
        /\ user.restrict = (r.command = "ls" \/ (r.command = "run" /\ ~r.unrestricted))
        /\ tap.type = "tap"
    OBVIOUS
  <1>5. /\ Machine(args).networks = {a.type : a \in Of(args, "netdev")}
        /\ Machine(args).forwards
                = UNION {a.hostfwd : a \in {b \in Of(args, "netdev") : b.type = "user"}}
        /\ Machine(args).restricted
                = \A a \in Of(args, "netdev") : a.type = "user" => a.restrict
    BY DEF Machine
  <1>6. Machine(args).memory = {IF r.command = "build" THEN 512 ELSE MemoryAlloc(r)}
    <2> DEFINE size == IF r.command = "build" THEN 512 ELSE MemoryAlloc(r)
               mem == [arg |-> "m", value |-> size]
    <2>1. Of(args, "m") = {mem} /\ mem.value = size
      BY GroupedArgs
    <2>2. Machine(args).memory = {a.value : a \in Of(args, "m")}
      BY DEF Machine
    <2> HIDE DEF args, mem, size
    <2>3. {a.value : a \in Of(args, "m")} = {size}
      BY <2>1
    <2> QED
      BY <2>2, <2>3 DEF size
  <1> HIDE DEF args, user, tap
  <1>7. /\ "tap" \in Machine(args).networks <=> r.tap
        /\ Machine(args).restricted
                <=> r.command = "ls" \/ (r.command = "run" /\ ~r.unrestricted)
    BY <1>3, <1>4, <1>5
  <1>8. Machine(args).forwards = ports
    <2>1. {b \in Of(args, "netdev") : b.type = "user"} = {user}
      BY <1>3, <1>4
    <2> QED
      BY <1>4, <1>5, <2>1
  <1>9. (r.luks /\ ~r.allowLowMemory) => \A n \in Machine(args).memory : n >= LUKSMemory
    BY <1>6, MemoryFacts
  <1> QED
    BY <1>1, <1>2, <1>7, <1>8, <1>9 DEF args

\* What is configured belongs to an accepted request, and to the ports that were found or
\* given with it.
ConfigInv ==
    /\ pc \in {"boot", "setup", "serve"} =>
        /\ request \in CommandLines /\ ~Refused(request)
        /\ extraRules = IF backend = "none" THEN request.forwards ELSE ShareRules(request.listen)
    /\ pc \in {"setup", "serve"} => machine = Machine(Args(Config(request, ForwardedRules)))

\* The rules in the arguments are the one for SSH and the others.
LEMMA ForwardedFacts ==
    ASSUME TypeOK
    PROVE  ForwardedRules = {SSHRule} \cup {extraRules[i] : i \in DOMAIN extraRules}
  <1>1. /\ DOMAIN AllRules = 0..Len(extraRules)
        /\ Len(extraRules) \in Nat /\ DOMAIN extraRules = 1..Len(extraRules)
        /\ AllRules[0] = SSHRule
        /\ \A i \in DOMAIN extraRules : AllRules[i] = extraRules[i]
    BY DEF TypeOK, AllRules
  <1>2. DOMAIN AllRules = {0} \cup DOMAIN extraRules
    BY <1>1
  <1> QED
    BY <1>1, <1>2 DEF ForwardedRules

\* Every step keeps what is configured.
LEMMA ConfigStep ==
    ASSUME ConfigInv, [LaunchNext]_launchVars
    PROVE  ConfigInv'
  <1> USE DEF ConfigInv
  <1>0. ASSUME UNCHANGED <<backend, port, sshPort, extraRules, request, machine>>,
               pc' \in {"boot", "setup", "serve"} => pc \in {"boot", "setup", "serve"},
               pc' \in {"setup", "serve"} => pc \in {"setup", "serve"}
        PROVE  ConfigInv'
    <2>1. ForwardedRules' = ForwardedRules
      BY <1>0 DEF ForwardedRules, AllRules, SSHRule
    <2>2. \A listen : ShareRules(listen)' = ShareRules(listen)
      BY <1>0 DEF ShareRules, FTPRules, Add
    <2> QED
      BY <1>0, <2>1, <2>2
  <1>1. CASE SearchAndServe
    <2>1. CASE StartServer
      BY <1>0, <1>1, <2>1 DEF SearchAndServe, StartServer
    <2>2. CASE Search \/ ProbeFree \/ ProbeInUse \/ ProbeFails
      BY <2>2 DEF Search, ProbeFree, ProbeInUse, ProbeFails
    <2> QED
      BY <1>1, <2>1, <2>2 DEF SearchAndServe
  <1>2. CASE Configure
    <2>1. PICK r \in Requests : /\ ~Refused(r)
                                /\ NewVM(r.listen, r.forwards)
                                /\ request' = r
      BY <1>2 DEF Configure
    <2>2. ShareRules(r.listen)' = ShareRules(r.listen)
      BY <2>1 DEF NewVM, ShareRules, FTPRules, Add
    <2>3. r \in CommandLines
      BY LaunchAssumption
    <2>4. /\ pc' = "boot" /\ backend' = backend
          /\ extraRules' = IF backend = "none" THEN r.forwards ELSE ShareRules(r.listen)
      BY <2>1 DEF NewVM
    <2> QED
      BY <2>1, <2>2, <2>3, <2>4
  <1>3. CASE ConfigureFails \/ QemuRefuses
    BY <1>3 DEF ConfigureFails, QemuRefuses, GiveUp
  <1>4. CASE QemuStarts
    <2>1. /\ pc = "boot" /\ pc' \in {"setup", "bindFailed"}
          /\ UNCHANGED <<backend, port, request, sshPort, extraRules>>
      BY <1>4 DEF QemuStarts, Boot
    <2>2. ForwardedRules' = ForwardedRules
      BY <2>1 DEF ForwardedRules, AllRules, SSHRule
    <2>3. \A listen : ShareRules(listen)' = ShareRules(listen)
      BY <2>1 DEF ShareRules, FTPRules, Add
    <2>4. pc' = "setup" => machine' = Machine(Args(Config(request, ForwardedRules)))
      BY <1>4 DEF QemuStarts
    <2> QED
      BY <2>1, <2>2, <2>3, <2>4
  <1>5. CASE Disturb /\ UNCHANGED <<request, machine>>
    BY <1>0, <1>5 DEF Disturb
  <1>6. CASE UNCHANGED launchVars
    BY <1>0, <1>6 DEF launchVars, vars
  <1> QED
    BY <1>1, <1>2, <1>3, <1>4, <1>5, <1>6 DEF LaunchNext, Start

\* The machine QEMU runs has the disks, the network, the rules and the memory of the
\* command line, for every command line; the two things the code gets wrong excepted.
THEOREM MachineConfigured == LaunchSpec => []MachineIsConfigured
  <1>1. LaunchInit => ConfigInv
    BY DEF LaunchInit, Init, ConfigInv
  <1>2. PortInv /\ ConfigInv => MachineIsConfigured
    <2> SUFFICES ASSUME PortInv, ConfigInv, pc \in {"setup", "serve"}
                 PROVE  MachineIsConfigured
      BY DEF MachineIsConfigured
    <2>1. /\ request \in CommandLines /\ ~Refused(request)
          /\ machine = Machine(Args(Config(request, ForwardedRules)))
          /\ extraRules
                = IF backend = "none" THEN request.forwards ELSE ShareRules(request.listen)
      BY DEF ConfigInv
    <2>2. /\ request.usbID \in Nat
          /\ request.command \in {"run", "ls", "shell", "build"}
          /\ request.unrestricted \in BOOLEAN
      BY <2>1 DEF CommandLines
    <2>3. request.usbID < IDSize => request.usbID % IDSize = request.usbID
      BY <2>2 DEF IDSize
    <2>0. LET m == machine
              r == request
          IN  /\ m.usb = IF r.passthrough = "usb" THEN {r.usbID % IDSize} ELSE {}
              /\ m.bootCdrom <=> r.command = "build"
              /\ m.forwards = ForwardedRules
              /\ m.restricted <=> r.command = "ls" \/ (r.command = "run" /\ ~r.unrestricted)
              /\ "tap" \in m.networks <=> r.tap
              /\ (r.luks /\ ~r.allowLowMemory) => \A n \in m.memory : n >= LUKSMemory
      <3> HIDE DEF ConfigInv
      <3> QED
        BY <2>1, MachineOfRequest
    <2>4. machine.forwards = {SSHRule} \cup {extraRules[i] : i \in DOMAIN extraRules}
      BY <2>0, ForwardedFacts DEF PortInv
    <2>5. machine.disks
            = {ImageDisk(request)} \cup IF HasBlock(request) THEN {DeviceDisk(request)} ELSE {}
      BY <2>1, DisksOfRequest
    <2>6. /\ request.usbID < IDSize =>
                machine.usb = IF request.passthrough = "usb" THEN {request.usbID} ELSE {}
          /\ machine.bootCdrom <=> request.command = "build"
          /\ ~(request.command = "ls" /\ request.unrestricted) =>
                (machine.restricted <=> request.command \in {"run", "ls"} /\ ~request.unrestricted)
          /\ "tap" \in machine.networks <=> request.tap
          /\ (request.luks /\ ~request.allowLowMemory) => \A m \in machine.memory : m >= LUKSMemory
      BY <2>2, <2>3, <2>0
    <2> QED
      BY <2>1, <2>4, <2>5, <2>6 DEF MachineIsConfigured, HasBlock
  <1> QED
    BY <1>1, <1>2, ConfigStep, LaunchImplementsPorts, PortInvariance, PTL DEF LaunchSpec

=============================================================================
