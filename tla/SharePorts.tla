----------------------------- MODULE SharePorts -----------------------------
(***************************************************************************)
(* The host ports of a network file share: the search for free ones        *)
(* (src/share/ports.go), the forwarding rules the backends derive from it  *)
(* (ftp.go, smb.go, afp.go), the port of the guest's SSH server, the       *)
(* moment QEMU binds them all, and the ports the FTP server announces to   *)
(* its clients (src/vm/filemanager.go).  The backend "none" stands for a   *)
(* command without a share, whose rules are those of --forward-ports, and  *)
(* for an SMB share on a network tap.                                      *)
(*                                                                         *)
(* A socket is a pair of an address and a port.  The search looks at       *)
(* 127.0.0.1, QEMU binds to the address --share-listen names.              *)
(***************************************************************************)
EXTENDS Naturals, Sequences

CONSTANTS
    Size,         \* port numbers wrap around at it (2^16 in the code)
    FirstPort,    \* where the search begins (9000)
    PassiveCount, \* passivePortCount of the FTP backend (9)
    EphemeralPorts, \* those the host gives to who asks for any free port
    OtherSockets, \* the sockets other programs may listen on
    WildcardExcludes, \* TRUE when nobody may listen on a port of one address while
                  \* somebody listens on that port of all addresses, and vice versa
    Backends      \* the backends considered

Ports == 0..Size - 1
LastPort == Size - 1

\* 127.0.0.1, an address of an interface of the host, 0.0.0.0 (or none given), an
\* address the host does not have, and one that is no IPv4 address.
Addresses == {"loopback", "lan", "any", "foreign", "ipv6"}

ForwardingRules == [host : Addresses, port : Ports, guest : Nat]

\* No candidate of the FTP backend ends exactly at the last port: the next one would be
\* port zero.  (With 9000 and 9 a candidate ends in the digit 9, and the last port in 5.)
ASSUME SharePortsAssumption ==
    /\ Size \in Nat /\ FirstPort \in Ports \ {0}
    /\ PassiveCount \in Nat \ {0} /\ PassiveCount < FirstPort
    /\ \A k \in 0..Size : FirstPort + k * (1 + PassiveCount) + PassiveCount # LastPort
    /\ EphemeralPorts \subseteq FirstPort..LastPort
    /\ OtherSockets \subseteq {"loopback", "lan", "any"} \X (1..LastPort)
    /\ WildcardExcludes \in BOOLEAN
    /\ Backends \subseteq {"ftp", "smb", "afp", "none"}

VARIABLES
    backend,
    pc,
    port,      \* i of getClosestAvailPortWithSubsequent, and its result
    seq,       \* i of checkPortAvailable
    sshPort,   \* sshMappedPort, or 0 before NewVM
    taken,     \* sockets other programs listen on
    disturbed, \* other programs have come or gone since the search began
    extraRules, \* ExtraPortForwardingRules of the configuration, empty before NewVM
    announced  \* the passive ports of the FTP server's configuration

vars == <<backend, pc, port, seq, sshPort, taken, disturbed, extraRules, announced>>

\* Mutant: ports are kept in a wider integer.
AddWide(a, b) == a + b

Add(a, b) == (a + b) % Size

\* The argument each backend passes to getNetworkSharePort.
Subsequent == IF backend = "ftp" THEN PassiveCount ELSE 0

\* How many ports checkPortAvailable looks at, the base port included.
Checked == IF Subsequent = 0 THEN 1 ELSE Subsequent

TypeOK ==
    /\ backend \in Backends
    /\ pc \in {"search", "probe", "new", "boot", "setup", "serve",
               "noPort", "refused", "bindFailed"}
    /\ port \in Ports
    /\ seq \in 0..PassiveCount
    /\ sshPort \in EphemeralPorts \cup {0}
    /\ taken \subseteq OtherSockets
    /\ disturbed \in BOOLEAN
    /\ extraRules \in Seq(ForwardingRules)
    /\ announced \subseteq Ports

\* Two listeners get in each other's way.
Clash(s, t) ==
    /\ s[2] = t[2] /\ s[2] # 0
    /\ s[1] = t[1] \/ (WildcardExcludes /\ "any" \in {s[1], t[1]})

\* net.Listen, and bind.  Port 0 stands for any port and is always there.
InUse(s) == \E t \in taken : Clash(s, t)

Compatible(sockets) == \A s, t \in sockets : s # t => ~Clash(s, t)

Init ==
    /\ backend \in Backends
    /\ pc = IF backend = "none" THEN "new" ELSE "search"
    /\ port = FirstPort
    /\ seq = 0
    /\ sshPort = 0
    /\ taken \in {sockets \in SUBSET OtherSockets : Compatible(sockets)}
    /\ disturbed = FALSE
    /\ extraRules = <<>>
    /\ announced = {}

-----------------------------------------------------------------------------
(***************************************************************************)
(* The search.                                                             *)
(***************************************************************************)

\* Mutant: the overflow of port and its successors is not looked for.
SearchUnchecked ==
    /\ pc = "search"
    /\ pc' = IF port < LastPort THEN "probe" ELSE "noPort"
    /\ seq' = 0
    /\ UNCHANGED <<backend, port, sshPort, taken, disturbed, extraRules, announced>>

\* The condition of the outer loop, and the overflow check.
Search ==
    /\ pc = "search"
    /\ pc' = IF port < LastPort /\ Add(port, Subsequent) >= port THEN "probe" ELSE "noPort"
    /\ seq' = 0
    /\ UNCHANGED <<backend, port, sshPort, taken, disturbed, extraRules, announced>>

\* What checkPortAvailable listens on.
Probed == <<"loopback", Add(port, seq)>>

ProbeFree ==
    /\ pc = "probe"
    /\ ~InUse(Probed)
    /\ seq' = seq + 1
    /\ pc' = IF seq + 1 = Checked THEN "new" ELSE "probe"
    /\ UNCHANGED <<backend, port, sshPort, taken, disturbed, extraRules, announced>>

\* Mutant: the next candidate is "subsequent" further.
ProbeInUseStays ==
    /\ pc = "probe"
    /\ InUse(Probed)
    /\ port' = Add(port, Subsequent)
    /\ pc' = "search"
    /\ UNCHANGED <<backend, seq, sshPort, taken, disturbed, extraRules, announced>>

ProbeInUse ==
    /\ pc = "probe"
    /\ InUse(Probed)
    /\ port' = Add(port, 1 + Subsequent)
    /\ pc' = "search"
    /\ UNCHANGED <<backend, seq, sshPort, taken, disturbed, extraRules, announced>>

\* net.Listen fails for another reason than EADDRINUSE: the search gives up.
ProbeFails ==
    /\ pc = "probe"
    /\ pc' = "noPort"
    /\ UNCHANGED <<backend, port, seq, sshPort, taken, disturbed, extraRules, announced>>

-----------------------------------------------------------------------------
(***************************************************************************)
(* The use of what was found.                                              *)
(***************************************************************************)

Rule(address, p, guestPort) == [host |-> address, port |-> p, guest |-> guestPort]

SSHRule == Rule("loopback", sshPort, 22)

\* The rules of NewFTPBackend: the control port and PassiveCount more.
FTPRules(listen) ==
    [i \in 1..1 + PassiveCount |->
        Rule(listen, Add(port, i - 1), IF i = 1 THEN 21 ELSE Add(port, i - 1))]

\* Mutant: SMB and AFP forward a port of their own besides the one found.
ShareRulesPlusOne(listen) ==
    CASE backend = "ftp" -> FTPRules(listen)
      [] OTHER           -> <<Rule(listen, port, 445), Rule(listen, Add(port, 1), 446)>>

ShareRules(listen) ==
    CASE backend = "ftp" -> FTPRules(listen)
      [] backend = "smb" -> <<Rule(listen, port, 445)>>
      [] OTHER           -> <<Rule(listen, port, 548)>>

\* The backend's rules with the address of --share-listen, or those of the shell's
\* --forward-ports, go into the configuration.  For SSH NewVM asks freeport, which
\* finds a free port of the loopback address and gives it back at once.
NewVM(listen, forwards) ==
    /\ pc = "new"
    /\ extraRules' = IF backend = "none" THEN forwards ELSE ShareRules(listen)
    /\ sshPort' \in {p \in EphemeralPorts : ~InUse(<<"loopback", p>>)}
    /\ pc' = "boot"
    /\ UNCHANGED <<backend, port, seq, taken, disturbed, announced>>

\* GetFreePort, another step of NewVM, or QEMU before it binds ports, gives up.
GiveUp ==
    /\ pc \in {"new", "boot"}
    /\ pc' = "refused"
    /\ UNCHANGED <<backend, port, seq, sshPort, taken, disturbed, extraRules, announced>>

\* The rule for SSH comes first.
AllRules == [i \in 0..Len(extraRules) |-> IF i = 0 THEN SSHRule ELSE extraRules[i]]

SocketOf(rule) == <<rule.host, rule.port>>

\* Nobody else listens there, and the host has the address.
Bindable(rule) == ~InUse(SocketOf(rule)) /\ rule.host \notin {"foreign", "ipv6"}

\* QEMU binds the host side of all rules, or exits.
Boot ==
    /\ pc = "boot"
    /\ pc' = IF /\ \A i \in DOMAIN AllRules : Bindable(AllRules[i])
                /\ \A i, j \in DOMAIN AllRules :
                      i # j => ~Clash(SocketOf(AllRules[i]), SocketOf(AllRules[j]))
             THEN "setup"
             ELSE "bindFailed"
    /\ UNCHANGED <<backend, port, seq, sshPort, taken, disturbed, extraRules, announced>>

\* Mutant: StartFTP is called with the control port.
StartServerAtControl ==
    /\ pc = "setup"
    /\ announced' = IF backend = "ftp" THEN port..Add(port, PassiveCount) ELSE {}
    /\ pc' = "serve"
    /\ UNCHANGED <<backend, port, seq, sshPort, taken, disturbed, extraRules>>

\* StartFTP with port + 1; SMB and AFP have no further ports.
StartServer ==
    /\ pc = "setup"
    /\ announced' = IF backend = "ftp"
                    THEN Add(port, 1)..Add(Add(port, 1), PassiveCount)
                    ELSE {}
    /\ pc' = "serve"
    /\ UNCHANGED <<backend, port, seq, sshPort, taken, disturbed, extraRules>>

Share ==
    \/ Search \/ ProbeFree \/ ProbeInUse \/ ProbeFails
    \/ \E listen \in Addresses, forwards \in Seq(ForwardingRules) : NewVM(listen, forwards)
    \/ GiveUp \/ Boot \/ StartServer

\* Another program begins or ceases to listen, as long as it matters: once QEMU has
\* bound its ports nobody else gets them.
Disturb ==
    /\ pc \in {"search", "probe", "new", "boot"}
    /\ \E s \in OtherSockets :
        /\ taken' = IF s \in taken THEN taken \ {s} ELSE taken \cup {s}
        /\ Compatible(taken')
    /\ disturbed' = TRUE
    /\ UNCHANGED <<backend, pc, port, seq, sshPort, extraRules, announced>>

Next == Share \/ Disturb

Spec == Init /\ [][Next]_vars

-----------------------------------------------------------------------------
(***************************************************************************)
(* Properties.                                                             *)
(***************************************************************************)

\* The arithmetic of the search does not wrap around: a share is never forwarded
\* from a port below the first one, whatever other programs do.
PortsAreInRange ==
    pc \in {"boot", "setup", "serve"} /\ backend # "none" =>
        \A i \in DOMAIN extraRules : extraRules[i].port >= FirstPort

\* When nobody interferes between the search and the start, QEMU can bind the ports of
\* a share, but for four things the search does not look at: an address the host does
\* not have or QEMU does not understand, a listener on an address other than 127.0.0.1,
\* the last port of an FTP share, and the port for SSH, which is chosen after it and
\* without regard to it.  The rules of --forward-ports have no search.
FoundIsBindable ==
    pc = "bindFailed" =>
        \/ disturbed
        \/ backend = "none" /\ extraRules # <<>>
        \/ \E i \in DOMAIN extraRules :
                LET rule == extraRules[i]
                IN  \/ rule.host \in {"foreign", "ipv6"}
                    \/ \E t \in taken : /\ Clash(SocketOf(rule), t)
                                        /\ ~Clash(<<"loopback", rule.port>>, t)
                    \/ Clash(SocketOf(rule), SocketOf(SSHRule))
        \/ backend = "ftp" /\ InUse(<<"loopback", Add(port, PassiveCount)>>)

\* What the FTP server announces is what is forwarded besides the control port, each
\* port to the same port of the guest, but for the last one announced: pasv_max_port
\* is one too high.
PassivePortsAgree ==
    pc = "serve" /\ backend = "ftp" =>
        /\ port \notin announced
        /\ {extraRules[i].port : i \in DOMAIN extraRules}
                = {port} \cup (announced \ {Add(port, 1 + PassiveCount)})
        /\ \A i \in DOMAIN extraRules :
                extraRules[i].port # port => extraRules[i].guest = extraRules[i].port

=============================================================================
