------------------------------- MODULE Launch -------------------------------
(***************************************************************************)
(* The start of a command's virtual machine: the ports found by module     *)
(* SharePorts meet the configuration of module QemuConfig when NewVM       *)
(* builds the QEMU arguments, and QEMU builds the machine from those.      *)
(***************************************************************************)
EXTENDS SharePorts, QemuConfig

CONSTANT Requests  \* the command lines considered, with the host they meet

ASSUME LaunchAssumption ==
    /\ Requests \subseteq CommandLines
    /\ \A r \in Requests : r.listen \in Addresses /\ r.forwards \in Seq(ForwardingRules)

VARIABLES
    request,  \* of this run, NoRequest before NewVM
    machine   \* what QEMU runs, NoMachine when it does not

launchVars == <<vars, request, machine>>

NoRequest == [command |-> "none"]
NoMachine == [disks |-> {}]

LaunchTypeOK ==
    /\ TypeOK
    /\ request \in Requests \cup {NoRequest}
    /\ machine.disks # {} => pc \in {"setup", "serve"}

LaunchInit == Init /\ request = NoRequest /\ machine = NoMachine

\* The rules as configureVMCmdNetworking passes them on.
ForwardedRules == {AllRules[i] : i \in DOMAIN AllRules}

\* The backend goes with the command: "run" alone has a share, and its SMB share on a
\* tap has no rules.  Taps are also the shell's option.
Matches(r) ==
    CASE backend # "none"    -> r.command = "run" /\ ~r.tap
      [] r.command = "run"   -> r.tap
      [] OTHER               -> r.tap => r.command = "shell"

Configure ==
    /\ \E r \in Requests :
        /\ Matches(r) /\ ~Refused(r)
        /\ NewVM(r.listen, r.forwards)
        /\ request' = r
    /\ UNCHANGED machine

\* There is no free port for SSH, or the request is refused.
ConfigureFails ==
    /\ pc = "new"
    /\ GiveUp
    /\ \/ \A p \in EphemeralPorts : InUse(<<"loopback", p>>)
       \/ \E r \in Requests : Matches(r) /\ Refused(r)
    /\ UNCHANGED <<request, machine>>

\* QEMU does not understand its arguments.
QemuRefuses ==
    /\ pc = "boot"
    /\ QemuRejects(Args(Config(request, ForwardedRules)))
    /\ GiveUp
    /\ UNCHANGED <<request, machine>>

QemuStarts ==
    LET args == Args(Config(request, ForwardedRules))
    IN  /\ Boot
        /\ ~QemuRejects(args)
        /\ machine' = IF pc' = "setup" THEN Machine(args) ELSE NoMachine
        /\ UNCHANGED request

SearchAndServe ==
    /\ Search \/ ProbeFree \/ ProbeInUse \/ ProbeFails \/ StartServer
    /\ UNCHANGED <<request, machine>>

Start == SearchAndServe \/ Configure \/ ConfigureFails \/ QemuRefuses \/ QemuStarts

LaunchNext == Start \/ (Disturb /\ UNCHANGED <<request, machine>>)

LaunchSpec == LaunchInit /\ [][LaunchNext]_launchVars

\* One sequential program; other programs owe nothing.
FairLaunchSpec == LaunchSpec /\ WF_launchVars(Start)

-----------------------------------------------------------------------------
(***************************************************************************)
(* Properties.                                                             *)
(***************************************************************************)

\* The VM image, which only the build may change, and the device asked for.
ImageDisk(r) ==
    [file |-> r.image.name, format |-> "qcow2", snapshot |-> r.command # "build",
     boots |-> r.command # "build", blockSize |-> DefaultBlockSize]

DeviceDisk(r) ==
    [file |-> r.device.name, format |-> "raw", snapshot |-> FALSE, boots |-> FALSE,
     blockSize |-> IF r.passthrough = "dev" THEN r.blockSize ELSE DefaultBlockSize]

\* What the command line says reaches the machine, whatever characters its paths have:
\* the image is opened in snapshot mode unless it is built, the device has the block
\* size of the host, the network is closed unless asked for, the forwarded ports are
\* the one for SSH and those found for the share or given to the shell, and a LUKS
\* device gets the memory it needs.  Two things the code gets wrong are left out: a USB
\* id of more than 16 bits, which is cut to another one, and "ls" with the flag
\* --vm-unrestricted-networking, which it ignores.
MachineIsConfigured ==
    LET r == request
        hasDevice == r.passthrough \in {"dev", "dev_faulty_bs"}
        hasUSB == r.passthrough = "usb"
    IN  pc \in {"setup", "serve"} =>
            /\ machine.disks = {ImageDisk(r)} \cup IF hasDevice THEN {DeviceDisk(r)} ELSE {}
            /\ r.usbID < IDSize => machine.usb = IF hasUSB THEN {r.usbID} ELSE {}
            /\ machine.bootCdrom <=> r.command = "build"
            /\ machine.forwards
                    = {SSHRule} \cup {extraRules[i] : i \in DOMAIN extraRules}
            /\ extraRules = IF backend = "none" THEN r.forwards ELSE ShareRules(r.listen)
            /\ ~(r.command = "ls" /\ r.unrestricted) =>
                    (machine.restricted <=> r.command \in {"run", "ls"} /\ ~r.unrestricted)
            /\ "tap" \in machine.networks <=> r.tap
            /\ (r.luks /\ ~r.allowLowMemory) => \A m \in machine.memory : m >= LUKSMemory

\* The start comes to an end, and the share is served or the command fails, even while
\* other programs come and go.
LaunchEnds ==
    <>(pc \in {"serve", "noPort", "refused", "bindFailed"})

=============================================================================
