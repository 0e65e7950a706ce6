----------------------------- MODULE QemuConfig -----------------------------
(***************************************************************************)
(* From a command line to the virtual machine QEMU builds: the passthrough *)
(* argument (src/cmd/utils.go), the checks of NewVM (src/vm/vm.go), the    *)
(* QEMU arguments (src/vm/cfg.go, src/qemucli), and what QEMU makes of     *)
(* them.  All of it are operators; module Launch takes them as one step.   *)
(*                                                                         *)
(* A path is a name and the set of its special characters; an argument is  *)
(* a record with one field per key, and Unset where the key is left out.   *)
(***************************************************************************)
EXTENDS Naturals, Sequences

Unset == 0

MaxBlockSize == 65536
DefaultBlockSize == 512
LUKSMemory == 2048  \* defaultMemAllocLUKS
IDSize == 2 ^ 16    \* of a USB vendor or product

-----------------------------------------------------------------------------
(***************************************************************************)
(* The request and its vm.Config.                                          *)
(***************************************************************************)

Paths == [name : STRING, chars : SUBSET {"comma", "backslash", "equals", "blank"}]

\* The flags and arguments of the commands, and the host they meet.  The LUKS flags are
\* those of run and ls, --forward-ports is the shell's, and build passes nothing through.
CommandLines ==
    {r \in [command : {"run", "ls", "shell", "build"}, windows : BOOLEAN, root : BOOLEAN,
            image : Paths, tap : BOOLEAN, unrestricted : BOOLEAN,
            passthrough : {"none", "dev", "dev_faulty_bs", "usb"}, device : Paths,
            validDevice : BOOLEAN, blockSize : Nat, mounted : BOOLEAN, usbID : Nat,
            memory : Nat, luks : BOOLEAN, allowLowMemory : BOOLEAN,
            osUpTimeout : Nat, sshUpTimeout : Nat, listen : STRING,
            forwards : Seq([host : STRING, port : Nat, guest : Nat])] :
        /\ r.luks => r.command \in {"run", "ls"}
        /\ r.command # "shell" => r.forwards = <<>>
        /\ r.command = "build" => r.passthrough = "none"}

\* configureVMRuntimeFlags.
MemoryAlloc(r) ==
    IF r.luks /\ ~r.allowLowMemory /\ r.memory < LUKSMemory THEN LUKSMemory ELSE r.memory

\* getDevicePassthroughConfig.
PassthroughFails(r) ==
    /\ r.passthrough # "none"
    /\ ~r.root \/ (r.passthrough # "usb" /\ ~r.validDevice)

USB(r) == IF r.passthrough = "usb" THEN {r.usbID % IDSize} ELSE {}

Block(r) ==
    CASE r.passthrough = "dev" -> {[path |-> r.device, blockSize |-> r.blockSize]}
      [] r.passthrough = "dev_faulty_bs" -> {[path |-> r.device, blockSize |-> DefaultBlockSize]}
      [] OTHER -> {}

\* The configuration of runVM, and that of the image builder.
Config(r, rules) ==
    [windows     |-> r.windows,
     cdrom       |-> r.command = "build",
     drive       |-> [path |-> r.image, snapshot |-> r.command # "build"],
     memory      |-> IF r.command = "build" THEN 512 ELSE MemoryAlloc(r),
     usb         |-> USB(r),
     block       |-> Block(r),
     forwards    |-> rules,
     unrestricted |-> r.command \in {"build", "shell"} \/ (r.command = "run" /\ r.unrestricted),
     tap         |-> r.tap,
     osUpTimeout |-> IF r.command = "build" THEN 0 ELSE r.osUpTimeout,
     sshUpTimeout |-> IF r.command = "build" THEN 0 ELSE r.sshUpTimeout,
     installBase |-> r.command = "build"]

-----------------------------------------------------------------------------
(***************************************************************************)
(* The arguments.                                                          *)
(***************************************************************************)

CleanQEMUPath(c, path) ==
    IF c.windows THEN [path EXCEPT !.chars = @ \ {"backslash"}] ELSE path

\* Mutant: commas are let through, as the names of files may hold them.
ValidArgStrValueComma(path) == path.chars \cap {"backslash", "equals"} = {}

ValidArgStrValue(path) == path.chars \cap {"comma", "backslash", "equals"} = {}

UserNetwork(c) ==
    {[arg |-> "netdev", type |-> "user", id |-> "net0",
      restrict |-> ~c.unrestricted, hostfwd |-> c.forwards],
     [arg |-> "device", driver |-> "virtio-net", netdev |-> "net0"]}

TapNetwork(c) ==
    IF c.tap
    THEN {[arg |-> "netdev", type |-> "tap", id |-> "net1"],
          [arg |-> "device", driver |-> "virtio-net", netdev |-> "net1"]}
    ELSE {}

\* configureVMCmdDrives for the one drive of every configuration.  The IDs, made from
\* the clock after a pause, are taken to be different.
Drives(c) ==
    {[arg |-> "drive", id |-> "drive0", file |-> CleanQEMUPath(c, c.drive.path),
      format |-> "qcow2", snapshot |-> c.drive.snapshot],
     [arg |-> "device", driver |-> "virtio-blk-pci", drive |-> "drive0",
      bootindex |-> ~c.cdrom, blockSize |-> Unset]}

USBPassthrough(c) ==
    {[arg |-> "device", driver |-> "usb-host", usb |-> id] : id \in c.usb}

BlockPassthrough(c) ==
    UNION {{[arg |-> "device", driver |-> "virtio-blk-pci", drive |-> "drive1",
             bootindex |-> FALSE, blockSize |-> d.blockSize],
            [arg |-> "drive", id |-> "drive1", file |-> CleanQEMUPath(c, d.path),
             format |-> "raw", snapshot |-> FALSE]} : d \in c.block}

\* The arguments of configureBaseVMCmd that differ between configurations.
BaseArgs(c) ==
    {[arg |-> "m", value |-> c.memory]}
        \cup IF c.cdrom THEN {[arg |-> "cdrom"], [arg |-> "boot", order |-> "d"]} ELSE {}

Args(c) ==
    BaseArgs(c) \cup UserNetwork(c) \cup TapNetwork(c) \cup Drives(c)
        \cup USBPassthrough(c) \cup BlockPassthrough(c)

Files(args) == {a.file : a \in {b \in args : b.arg = "drive"}}

ValidBlockSize(n) == n # 0 /\ n <= MaxBlockSize /\ (n \div 512) * 512 = n

\* NewVM has a timeout of its own where the configuration has none.
OrDefault(timeout, default) == IF timeout # 0 THEN timeout ELSE default

\* What makes getDevicePassthroughConfig or NewVM return an error.
Refused(r) ==
    LET c == Config(r, {})
    IN  \/ PassthroughFails(r)
        \/ \E d \in c.block : r.mounted \/ ~ValidBlockSize(d.blockSize)
        \/ \E file \in Files(Args(c)) : ~ValidArgStrValue(file)
        \/ c.installBase /\ ~c.unrestricted
        \/ OrDefault(c.sshUpTimeout, 120) < OrDefault(c.osUpTimeout, 60)

-----------------------------------------------------------------------------
(***************************************************************************)
(* QEMU.                                                                   *)
(***************************************************************************)

\* EncodeArg quotes an argument with a blank for a shell, but no shell unquotes it; a
\* rule has an IPv4 address and a port of the guest; and a block size is a power of two.
QemuRejects(args) ==
    \/ \E file \in Files(args) : "blank" \in file.chars
    \/ \E a \in args : "hostfwd" \in DOMAIN a
                      /\ \E rule \in a.hostfwd : rule.host = "ipv6" \/ rule.guest = 0
    \/ \E a \in args :
        /\ "blockSize" \in DOMAIN a /\ a.blockSize # Unset
        /\ \A k \in 9..16 : a.blockSize # 2 ^ k

\* A comma ends the value of a key.
FileOpened(path) == IF "comma" \in path.chars THEN "another_file" ELSE path.name

Of(args, kind) == {a \in args : a.arg = kind}
Having(args, key) == {a \in Of(args, "device") : key \in DOMAIN a}

\* The machine: a disk for every drive some device names.
Machine(args) ==
    [memory |-> {a.value : a \in Of(args, "m")},
     bootCdrom |-> Of(args, "boot") # {},
     disks |-> {[file      |-> FileOpened(p[1].file),
                 format    |-> p[1].format,
                 snapshot  |-> p[1].snapshot,
                 boots     |-> p[2].bootindex,
                 blockSize |-> IF p[2].blockSize = Unset THEN DefaultBlockSize
                                                         ELSE p[2].blockSize]
                : p \in {q \in Of(args, "drive") \X Having(args, "drive") : q[1].id = q[2].drive}},
     usb |-> {a.usb : a \in Having(args, "usb")},
     networks |-> {a.type : a \in Of(args, "netdev")},
     forwards |-> UNION {a.hostfwd : a \in {b \in Of(args, "netdev") : b.type = "user"}},
     restricted |-> \A a \in Of(args, "netdev") : a.type = "user" => a.restrict]

=============================================================================
