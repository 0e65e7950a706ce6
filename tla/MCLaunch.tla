------------------------------ MODULE MCLaunch ------------------------------
(***************************************************************************)
(* The command lines module Launch is checked with: a plain request of     *)
(* every command, and requests that differ from it in what one part of the *)
(* code looks at.                                                          *)
(***************************************************************************)
EXTENDS Launch

Path(name, chars) == [name |-> name, chars |-> chars]

Plain ==
    [command |-> "run", windows |-> FALSE, root |-> TRUE,
     image |-> Path("image", {}), tap |-> FALSE, unrestricted |-> FALSE,
     passthrough |-> "dev", device |-> Path("device", {}), validDevice |-> TRUE,
     blockSize |-> 4096, mounted |-> FALSE, usbID |-> 1,
     memory |-> 1024, luks |-> FALSE, allowLowMemory |-> FALSE,
     osUpTimeout |-> 1, sshUpTimeout |-> 2, listen |-> "loopback", forwards |-> <<>>]

Fwd(address, p, guestPort) == [host |-> address, port |-> p, guest |-> guestPort]

\* Sockets of other programs: the ports the search looks at, and some of other addresses.
SomeSockets == {<<"loopback", p>> : p \in 8..11} \cup {<<"lan", 9>>, <<"any", 9>>}

SomeRequests ==
    {[Plain EXCEPT !.command = c] : c \in {"run", "ls", "shell"}}
    \cup {[Plain EXCEPT !.command = "build", !.passthrough = "none", !.root = FALSE]}
    \cup {[Plain EXCEPT !.command = c, !.tap = TRUE] : c \in {"run", "shell"}}
    \cup {[Plain EXCEPT !.image = Path("image", {c})] : c \in {"comma", "equals", "blank"}}
    \cup {[Plain EXCEPT !.image = Path("image", {"backslash"}), !.windows = w] : w \in BOOLEAN}
    \cup {[Plain EXCEPT !.device = Path("device", {"comma"})],
          [Plain EXCEPT !.device = Path("device", {"backslash"}), !.windows = TRUE]}
    \cup {[Plain EXCEPT !.passthrough = p] : p \in {"none", "dev_faulty_bs"}}
    \cup {[Plain EXCEPT !.blockSize = b] : b \in {0, 511, 1536, 131072}}
    \cup {[Plain EXCEPT !.passthrough = "usb", !.usbID = IDSize + 1,
                         !.luks = TRUE, !.allowLowMemory = TRUE],
          [Plain EXCEPT !.root = FALSE], [Plain EXCEPT !.validDevice = FALSE],
          [Plain EXCEPT !.mounted = TRUE], [Plain EXCEPT !.osUpTimeout = 3],
          [Plain EXCEPT !.sshUpTimeout = 0], [Plain EXCEPT !.osUpTimeout = 0],
          [Plain EXCEPT !.unrestricted = TRUE, !.luks = TRUE],
          [Plain EXCEPT !.command = "ls", !.unrestricted = TRUE, !.luks = TRUE]}
    \cup {[Plain EXCEPT !.listen = a] : a \in {"lan", "any", "foreign", "ipv6"}}
    \cup {[Plain EXCEPT !.command = "shell", !.forwards = f] :
            f \in {<<Fwd("any", 8, 80)>>, <<Fwd("any", 9, 80), Fwd("lan", 9, 81)>>,
                   <<Fwd("loopback", 0, 80), Fwd("loopback", 0, 80)>>,
                   <<Fwd("lan", 8, 0)>>}}

=============================================================================
