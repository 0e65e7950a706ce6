--------------------------- MODULE ShareContract ---------------------------
(***************************************************************************)
(* What a command line of Linsk promises about the guest, without          *)
(* connections, sessions, timeouts or a plan: which effects it asks for,   *)
(* which of them need which others, and that a share or a list is          *)
(* announced when all of them are there.  An effect that was begun may     *)
(* come after the program has given up.                                    *)
(***************************************************************************)

CONSTANT Configs  \* the command lines

VARIABLES
    config,  \* one of them
    done,    \* the effects in the guest
    outcome  \* of the program: "none" yet, "done" or "failed"

vars == <<config, done, outcome>>

If(condition, effects) == IF condition THEN effects ELSE {}

Asked(cf) ==
    {"vgchange"}
        \cup If(cf.tap, {"ifconfig"})
        \cup If(cf.preopen, {"luksContainer", "containerVolumes"})
        \cup If(cf.luks, {"luksDevice"})
        \cup If(cf.command = "run", {"mount", "copyConfig", "rcService", "changePass"})
        \cup If(cf.command = "ls", {"lsblk"})

\* A container, a device and a list are looked for among the volumes there are; a server
\* starts with its configuration, on the address of the guest, and serves what is mounted.
Needs(e) ==
    CASE e = "luksContainer"    -> {"vgchange"}
      [] e = "containerVolumes" -> {"luksContainer"}
      [] e = "luksDevice"       -> {"vgchange", "containerVolumes"}
      [] e = "mount"            -> {"vgchange", "containerVolumes", "luksDevice"}
      [] e = "rcService"        -> {"mount", "copyConfig", "ifconfig"}
      [] e = "lsblk"            -> {"vgchange", "containerVolumes"}
      [] OTHER                  -> {}

Init ==
    /\ config \in Configs
    /\ done = {}
    /\ outcome = "none"

TakeEffect ==
    /\ \E e \in Asked(config) :
        /\ Needs(e) \cap Asked(config) \subseteq done
        /\ done' = done \cup {e}
    /\ UNCHANGED <<config, outcome>>

Announce ==
    /\ outcome = "none"
    /\ done = Asked(config) /\ config.rejected = ""
    /\ outcome' = "done"
    /\ UNCHANGED <<config, done>>

Fail ==
    /\ outcome = "none"
    /\ outcome' = "failed"
    /\ UNCHANGED <<config, done>>

Next == TakeEffect \/ Announce \/ Fail

Spec == Init /\ [][Next]_vars

=============================================================================
