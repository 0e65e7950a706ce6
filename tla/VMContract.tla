----------------------------- MODULE VMContract -----------------------------
(***************************************************************************)
(* What a user of vm.VM relies on, without goroutines, pipes, SSH or       *)
(* mutexes: one process that is started once, dies once, and is reaped     *)
(* before Run returns; readiness that is announced once and only for a     *)
(* process that was started; and an outcome that is an error unless        *)
(* somebody asked for the end.                                             *)
(***************************************************************************)

VARIABLES
    process,    \* "absent", "up", "zombie" or "reaped"
    stopAsked,  \* somebody other than Run itself asked for the end
    ready,      \* the guest was announced as usable
    outcome     \* what Run returned: "none" yet, "success" or "error"

vars == <<process, stopAsked, ready, outcome>>

Init ==
    /\ process = "absent"
    /\ stopAsked = FALSE
    /\ ready = FALSE
    /\ outcome = "none"

Start ==
    /\ process = "absent" /\ outcome = "none"
    /\ process' = "up"
    /\ UNCHANGED <<stopAsked, ready, outcome>>

StartFails ==
    /\ process = "absent" /\ outcome = "none"
    /\ outcome' = "error"
    /\ UNCHANGED <<process, stopAsked, ready>>

\* Asking is always possible: before the start and after the end too.
AskStop ==
    /\ stopAsked' = TRUE
    /\ UNCHANGED <<process, ready, outcome>>

AnnounceReady ==
    /\ process # "absent" /\ ~ready
    /\ ready' = TRUE
    /\ UNCHANGED <<process, stopAsked, outcome>>

Die ==
    /\ process = "up"
    /\ process' = "zombie"
    /\ UNCHANGED <<stopAsked, ready, outcome>>

Reap ==
    /\ process = "zombie"
    /\ process' = "reaped"
    /\ UNCHANGED <<stopAsked, ready, outcome>>

Succeed ==
    /\ process = "reaped" /\ outcome = "none"
    /\ stopAsked
    /\ outcome' = "success"
    /\ UNCHANGED <<process, stopAsked, ready>>

Fail ==
    /\ process = "reaped" /\ outcome = "none"
    /\ outcome' = "error"
    /\ UNCHANGED <<process, stopAsked, ready>>

Next ==
    Start \/ StartFails \/ AskStop \/ AnnounceReady \/ Die \/ Reap \/ Succeed \/ Fail

Spec == Init /\ [][Next]_vars

=============================================================================
