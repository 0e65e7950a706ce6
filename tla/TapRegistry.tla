---------------------------- MODULE TapRegistry ----------------------------
(***************************************************************************)
(* What the allocation files promise of network taps, without processes,   *)
(* PIDs, listings or loops: a tap is made only when its record is kept or  *)
(* was wiped with the directory, nobody but its owner takes it away before *)
(* the owner has ended, and a record goes only when there is no tap.  A    *)
(* record whose owner ended before it was written is ended by clean alone. *)
(***************************************************************************)

CONSTANT Taps

VARIABLES
    record,  \* per tap: "none", "begun", "kept", or "lost" with the directory
    owner,   \* per tap: "preparing", "using", "leaving" or "ended"
    up       \* the taps that exist

vars == <<record, owner, up>>

Init ==
    /\ record = [t \in Taps |-> "none"]
    /\ owner = [t \in Taps |-> "preparing"]
    /\ up = {}

\* A record is begun, and finished, while its owner prepares.
Begin(t) ==
    /\ owner[t] = "preparing" /\ record[t] = "none"
    /\ record' = [record EXCEPT ![t] = "begun"]
    /\ UNCHANGED <<owner, up>>

Finish(t) ==
    /\ owner[t] = "preparing" /\ record[t] = "begun"
    /\ record' = [record EXCEPT ![t] = "kept"]
    /\ UNCHANGED <<owner, up>>

Create(t) ==
    /\ owner[t] = "preparing" /\ record[t] \in {"kept", "lost"}
    /\ owner' = [owner EXCEPT ![t] = "using"]
    /\ up' = up \cup {t}
    /\ UNCHANGED record

Leave(t) ==
    /\ owner[t] = "using"
    /\ owner' = [owner EXCEPT ![t] = "leaving"]
    /\ UNCHANGED <<record, up>>

\* The owner takes its tap away, or anybody does once the owner has ended.
Delete(t) ==
    /\ t \in up /\ owner[t] \in {"leaving", "ended"}
    /\ up' = up \ {t}
    /\ UNCHANGED <<record, owner>>

\* A record that can be given up: it is written, and its tap is not there.
Vacant(t) == record[t] = "kept" /\ t \notin up

\* The owner ends, and may give up its record with that.
End(t) ==
    /\ owner[t] # "ended"
    /\ owner' = [owner EXCEPT ![t] = "ended"]
    /\ \/ UNCHANGED record
       \/ Vacant(t) /\ record' = [record EXCEPT ![t] = "none"]
    /\ UNCHANGED up

\* Somebody else gives up the record of an owner that has ended.
Free(t) ==
    /\ owner[t] = "ended" /\ Vacant(t)
    /\ record' = [record EXCEPT ![t] = "none"]
    /\ UNCHANGED <<owner, up>>

\* The directory goes, with whatever records are in it.
Wipe ==
    /\ \E gone \in SUBSET {t \in Taps : record[t] \in {"begun", "kept"}} :
           record' = [t \in Taps |-> IF t \in gone THEN "lost" ELSE record[t]]
    /\ UNCHANGED <<owner, up>>

Next ==
    \/ \E t \in Taps :
          Begin(t) \/ Finish(t) \/ Create(t) \/ Leave(t) \/ Delete(t) \/ End(t) \/ Free(t)
    \/ Wipe

Spec == Init /\ [][Next]_vars

=============================================================================
