------------------------------- MODULE NetTap -------------------------------
(***************************************************************************)
(* The network taps of concurrent Linsk processes and the allocation files *)
(* in the data directory that record who owns them: the tap part of runVM  *)
(* (src/cmd/utils.go), the clean command, src/storage/nettap.go and        *)
(* src/nettap.                                                             *)
(*                                                                         *)
(* A process stands for its PID and for the unique name of its tap.  There *)
(* is no lock: processes see each other through files, taps and the list   *)
(* of running PIDs alone, and any of them may crash between two steps.     *)
(***************************************************************************)
EXTENDS FiniteSets

CONSTANTS
    Runners,   \* processes that start a VM with a tap
    Cleaners   \* processes that run "linsk clean"

ASSUME NetTapAssumption == Runners \cap Cleaners = {}

Processes == Runners \cup Cleaners

VARIABLES
    taps,     \* the taps that exist, named by the process that created them
    file,     \* allocation files: absent, created but still empty, or written
    foreign,  \* PIDs of ended processes that an unrelated program has now
    wiped,    \* taps whose file "linsk clean" has removed with the directory
    pc,
    todo,     \* per process: what its current loop has left to visit
    done,     \* per process: allocs while it reads, tapsRemoved while it prunes
    target    \* per process: the tap DeleteTap has found in the list

osVars == <<taps, file, foreign, wiped>>
loopVars == <<todo, done, target>>
vars == <<osVars, pc, loopVars>>

PruneSteps == {"list", "read", "pids", "prune", "delete", "release"}
RunnerSteps == {"save", "write", "create", "use", "find", "deleteOwn", "releaseOwn"}
Steps == {"off"} \cup PruneSteps \cup RunnerSteps \cup {"confirm", "ended"}

NoTap == "none"

TypeOK ==
    /\ taps \subseteq Runners
    /\ file \in [Runners -> {"absent", "empty", "pid"}]
    /\ foreign \subseteq Processes
    /\ wiped \subseteq Runners
    /\ pc \in [Processes -> Steps]
    /\ \A p \in Processes : pc[p] \in RunnerSteps => p \in Runners
    /\ todo \in [Processes -> SUBSET Runners]
    /\ done \in [Processes -> SUBSET Runners]
    /\ target \in [Processes -> Runners \cup {NoTap}]

Init ==
    /\ taps = {}
    /\ file = [r \in Runners |-> "absent"]
    /\ foreign = {}
    /\ wiped = {}
    /\ pc = [p \in Processes |-> "off"]
    /\ todo = [p \in Processes |-> {}]
    /\ done = [p \in Processes |-> {}]
    /\ target = [p \in Processes |-> NoTap]

-----------------------------------------------------------------------------

Ended(p) == pc[p] = "ended"

\* Mutant: a process counts from the creation of its tap on.
RunningPidsWithTap == {p \in Runners : pc[p] \in {"use", "find", "deleteOwn"}} \cup foreign

RunningPids == {p \in Processes : pc[p] # "off" /\ ~Ended(p)} \cup foreign

Goto(p, step) == pc' = [pc EXCEPT ![p] = step]

\* The loop of p goes over set, and starts with nothing collected.
Loop(p, set) ==
    /\ todo' = [todo EXCEPT ![p] = set]
    /\ done' = [done EXCEPT ![p] = {}]

\* The loop of p is done with t, and collects it.
Collect(p, t) ==
    /\ todo' = [todo EXCEPT ![p] = @ \ {t}]
    /\ done' = [done EXCEPT ![p] = @ \cup {t}]

\* Mutant: "clean" goes on like runVM.
AfterPruneSaves(p) == "save"

\* Where p goes when it is through with pruning, or had to give up.
AfterPrune(p) == IF p \in Runners THEN "save" ELSE "confirm"

\* The process starts; NewTapManager and NewUniqueTapName have worked.
Start(p) ==
    /\ pc[p] = "off"
    /\ Goto(p, "list")
    /\ UNCHANGED <<osVars, loopVars>>

-----------------------------------------------------------------------------
(***************************************************************************)
(* ListNetTapAllocations and PruneTaps.                                    *)
(***************************************************************************)

\* The names in the directory are read first, the files one by one after that.
ListDir(p) ==
    /\ pc[p] = "list"
    /\ Loop(p, {t \in Runners : file[t] # "absent"})
    /\ Goto(p, "read")
    /\ UNCHANGED <<osVars, target>>

\* Mutant: an empty file reads as a PID no process has.
ReadAllocTolerant(p) ==
    /\ pc[p] = "read"
    /\ \E t \in todo[p] :
           /\ file[t] # "absent"
           /\ Collect(p, t)
    /\ UNCHANGED <<osVars, pc, target>>

ReadAlloc(p) ==
    /\ pc[p] = "read"
    /\ \E t \in todo[p] :
           /\ file[t] = "pid"
           /\ Collect(p, t)
    /\ UNCHANGED <<osVars, pc, target>>

\* A directory that is gone, or a file that is gone by now or still empty, fails
\* the whole listing: runVM gives up, clean goes on without pruning.
ListFails(p) ==
    /\ \/ pc[p] = "list"
       \/ pc[p] = "read" /\ \E t \in todo[p] : file[t] # "pid"
    /\ Goto(p, IF p \in Runners THEN "ended" ELSE "confirm")
    /\ UNCHANGED <<osVars, loopVars>>

ReadAllocsDone(p) ==
    /\ pc[p] = "read"
    /\ todo[p] = {}
    /\ Goto(p, "pids")
    /\ UNCHANGED <<osVars, loopVars>>

\* process.Pids and the taps it leaves dangling.
ListPids(p) ==
    /\ pc[p] = "pids"
    /\ Loop(p, done[p] \ RunningPids)
    /\ Goto(p, "prune")
    /\ UNCHANGED <<osVars, target>>

\* DeleteTap, first half: "tapctl list".  ErrTapNotFound counts as removed.
PruneFind(p) ==
    /\ pc[p] = "prune"
    /\ \E t \in todo[p] :
           IF t \in taps
           THEN /\ target' = [target EXCEPT ![p] = t]
                /\ Goto(p, "delete")
                /\ UNCHANGED <<todo, done>>
           ELSE Collect(p, t) /\ UNCHANGED <<pc, target>>
    /\ UNCHANGED osVars

\* DeleteTap, second half: "tapctl delete".
PruneDelete(p) ==
    /\ pc[p] = "delete"
    /\ target[p] \in taps
    /\ taps' = taps \ {target[p]}
    /\ Collect(p, target[p])
    /\ target' = [target EXCEPT ![p] = NoTap]
    /\ Goto(p, "prune")
    /\ UNCHANGED <<file, foreign, wiped>>

\* Pids, "tapctl list" or "tapctl delete" fails, the last one also because somebody
\* else has deleted the tap.  runVM then forgets tapsRemoved, clean does not.
PruneFails(p) ==
    /\ pc[p] \in {"pids", "prune", "delete"}
    /\ target' = [target EXCEPT ![p] = NoTap]
    /\ IF p \in Runners
       THEN Goto(p, "save") /\ Loop(p, {})
       ELSE Goto(p, "release") /\ Loop(p, IF pc[p] = "pids" THEN {} ELSE done[p])
    /\ UNCHANGED osVars

PruneDone(p) ==
    /\ pc[p] = "prune"
    /\ todo[p] = {}
    /\ Loop(p, done[p])
    /\ Goto(p, "release")
    /\ UNCHANGED <<osVars, target>>

\* ReleaseNetTapAllocation.  A missing file is no error, and a file that cannot
\* be removed is no more than logged by the callers.
ReleaseAlloc(t) == file' \in {file, [file EXCEPT ![t] = "absent"]}

\* The release of one of the taps that pruning removed.
Release(p) ==
    /\ pc[p] = "release"
    /\ \E t \in todo[p] : ReleaseAlloc(t) /\ Collect(p, t)
    /\ UNCHANGED <<taps, foreign, wiped, pc, target>>

ReleaseDone(p) ==
    /\ pc[p] = "release"
    /\ todo[p] = {}
    /\ Loop(p, {})
    /\ Goto(p, AfterPrune(p))
    /\ UNCHANGED <<osVars, target>>

Prune(p) ==
    \/ ListDir(p) \/ ReadAlloc(p) \/ ListFails(p) \/ ReadAllocsDone(p) \/ ListPids(p)
    \/ PruneFind(p) \/ PruneDelete(p) \/ PruneFails(p) \/ PruneDone(p)
    \/ Release(p) \/ ReleaseDone(p)

-----------------------------------------------------------------------------
(***************************************************************************)
(* The rest of runVM's tap handling.                                       *)
(***************************************************************************)

\* SaveNetTapAllocation: os.WriteFile creates the file, then writes the PID.
SaveCreates(p) ==
    /\ pc[p] = "save"
    /\ file' = [file EXCEPT ![p] = "empty"]
    /\ Goto(p, "write")
    /\ UNCHANGED <<taps, foreign, wiped, loopVars>>

\* The file may have been wiped since: the PID then goes to an unlinked file.
SaveWrites(p) ==
    /\ pc[p] = "write"
    /\ file' = [file EXCEPT ![p] = IF @ = "empty" THEN "pid" ELSE @]
    /\ Goto(p, "create")
    /\ UNCHANGED <<taps, foreign, wiped, loopVars>>

\* Creating the file, or writing to it, fails.
SaveFails(p) ==
    /\ pc[p] \in {"save", "write"}
    /\ Goto(p, "ended")
    /\ UNCHANGED <<osVars, loopVars>>

CreateTap(p) ==
    /\ pc[p] = "create"
    /\ taps' = taps \cup {p}
    /\ Goto(p, "use")
    /\ UNCHANGED <<file, foreign, wiped, loopVars>>

CreateTapFails(p) ==
    /\ pc[p] = "create"
    /\ ReleaseAlloc(p)
    /\ Goto(p, "ended")
    /\ UNCHANGED <<taps, foreign, wiped, loopVars>>

\* GenerateNet or ConfigureNet fails, NewVM fails, or RunVM returns: in every case
\* the deferred function deletes the tap.
StopUsing(p) ==
    /\ pc[p] = "use"
    /\ Goto(p, "find")
    /\ UNCHANGED <<osVars, loopVars>>

FindOwn(p) ==
    /\ pc[p] = "find"
    /\ p \in taps
    /\ Goto(p, "deleteOwn")
    /\ UNCHANGED <<osVars, loopVars>>

DeleteOwn(p) ==
    /\ pc[p] = "deleteOwn"
    /\ p \in taps
    /\ taps' = taps \ {p}
    /\ Goto(p, "releaseOwn")
    /\ UNCHANGED <<file, foreign, wiped, loopVars>>

\* Mutant: the allocation is released even if the tap could not be deleted.
DeleteOwnFailsReleases(p) ==
    /\ pc[p] \in {"find", "deleteOwn"}
    /\ Goto(p, "releaseOwn")
    /\ UNCHANGED <<osVars, loopVars>>

\* A tap that was not found, or not deleted, keeps its file.
DeleteOwnFails(p) ==
    /\ pc[p] \in {"find", "deleteOwn"}
    /\ Goto(p, "ended")
    /\ UNCHANGED <<osVars, loopVars>>

ReleaseOwn(p) ==
    /\ pc[p] = "releaseOwn"
    /\ ReleaseAlloc(p)
    /\ Goto(p, "ended")
    /\ UNCHANGED <<taps, foreign, wiped, loopVars>>

UseTap(p) ==
    \/ SaveCreates(p) \/ SaveWrites(p) \/ SaveFails(p) \/ CreateTap(p) \/ CreateTapFails(p)
    \/ StopUsing(p) \/ FindOwn(p) \/ DeleteOwn(p) \/ DeleteOwnFails(p) \/ ReleaseOwn(p)

-----------------------------------------------------------------------------

\* clean, confirmed: the data directory goes, or what of it can be removed,
\* whoever is running.
RemoveAll(p) ==
    /\ pc[p] = "confirm"
    /\ \E gone \in SUBSET {r \in Runners : file[r] # "absent"} :
           /\ wiped' = wiped \cup gone
           /\ file' = [r \in Runners |-> IF r \in gone THEN "absent" ELSE file[r]]
    /\ Goto(p, "ended")
    /\ UNCHANGED <<taps, foreign, loopVars>>

\* clean, answered with anything but "y".
Abort(p) ==
    /\ pc[p] = "confirm"
    /\ Goto(p, "ended")
    /\ UNCHANGED <<osVars, loopVars>>

Clean(p) == RemoveAll(p) \/ Abort(p)

\* A crash, a panic or a kill: no deferred function runs.
Crash(p) ==
    /\ pc[p] # "off" /\ ~Ended(p)
    /\ Goto(p, "ended")
    /\ UNCHANGED <<osVars, loopVars>>

\* The PID of an ended process is given to an unrelated program, and freed again.
PidReused(p) ==
    /\ Ended(p)
    /\ foreign' = IF p \in foreign THEN foreign \ {p} ELSE foreign \cup {p}
    /\ UNCHANGED <<taps, file, wiped, pc, loopVars>>

Next ==
    \E p \in Processes :
        \/ Start(p)
        \/ Prune(p)
        \/ p \in Runners /\ UseTap(p)
        \/ p \in Cleaners /\ Clean(p)
        \/ Crash(p)
        \/ PidReused(p)

Spec == Init /\ [][Next]_vars

-----------------------------------------------------------------------------
(***************************************************************************)
(* Properties.                                                             *)
(***************************************************************************)

\* Every tap has an allocation file with its owner's PID, so that a later run can
\* find it after a crash, unless "linsk clean" removed the whole directory.
TapsAreRecorded ==
    \A t \in taps : file[t] = "pid" \/ t \in wiped

\* No process prunes the tap of another one that is using it.
UsedTapsSurvive ==
    \A p \in Runners : pc[p] \in {"use", "find", "deleteOwn"} => p \in taps

\* Pruning never touches the file of a live process: what a process has in its
\* hands to delete or to release belongs to processes that have ended.
OnlyDanglingIsPruned ==
    \A p \in Processes :
        pc[p] \in {"prune", "delete", "release"} => \A t \in todo[p] : Ended(t)

\* A tap disappears through its owner, or after its owner has ended.
TapsEndWithOwners ==
    [][\A t \in taps \ taps' : pc[t] = "deleteOwn" \/ Ended(t)]_vars

-----------------------------------------------------------------------------
(***************************************************************************)
(* Processes, files and taps implement the registry.                       *)
(***************************************************************************)

registryRecord ==
    [t \in Runners |->
        IF t \in wiped THEN "lost"
        ELSE IF file[t] = "absent" THEN "none"
        ELSE IF file[t] = "empty" THEN "begun"
        ELSE "kept"]

registryOwner ==
    [t \in Runners |->
        IF Ended(t) THEN "ended"
        ELSE IF pc[t] = "use" THEN "using"
        ELSE IF pc[t] \in {"find", "deleteOwn", "releaseOwn"} THEN "leaving"
        ELSE "preparing"]

Registry == INSTANCE TapRegistry WITH
    Taps <- Runners,
    record <- registryRecord,
    owner <- registryOwner,
    up <- taps

\* What processes that share no lock do to files and taps, with crashes between any two
\* steps, keeps the promises of the registry; in particular nobody prunes on the word of
\* a file that is not written yet, and only clean ends the file of an owner that crashed
\* while it wrote.
ImplementsRegistry == Registry!Spec

=============================================================================
