---------------------------- MODULE NetTap_proofs ----------------------------
(***************************************************************************)
(* Theorems about module NetTap, for every number of runners and cleaners, *)
(* with crashes, failing commands and reuse of PIDs.                       *)
(***************************************************************************)
EXTENDS NetTap, TLAPS

-----------------------------------------------------------------------------
(***************************************************************************)
(* Type correctness.                                                       *)
(***************************************************************************)

\* The pruning loops keep every variable in its type.
LEMMA PruneTyped ==
    ASSUME TypeOK, NEW p \in Processes, Prune(p)
    PROVE  TypeOK'
  <1> USE DEF TypeOK, Goto, Loop, Collect, Steps, PruneSteps, RunnerSteps, osVars, loopVars
  <1>1. CASE ListDir(p) \/ ReadAlloc(p) \/ ListFails(p) \/ ReadAllocsDone(p) \/ ListPids(p)
    BY <1>1 DEF ListDir, ReadAlloc, ListFails, ReadAllocsDone, ListPids
  <1>2. CASE PruneFind(p) \/ PruneDelete(p)
    BY <1>2 DEF PruneFind, PruneDelete
  <1>3. CASE PruneFails(p) \/ PruneDone(p)
    BY <1>3 DEF PruneFails, PruneDone, NoTap
  <1>4. CASE Release(p)
    BY <1>4 DEF Release, ReleaseAlloc
  <1>5. CASE ReleaseDone(p)
    BY <1>5 DEF ReleaseDone, AfterPrune
  <1> QED
    BY <1>1, <1>2, <1>3, <1>4, <1>5 DEF Prune

\* So does whatever else a process, or the system, does.
LEMMA OthersTyped ==
    ASSUME TypeOK, NEW p \in Processes,
           \/ Start(p) \/ (p \in Runners /\ UseTap(p)) \/ Clean(p) \/ Crash(p) \/ PidReused(p)
    PROVE  TypeOK'
  <1> USE DEF TypeOK, Goto, Steps, PruneSteps, RunnerSteps, osVars, loopVars
  <1>1. CASE Start(p) \/ Crash(p) \/ PidReused(p)
    BY <1>1 DEF Start, Crash, PidReused
  <1>2. CASE p \in Runners /\ UseTap(p)
    BY <1>2 DEF UseTap, SaveCreates, SaveWrites, SaveFails, CreateTap, CreateTapFails, StopUsing,
                FindOwn, DeleteOwn, DeleteOwnFails, ReleaseOwn, ReleaseAlloc
  <1>3. CASE Clean(p)
    BY <1>3 DEF Clean, RemoveAll, Abort
  <1> QED
    BY <1>1, <1>2, <1>3

\* Every file, list and loop variable stays in its type.
THEOREM TypeCorrect == Spec => []TypeOK
  <1>1. Init => TypeOK
    BY DEF Init, TypeOK, Steps, RunnerSteps, NoTap
  <1>2. TypeOK /\ [Next]_vars => TypeOK'
    <2> SUFFICES ASSUME TypeOK, [Next]_vars
                 PROVE  TypeOK'
      OBVIOUS
    <2>1. CASE Next
      BY <2>1, PruneTyped, OthersTyped DEF Next
    <2>2. CASE UNCHANGED vars
      BY <2>2 DEF vars, osVars, loopVars, TypeOK
    <2> QED
      BY <2>1, <2>2
  <1> QED
    BY <1>1, <1>2, PTL DEF Spec

-----------------------------------------------------------------------------
(***************************************************************************)
(* The inductive invariant.                                                *)
(***************************************************************************)

\* Owners: the file is written before the tap is created and removed after it.
OwnerInv ==
    /\ \A r \in Runners : pc[r] = "off" => file[r] = "absent"
    /\ \A r \in Runners : pc[r] = "write" => file[r] = "empty" \/ r \in wiped
    /\ \A r \in Runners : pc[r] = "create" => file[r] = "pid" \/ r \in wiped
    /\ \A r \in Runners : pc[r] \in {"use", "find", "deleteOwn"} => r \in taps
    /\ \A r \in taps : pc[r] \in {"use", "find", "deleteOwn", "ended"}
    /\ \A r \in taps : file[r] = "pid" \/ r \in wiped

\* Pruners: what was read belongs to processes that had started, what is going to
\* be deleted to ended ones, and what is going to be released has no tap.
PrunerInv ==
    \A p \in Processes :
        /\ pc[p] \in {"read", "pids"} => \A t \in done[p] : pc[t] # "off"
        /\ pc[p] \in {"prune", "delete"} =>
               /\ \A t \in todo[p] \cup done[p] : Ended(t)
               /\ done[p] \cap taps = {}
        /\ pc[p] = "delete" => target[p] \in todo[p]
        /\ pc[p] = "release" =>
               /\ \A t \in todo[p] : Ended(t)
               /\ todo[p] \cap taps = {}

\* Records: a file is there from the save on, is empty only while its owner writes it
\* or when it ended with that, and is pruned only when it was read with a PID.
RecordInv ==
    /\ \A r \in Runners :
          /\ file[r] # "absent" \/ r \in wiped => pc[r] \in (RunnerSteps \ {"save"}) \cup {"ended"}
          /\ file[r] = "empty" => pc[r] \in {"write", "ended"}
          /\ r \in wiped => file[r] = "absent"
    /\ \A p \in Processes :
          /\ pc[p] \in {"read", "pids"} =>
                \A t \in done[p] : /\ file[t] # "empty"
                                   /\ pc[t] \in (RunnerSteps \ {"save", "write"}) \cup {"ended"}
          /\ pc[p] \in {"prune", "delete"} => \A t \in todo[p] \cup done[p] : file[t] # "empty"
          /\ pc[p] = "release" => \A t \in todo[p] : file[t] # "empty"

IInv == TypeOK /\ OwnerInv /\ PrunerInv /\ RecordInv

-----------------------------------------------------------------------------

\* Pruning deletes and releases only what ended processes have left.
LEMMA PruneInv ==
    ASSUME IInv, NEW p \in Processes, Prune(p)
    PROVE  (OwnerInv /\ PrunerInv /\ RecordInv)'
  <1> USE DEF IInv, TypeOK, OwnerInv, PrunerInv, RecordInv, RunnerSteps, Ended, Processes, Goto,
              Loop, Collect, osVars, loopVars
  <1>1. CASE ListDir(p)
    BY <1>1 DEF ListDir
  <1>2. CASE ReadAlloc(p)
    BY <1>2 DEF ReadAlloc
  <1>3. CASE ListFails(p)
    BY <1>3 DEF ListFails
  <1>4. CASE ReadAllocsDone(p)
    BY <1>4 DEF ReadAllocsDone
  <1>5. CASE ListPids(p)
    BY <1>5 DEF ListPids, RunningPids
  <1>6. CASE PruneFind(p)
    BY <1>6 DEF PruneFind
  <1>7. CASE PruneDelete(p)
    BY <1>7 DEF PruneDelete
  <1>8. CASE PruneFails(p)
    BY <1>8 DEF PruneFails
  <1>9. CASE PruneDone(p)
    BY <1>9 DEF PruneDone
  <1>10. CASE Release(p)
    BY <1>10 DEF Release, ReleaseAlloc
  <1>11. CASE ReleaseDone(p)
    BY <1>11 DEF ReleaseDone, AfterPrune
  <1> QED
    BY <1>1, <1>2, <1>3, <1>4, <1>5, <1>6, <1>7, <1>8, <1>9, <1>10, <1>11 DEF Prune

\* A runner's own steps keep file and tap in order.
LEMMA UseTapInv ==
    ASSUME IInv, NEW p \in Runners, UseTap(p)
    PROVE  (OwnerInv /\ PrunerInv /\ RecordInv)'
  <1> USE DEF IInv, TypeOK, OwnerInv, PrunerInv, RecordInv, RunnerSteps, Ended, Processes, Goto,
              osVars, loopVars
  <1>1. CASE SaveCreates(p)
    BY <1>1 DEF SaveCreates
  <1>2. CASE SaveWrites(p)
    BY <1>2 DEF SaveWrites
  <1>3. CASE SaveFails(p)
    BY <1>3 DEF SaveFails
  <1>4. CASE CreateTap(p)
    BY <1>4 DEF CreateTap
  <1>5. CASE CreateTapFails(p)
    BY <1>5 DEF CreateTapFails, ReleaseAlloc
  <1>6. CASE StopUsing(p) \/ FindOwn(p)
    BY <1>6 DEF StopUsing, FindOwn
  <1>7. CASE DeleteOwn(p)
    BY <1>7 DEF DeleteOwn
  <1>8. CASE DeleteOwnFails(p)
    BY <1>8 DEF DeleteOwnFails
  <1>9. CASE ReleaseOwn(p)
    BY <1>9 DEF ReleaseOwn, ReleaseAlloc
  <1> QED
    BY <1>1, <1>2, <1>3, <1>4, <1>5, <1>6, <1>7, <1>8, <1>9 DEF UseTap

\* So do the start and the end of processes, and "linsk clean", which declares the
\* files it removes as wiped.
LEMMA OthersInv ==
    ASSUME IInv, NEW p \in Processes,
           Start(p) \/ Clean(p) \/ Crash(p) \/ PidReused(p)
    PROVE  (OwnerInv /\ PrunerInv /\ RecordInv)'
  <1> USE DEF IInv, TypeOK, OwnerInv, PrunerInv, RecordInv, RunnerSteps, Ended, Processes, Goto,
              osVars, loopVars
  <1>1. CASE Start(p)
    BY <1>1 DEF Start
  <1>2. CASE RemoveAll(p)
    BY <1>2 DEF RemoveAll
  <1>3. CASE Abort(p)
    BY <1>3 DEF Abort
  <1>4. CASE Crash(p)
    BY <1>4 DEF Crash
  <1>5. CASE PidReused(p)
    BY <1>5 DEF PidReused
  <1> QED
    BY <1>1, <1>2, <1>3, <1>4, <1>5 DEF Clean

\* The invariant the theorems below follow from.
THEOREM Inductive == Spec => []IInv
  <1>1. Init => OwnerInv /\ PrunerInv /\ RecordInv
    BY DEF Init, OwnerInv, PrunerInv, RecordInv, Processes
  <1>2. IInv /\ [Next]_vars => (OwnerInv /\ PrunerInv /\ RecordInv)'
    <2> SUFFICES ASSUME IInv, [Next]_vars
                 PROVE  (OwnerInv /\ PrunerInv /\ RecordInv)'
      OBVIOUS
    <2>1. CASE Next
      BY <2>1, PruneInv, UseTapInv, OthersInv DEF Next
    <2>2. CASE UNCHANGED vars
      BY <2>2 DEF vars, osVars, loopVars, IInv, OwnerInv, PrunerInv, RecordInv, Ended
    <2> QED
      BY <2>1, <2>2
  <1>3. TypeOK /\ OwnerInv /\ PrunerInv /\ RecordInv <=> IInv
    BY DEF IInv
  <1> QED
    BY <1>1, <1>2, <1>3, TypeCorrect, PTL DEF Spec

-----------------------------------------------------------------------------
(***************************************************************************)
(* The safety properties of the run.                                       *)
(***************************************************************************)

\* A tap never outlives its allocation file, except through "linsk clean".
THEOREM TapsRecorded == Spec => []TapsAreRecorded
  <1>1. IInv => TapsAreRecorded
    BY DEF IInv, OwnerInv, TapsAreRecorded
  <1> QED
    BY <1>1, Inductive, PTL

\* A tap in use is not deleted by anybody but its user.
THEOREM UsedSurvive == Spec => []UsedTapsSurvive
  <1>1. IInv => UsedTapsSurvive
    BY DEF IInv, OwnerInv, UsedTapsSurvive
  <1> QED
    BY <1>1, Inductive, PTL

\* Only what ended processes have left is pruned, for all that PIDs are looked up
\* after the files were read and used after they were looked up.
THEOREM DanglingOnly == Spec => []OnlyDanglingIsPruned
  <1>1. IInv => OnlyDanglingIsPruned
    BY DEF IInv, PrunerInv, OnlyDanglingIsPruned
  <1> QED
    BY <1>1, Inductive, PTL

\* A tap disappears through its owner or after its owner's end.
THEOREM EndWithOwners == Spec => TapsEndWithOwners
  <1>1. IInv /\ [Next]_vars => [\A t \in taps \ taps' : pc[t] = "deleteOwn" \/ Ended(t)]_vars
    <2> SUFFICES ASSUME IInv, Next, NEW t \in taps \ taps'
                 PROVE  pc[t] = "deleteOwn" \/ Ended(t)
      OBVIOUS
    <2> USE DEF osVars
    <2>1. PICK p \in Processes : PruneDelete(p) \/ DeleteOwn(p)
      <3>1. PICK p \in Processes :
                \/ Start(p) \/ Prune(p) \/ UseTap(p) \/ Clean(p) \/ Crash(p) \/ PidReused(p)
        BY DEF Next
      <3>2. Prune(p) => PruneDelete(p)
        BY DEF Prune, ListDir, ReadAlloc, ListFails, ReadAllocsDone, ListPids, PruneFind,
               PruneFails, PruneDone, Release, ReleaseDone
      <3>3. UseTap(p) => DeleteOwn(p)
        BY DEF UseTap, SaveCreates, SaveWrites, SaveFails, CreateTap, CreateTapFails, StopUsing,
               FindOwn, DeleteOwnFails, ReleaseOwn
      <3>4. ~(Start(p) \/ Clean(p) \/ Crash(p) \/ PidReused(p))
        BY DEF Start, Clean, RemoveAll, Abort, Crash, PidReused
      <3> QED
        BY <3>1, <3>2, <3>3, <3>4
    <2>2. CASE PruneDelete(p)
      BY <2>2 DEF PruneDelete, IInv, PrunerInv
    <2>3. CASE DeleteOwn(p)
      BY <2>3 DEF DeleteOwn
    <2> QED
      BY <2>1, <2>2, <2>3
  <1> QED
    BY <1>1, Inductive, PTL DEF Spec, TapsEndWithOwners

-----------------------------------------------------------------------------
(***************************************************************************)
(* Refinement of the registry.                                             *)
(***************************************************************************)

\* The registry's view of the place of a process, and of a file that is not wiped.
OwnerAt(step) ==
    IF step = "ended" THEN "ended"
    ELSE IF step = "use" THEN "using"
    ELSE IF step \in {"find", "deleteOwn", "releaseOwn"} THEN "leaving"
    ELSE "preparing"

RecordOf(content) ==
    IF content = "absent" THEN "none" ELSE IF content = "empty" THEN "begun" ELSE "kept"

\* A step of one process moves one owner at most.
LEMMA OwnerMoves ==
    ASSUME TypeOK, NEW p \in Processes, NEW step, Goto(p, step)
    PROVE  registryOwner' = IF p \in Runners THEN [registryOwner EXCEPT ![p] = OwnerAt(step)]
                                             ELSE registryOwner
  <1>1. \A t \in Runners : pc'[t] = IF t = p THEN step ELSE pc[t]
    BY DEF Goto, TypeOK, Processes
  <1> QED
    BY <1>1 DEF registryOwner, OwnerAt, Ended

\* A process that goes from one place of preparing to another moves none.
LEMMA OwnerStays ==
    ASSUME TypeOK, NEW p \in Processes, NEW step, Goto(p, step),
           OwnerAt(step) = OwnerAt(pc[p])
    PROVE  registryOwner' = registryOwner
  <1>1. p \in Runners => registryOwner[p] = OwnerAt(pc[p])
    BY DEF registryOwner, OwnerAt, Ended
  <1>2. registryOwner = [t \in Runners |-> registryOwner[t]]
    BY DEF registryOwner
  <1>3. p \in Runners => [registryOwner EXCEPT ![p] = registryOwner[p]] = registryOwner
    BY <1>2
  <1> QED
    BY <1>1, <1>3, OwnerMoves

\* The record of a runner.
LEMMA RecordIs ==
    ASSUME TypeOK, NEW t \in Runners
    PROVE  /\ registryRecord[t] = IF t \in wiped THEN "lost" ELSE RecordOf(file[t])
           /\ registryOwner[t] = OwnerAt(pc[t])
  BY DEF registryRecord, registryOwner, RecordOf, OwnerAt, Ended

\* A change of one file that is not wiped changes one record.
LEMMA RecordMoves ==
    ASSUME TypeOK, NEW t \in Runners, NEW content, t \notin wiped,
           file' = [file EXCEPT ![t] = content], UNCHANGED wiped
    PROVE  registryRecord' = [registryRecord EXCEPT ![t] = RecordOf(content)]
  <1>1. \A u \in Runners : file'[u] = IF u = t THEN content ELSE file[u]
    BY DEF TypeOK
  <1> QED
    BY <1>1 DEF registryRecord, RecordOf

\* A release gives up a record that is kept, or does nothing.
LEMMA ReleaseMoves ==
    ASSUME TypeOK, NEW t \in Runners, ReleaseAlloc(t), UNCHANGED wiped,
           file[t] # "empty", t \in wiped => file[t] = "absent"
    PROVE  \/ registryRecord' = registryRecord
           \/ registryRecord[t] = "kept" /\ registryRecord' = [registryRecord EXCEPT ![t] = "none"]
  <1>1. CASE file' = file
    BY <1>1 DEF registryRecord
  <1>2. CASE file[t] = "absent" /\ file' = [file EXCEPT ![t] = "absent"]
    <2>1. file' = file
      BY <1>2 DEF TypeOK
    <2> QED
      BY <1>1, <2>1
  <1>3. CASE file[t] # "absent" /\ file' = [file EXCEPT ![t] = "absent"]
    <2>1. t \notin wiped /\ file[t] = "pid"
      BY <1>3 DEF TypeOK
    <2>2. registryRecord' = [registryRecord EXCEPT ![t] = "none"]
      BY <1>3, <2>1, RecordMoves DEF RecordOf
    <2>3. registryRecord[t] = "kept"
      BY <2>1, RecordIs DEF RecordOf
    <2> QED
      BY <2>2, <2>3
  <1> QED
    BY <1>1, <1>2, <1>3 DEF ReleaseAlloc

\* The pruning of the taps others left behind is a Delete, a Free, an End or a stutter.
LEMMA PruneRefines ==
    ASSUME IInv, NEW p \in Processes, Prune(p)
    PROVE  [Registry!Next]_(Registry!vars)
  <1> USE DEF Registry!vars
  <1>0. TypeOK
    BY DEF IInv
  <1>1. UNCHANGED <<file, wiped>> => registryRecord' = registryRecord
    BY DEF registryRecord
  <1>2. UNCHANGED pc => registryOwner' = registryOwner
    BY DEF registryOwner, Ended
  <1>3. CASE ListDir(p) \/ ReadAllocsDone(p) \/ ListPids(p) \/ PruneDone(p) \/ ReleaseDone(p)
    <2>1. PICK step \in {"read", "pids", "prune", "release", "save", "confirm"} : Goto(p, step)
      BY <1>3 DEF ListDir, ReadAllocsDone, ListPids, PruneDone, ReleaseDone, AfterPrune
    <2>2. UNCHANGED osVars /\ pc[p] \in {"list", "read", "pids", "prune", "release"}
      BY <1>3 DEF ListDir, ReadAllocsDone, ListPids, PruneDone, ReleaseDone
    <2>3. registryOwner' = registryOwner
      BY <1>0, <2>1, <2>2, OwnerStays DEF OwnerAt
    <2> QED
      BY <1>1, <2>2, <2>3 DEF osVars
  <1>4. CASE ReadAlloc(p)
    BY <1>1, <1>2, <1>4 DEF ReadAlloc, osVars
  <1>5. CASE ListFails(p)
    <2>1. UNCHANGED osVars /\ pc[p] \in {"list", "read"}
      BY <1>5 DEF ListFails
    <2>2. CASE p \in Runners
      <3>1. registryOwner' = [registryOwner EXCEPT ![p] = "ended"]
        BY <1>0, <1>5, <2>2, OwnerMoves DEF ListFails, OwnerAt
      <3>2. registryOwner[p] # "ended"
        BY <1>0, <2>1, <2>2, RecordIs DEF OwnerAt
      <3>3. Registry!End(p)
        BY <1>1, <2>1, <3>1, <3>2 DEF Registry!End, osVars
      <3> QED
        BY <2>2, <3>3 DEF Registry!Next
    <2>3. CASE p \notin Runners
      <3>1. registryOwner' = registryOwner
        BY <1>0, <1>5, <2>3, OwnerMoves DEF ListFails
      <3> QED
        BY <1>1, <2>1, <3>1 DEF osVars
    <2> QED
      BY <2>2, <2>3
  <1>6. CASE PruneFind(p)
    <2>1. UNCHANGED osVars
      BY <1>6 DEF PruneFind
    <2>2. (Goto(p, "delete") /\ pc[p] = "prune") \/ UNCHANGED pc
      BY <1>6 DEF PruneFind
    <2>3. registryOwner' = registryOwner
      BY <1>0, <1>2, <2>2, OwnerStays DEF OwnerAt
    <2> QED
      BY <1>1, <2>1, <2>3 DEF osVars
  <1>7. CASE PruneDelete(p)
    <2>1. /\ pc[p] = "delete" /\ target[p] \in taps /\ taps' = taps \ {target[p]}
          /\ Goto(p, "prune") /\ UNCHANGED <<file, wiped>>
      BY <1>7 DEF PruneDelete
    <2>2. target[p] \in Runners /\ Ended(target[p])
      BY <2>1 DEF IInv, PrunerInv, TypeOK
    <2>3. registryOwner' = registryOwner
      BY <1>0, <2>1, OwnerStays DEF OwnerAt
    <2>4. registryOwner[target[p]] = "ended"
      BY <2>2 DEF registryOwner
    <2>5. Registry!Delete(target[p])
      BY <1>1, <2>1, <2>3, <2>4 DEF Registry!Delete
    <2> QED
      BY <2>2, <2>5 DEF Registry!Next
  <1>8. CASE PruneFails(p)
    <2>1. PICK step \in {"save", "release"} : Goto(p, step)
      BY <1>8 DEF PruneFails
    <2>2. UNCHANGED osVars /\ pc[p] \in {"pids", "prune", "delete"}
      BY <1>8 DEF PruneFails
    <2>3. registryOwner' = registryOwner
      BY <1>0, <2>1, <2>2, OwnerStays DEF OwnerAt
    <2> QED
      BY <1>1, <2>2, <2>3 DEF osVars
  <1>9. CASE Release(p)
    <2>1. PICK t \in todo[p] : ReleaseAlloc(t)
      BY <1>9 DEF Release
    <2>2. pc[p] = "release" /\ UNCHANGED <<taps, wiped, pc>>
      BY <1>9 DEF Release
    <2>3. t \in Runners /\ Ended(t) /\ t \notin taps /\ file[t] # "empty"
      BY <2>1, <2>2 DEF IInv, PrunerInv, RecordInv, TypeOK
    <2>4. t \in wiped => file[t] = "absent"
      BY <2>3 DEF IInv, RecordInv
    <2>5. \/ registryRecord' = registryRecord
          \/ registryRecord[t] = "kept" /\ registryRecord' = [registryRecord EXCEPT ![t] = "none"]
      BY <1>0, <2>1, <2>2, <2>3, <2>4, ReleaseMoves
    <2>6. registryOwner[t] = "ended"
      BY <2>3 DEF registryOwner
    <2>7. Registry!Free(t) \/ registryRecord' = registryRecord
      BY <1>2, <2>2, <2>3, <2>5, <2>6 DEF Registry!Free, Registry!Vacant
    <2> QED
      BY <1>2, <2>2, <2>3, <2>7 DEF Registry!Next
  <1> QED
    BY <1>3, <1>4, <1>5, <1>6, <1>7, <1>8, <1>9 DEF Prune

\* A runner's own steps are those of an owner.
LEMMA UseTapRefines ==
    ASSUME IInv, NEW p \in Runners, UseTap(p)
    PROVE  [Registry!Next]_(Registry!vars)
  <1> USE DEF Registry!vars
  <1>0. TypeOK /\ p \in Processes
    BY DEF IInv, Processes
  <1>1. UNCHANGED <<file, wiped>> => registryRecord' = registryRecord
    BY DEF registryRecord
  <1>2. registryOwner[p] = OwnerAt(pc[p])
    BY <1>0, RecordIs
  <1>3. registryRecord[p] = IF p \in wiped THEN "lost" ELSE RecordOf(file[p])
    BY <1>0, RecordIs
  <1>4. CASE SaveCreates(p)
    <2>1. pc[p] = "save" /\ p \notin wiped /\ file[p] = "absent"
      BY <1>4 DEF SaveCreates, IInv, RecordInv, RunnerSteps
    <2>2. registryRecord' = [registryRecord EXCEPT ![p] = "begun"]
      BY <1>0, <1>4, <2>1, RecordMoves DEF SaveCreates, RecordOf
    <2>3. registryOwner' = registryOwner
      BY <1>0, <1>4, <2>1, OwnerStays DEF SaveCreates, OwnerAt
    <2>4. Registry!Begin(p)
      BY <1>2, <1>3, <1>4, <2>1, <2>2, <2>3
      DEF SaveCreates, Registry!Begin, OwnerAt, RecordOf
    <2> QED
      BY <2>4 DEF Registry!Next
  <1>5. CASE SaveWrites(p)
    <2>1. pc[p] = "write" /\ UNCHANGED <<taps, wiped>>
      BY <1>5 DEF SaveWrites
    <2>2. registryOwner' = registryOwner
      BY <1>0, <1>5, <2>1, OwnerStays DEF SaveWrites, OwnerAt
    <2>3. CASE file[p] = "empty"
      <3>1. p \notin wiped
        BY <2>3 DEF IInv, RecordInv
      <3>2. file' = [file EXCEPT ![p] = IF @ = "empty" THEN "pid" ELSE @]
        BY <1>5 DEF SaveWrites
      <3>3. file' = [file EXCEPT ![p] = "pid"]
        BY <2>3, <3>2
      <3>4. registryRecord' = [registryRecord EXCEPT ![p] = "kept"]
        <4>1. registryRecord' = [registryRecord EXCEPT ![p] = RecordOf("pid")]
          BY <1>0, <2>1, <3>1, <3>3, RecordMoves
        <4> QED
          BY <4>1 DEF RecordOf
      <3>5. Registry!Finish(p)
        BY <1>2, <1>3, <2>1, <2>2, <2>3, <3>1, <3>4 DEF Registry!Finish, OwnerAt, RecordOf
      <3> QED
        BY <3>5 DEF Registry!Next
    <2>4. CASE file[p] # "empty"
      <3>1. file' = file
        BY <1>0, <1>5, <2>4 DEF SaveWrites, TypeOK
      <3> QED
        BY <1>1, <2>1, <2>2, <3>1
    <2> QED
      BY <2>3, <2>4
  <1>6. CASE SaveFails(p) \/ DeleteOwnFails(p)
    <2>1. Goto(p, "ended") /\ UNCHANGED osVars /\ pc[p] # "ended"
      BY <1>6 DEF SaveFails, DeleteOwnFails
    <2>2. registryOwner' = [registryOwner EXCEPT ![p] = "ended"]
      BY <1>0, <2>1, OwnerMoves DEF OwnerAt
    <2>3. Registry!End(p)
      BY <1>1, <1>2, <2>1, <2>2 DEF Registry!End, OwnerAt, osVars
    <2> QED
      BY <2>3 DEF Registry!Next
  <1>7. CASE CreateTap(p)
    <2>1. pc[p] = "create" /\ Goto(p, "use") /\ UNCHANGED <<file, wiped>> /\ taps' = taps \cup {p}
      BY <1>7 DEF CreateTap
    <2>2. registryOwner' = [registryOwner EXCEPT ![p] = "using"]
      BY <1>0, <2>1, OwnerMoves DEF OwnerAt
    <2>3. registryRecord[p] \in {"kept", "lost"}
      BY <1>3, <2>1 DEF RecordOf, IInv, OwnerInv
    <2>4. Registry!Create(p)
      BY <1>1, <1>2, <2>1, <2>2, <2>3 DEF Registry!Create, OwnerAt
    <2> QED
      BY <2>4 DEF Registry!Next
  <1>8. CASE CreateTapFails(p) \/ ReleaseOwn(p)
    <2>1. /\ pc[p] \in {"create", "releaseOwn"} /\ ReleaseAlloc(p) /\ Goto(p, "ended")
          /\ UNCHANGED <<taps, wiped>>
      BY <1>8 DEF CreateTapFails, ReleaseOwn
    <2>2. registryOwner' = [registryOwner EXCEPT ![p] = "ended"]
      BY <1>0, <2>1, OwnerMoves DEF OwnerAt
    <2>3. p \notin taps /\ file[p] # "empty" /\ (p \in wiped => file[p] = "absent")
      BY <2>1 DEF IInv, OwnerInv, RecordInv
    <2>4. \/ registryRecord' = registryRecord
          \/ registryRecord[p] = "kept" /\ registryRecord' = [registryRecord EXCEPT ![p] = "none"]
      BY <1>0, <2>1, <2>3, ReleaseMoves
    <2>5. Registry!End(p)
      BY <1>2, <2>1, <2>2, <2>3, <2>4 DEF Registry!End, Registry!Vacant, OwnerAt
    <2> QED
      BY <2>5 DEF Registry!Next
  <1>9. CASE StopUsing(p)
    <2>1. pc[p] = "use" /\ Goto(p, "find") /\ UNCHANGED osVars
      BY <1>9 DEF StopUsing
    <2>2. registryOwner' = [registryOwner EXCEPT ![p] = "leaving"]
      BY <1>0, <2>1, OwnerMoves DEF OwnerAt
    <2>3. Registry!Leave(p)
      BY <1>1, <1>2, <2>1, <2>2 DEF Registry!Leave, OwnerAt, osVars
    <2> QED
      BY <2>3 DEF Registry!Next
  <1>10. CASE FindOwn(p)
    <2>1. pc[p] = "find" /\ Goto(p, "deleteOwn") /\ UNCHANGED osVars
      BY <1>10 DEF FindOwn
    <2>2. registryOwner' = registryOwner
      BY <1>0, <2>1, OwnerStays DEF OwnerAt
    <2> QED
      BY <1>1, <2>1, <2>2 DEF osVars
  <1>11. CASE DeleteOwn(p)
    <2>1. /\ pc[p] = "deleteOwn" /\ p \in taps /\ taps' = taps \ {p} /\ Goto(p, "releaseOwn")
          /\ UNCHANGED <<file, wiped>>
      BY <1>11 DEF DeleteOwn
    <2>2. registryOwner' = registryOwner
      BY <1>0, <2>1, OwnerStays DEF OwnerAt
    <2>3. Registry!Delete(p)
      BY <1>1, <1>2, <2>1, <2>2 DEF Registry!Delete, OwnerAt
    <2> QED
      BY <2>3 DEF Registry!Next
  <1> QED
    BY <1>4, <1>5, <1>6, <1>7, <1>8, <1>9, <1>10, <1>11 DEF UseTap

\* Clean is a Wipe, a crash of a runner is an End.
LEMMA OthersRefine ==
    ASSUME IInv, NEW p \in Processes,
           Start(p) \/ (p \in Cleaners /\ Clean(p)) \/ Crash(p) \/ PidReused(p)
    PROVE  [Registry!Next]_(Registry!vars)
  <1> USE DEF Registry!vars
  <1>0. TypeOK
    BY DEF IInv
  <1>1. UNCHANGED <<file, wiped>> => registryRecord' = registryRecord
    BY DEF registryRecord
  <1>2. p \in Cleaners => p \notin Runners
    BY NetTapAssumption
  <1>3. CASE Start(p)
    <2>1. pc[p] = "off" /\ Goto(p, "list") /\ UNCHANGED osVars
      BY <1>3 DEF Start
    <2>2. registryOwner' = registryOwner
      BY <1>0, <2>1, OwnerStays DEF OwnerAt
    <2> QED
      BY <1>1, <2>1, <2>2 DEF osVars
  <1>4. CASE p \in Cleaners /\ RemoveAll(p)
    <2>1. PICK gone \in SUBSET {r \in Runners : file[r] # "absent"} :
            /\ wiped' = wiped \cup gone
            /\ file' = [r \in Runners |-> IF r \in gone THEN "absent" ELSE file[r]]
      BY <1>4 DEF RemoveAll
    <2>2. UNCHANGED taps /\ Goto(p, "ended")
      BY <1>4 DEF RemoveAll
    <2>3. registryOwner' = registryOwner
      BY <1>0, <1>2, <1>4, <2>2, OwnerMoves
    <2>4. gone \subseteq {t \in Runners : registryRecord[t] \in {"begun", "kept"}}
      <3> SUFFICES ASSUME NEW t \in gone
                   PROVE  t \in Runners /\ registryRecord[t] \in {"begun", "kept"}
        OBVIOUS
      <3>1. t \in Runners /\ file[t] # "absent" /\ t \notin wiped
        BY <2>1 DEF IInv, RecordInv
      <3> QED
        BY <1>0, <3>1, RecordIs DEF RecordOf
    <2>5. registryRecord' = [t \in Runners |-> IF t \in gone THEN "lost" ELSE registryRecord[t]]
      BY <2>1 DEF registryRecord
    <2>6. Registry!Wipe
      BY <2>2, <2>3, <2>4, <2>5 DEF Registry!Wipe
    <2> QED
      BY <2>6 DEF Registry!Next
  <1>5. CASE p \in Cleaners /\ Abort(p)
    <2>1. Goto(p, "ended") /\ UNCHANGED osVars
      BY <1>5 DEF Abort
    <2>2. registryOwner' = registryOwner
      BY <1>0, <1>2, <1>5, <2>1, OwnerMoves
    <2> QED
      BY <1>1, <2>1, <2>2 DEF osVars
  <1>6. CASE Crash(p)
    <2>1. Goto(p, "ended") /\ UNCHANGED osVars /\ pc[p] # "ended"
      BY <1>6 DEF Crash, Ended
    <2>2. CASE p \in Runners
      <3>1. registryOwner' = [registryOwner EXCEPT ![p] = "ended"]
        BY <1>0, <2>1, <2>2, OwnerMoves DEF OwnerAt
      <3>2. registryOwner[p] # "ended"
        BY <1>0, <2>1, <2>2, RecordIs DEF OwnerAt
      <3>3. Registry!End(p)
        BY <1>1, <2>1, <3>1, <3>2 DEF Registry!End, osVars
      <3> QED
        BY <2>2, <3>3 DEF Registry!Next
    <2>3. CASE p \notin Runners
      <3>1. registryOwner' = registryOwner
        BY <1>0, <2>1, <2>3, OwnerMoves
      <3> QED
        BY <1>1, <2>1, <3>1 DEF osVars
    <2> QED
      BY <2>2, <2>3
  <1>7. CASE PidReused(p)
    <2>1. UNCHANGED <<taps, file, wiped, pc>>
      BY <1>7 DEF PidReused
    <2>2. registryOwner' = registryOwner
      BY <2>1 DEF registryOwner, Ended
    <2> QED
      BY <1>1, <2>1, <2>2
  <1> QED
    BY <1>3, <1>4, <1>5, <1>6, <1>7 DEF Clean

\* Files, PIDs and taps that are looked at one after the other, without a lock, keep what
\* the registry promises, for any number of processes that may all crash.
THEOREM RegistryImplemented == Spec => ImplementsRegistry
  <1>1. Init => Registry!Init
    BY DEF Init, Processes, Ended, Registry!Init, registryRecord, registryOwner
  <1>2. IInv /\ [Next]_vars => [Registry!Next]_(Registry!vars)
    <2> SUFFICES ASSUME IInv, [Next]_vars
                 PROVE  [Registry!Next]_(Registry!vars)
      OBVIOUS
    <2>1. CASE Next
      BY <2>1, PruneRefines, UseTapRefines, OthersRefine DEF Next
    <2>2. CASE UNCHANGED vars
      BY <2>2 DEF vars, osVars, loopVars, registryRecord, registryOwner, Ended, Registry!vars
    <2> QED
      BY <2>1, <2>2
  <1> QED
    BY <1>1, <1>2, Inductive, PTL DEF Spec, ImplementsRegistry, Registry!Spec

=============================================================================
