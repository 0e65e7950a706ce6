---------------------------- MODULE Images_proofs ----------------------------
(***************************************************************************)
(* Theorems about module Images, for every number of builders.  All but    *)
(* type correctness are about commands one after another.                  *)
(***************************************************************************)
EXTENDS Images, TLAPS

-----------------------------------------------------------------------------
(***************************************************************************)
(* Type correctness.                                                       *)
(***************************************************************************)

\* The steps of a build keep every variable in its type.
LEMMA BuildTyped ==
    ASSUME TypeOK, NEW p \in Builders, Build(p)
    PROVE  TypeOK'
  <1> USE DEF TypeOK, Goto, Steps, Idle, SetupStates, SetUp, GuestLeaves, Fails, files,
              RemoveBaseFile, RemoveImageFile
  <1>1. CASE Start(p) \/ CheckImage(p) \/ StatBase(p) \/ Validate(p) \/ StatAgain(p)
    BY <1>1 DEF Start, CheckImage, StatBase, Validate, StatAgain
  <1>2. CASE Open(p) \/ Receive(p) \/ ReceiveFails(p) \/ Discard(p)
    BY <1>2 DEF Open, Receive, ReceiveFails, Discard
  <1>3. CASE StatImage(p) \/ Create(p) \/ Install(p) \/ InstallFails(p) \/ Shutdown(p)
    BY <1>3 DEF StatImage, Create, Install, InstallFails, Shutdown
  <1>4. CASE RemoveBase(p) \/ Crash(p)
    BY <1>4 DEF RemoveBase, Crash
  <1> QED
    BY <1>1, <1>2, <1>3, <1>4 DEF Build

\* Files, processes and what they know stay in their types.
THEOREM TypeCorrect == Spec => []TypeOK
  <1>1. Init => TypeOK
    BY DEF Init, TypeOK, Steps, Idle
  <1>2. TypeOK /\ [Next]_vars => TypeOK'
    <2> SUFFICES ASSUME TypeOK, [Next]_vars
                 PROVE  TypeOK'
      OBVIOUS
    <2>1. CASE \E p \in Builders : Build(p)
      BY <2>1, BuildTyped
    <2>2. CASE RunImage \/ CleanDir \/ UNCHANGED vars
      BY <2>2 DEF RunImage, CleanDir, vars, files, TypeOK, RemoveBaseFile, RemoveImageFile
    <2> QED
      BY <2>1, <2>2 DEF Next
  <1> QED
    BY <1>1, <1>2, PTL DEF Spec

-----------------------------------------------------------------------------
(***************************************************************************)
(* The inductive invariant for commands one after another.                 *)
(***************************************************************************)

AtMostOneBuild ==
    \A p, q \in Builders : Active(p) /\ Active(q) => p = q

\* What the only build knows of the base image.
BaseInv ==
    \A p \in Builders :
        /\ pc[p] \in {"statAgain", "open"} => base = "absent"
        /\ pc[p] = "receive" => p \in writers
        /\ pc[p] \in {"statImage", "create", "install", "shutdown", "removeBase"}
               => base = "good"

\* What the only build knows of the VM image.
ImageInv ==
    \A p \in Builders :
        /\ pc[p] \in {"statBase", "validate", "statAgain", "open", "receive", "discard",
                      "statImage", "create"} => image = "absent"
        /\ pc[p] = "install" => image = "partial" /\ imageOwner = p
        /\ pc[p] \in {"shutdown", "removeBase"} => image \in SetUp /\ imageOwner = p

\* Whose image has not been set up, that build has not ended well.
OwnerInv ==
    image = "partial" => imageOwner \in Builders /\ pc[imageOwner] \notin {"off", "ok"}

SequentialInv == TypeOK /\ AtMostOneBuild /\ BaseInv /\ ImageInv /\ OwnerInv

\* No step of a build breaks what builds know of the files.
LEMMA BuildInv ==
    ASSUME ~Concurrent, SequentialInv, NEW p \in Builders, Build(p)
    PROVE  (AtMostOneBuild /\ BaseInv /\ ImageInv /\ OwnerInv)'
  <1> USE DEF SequentialInv, TypeOK, AtMostOneBuild, BaseInv, ImageInv, OwnerInv, Active, Idle,
              SetUp, GuestLeaves, Goto, Fails, files, RemoveBaseFile, RemoveImageFile
  <1>1. CASE Start(p)
    BY <1>1 DEF Start, MayRun
  <1>2. CASE CheckImage(p)
    BY <1>2 DEF CheckImage
  <1>3. CASE StatBase(p)
    BY <1>3 DEF StatBase
  <1>4. CASE Validate(p)
    BY <1>4 DEF Validate
  <1>5. CASE StatAgain(p)
    BY <1>5 DEF StatAgain
  <1>6. CASE Open(p)
    BY <1>6 DEF Open
  <1>7. CASE Receive(p)
    BY <1>7 DEF Receive
  <1>8. CASE ReceiveFails(p)
    BY <1>8 DEF ReceiveFails
  <1>9. CASE Discard(p)
    BY <1>9 DEF Discard
  <1>10. CASE StatImage(p)
    BY <1>10 DEF StatImage
  <1>11. CASE Create(p)
    BY <1>11 DEF Create
  <1>12. CASE Install(p)
    BY <1>12 DEF Install
  <1>13. CASE InstallFails(p)
    BY <1>13 DEF InstallFails
  <1>14. CASE RemoveBase(p)
    BY <1>14 DEF RemoveBase
  <1>15. CASE Crash(p)
    BY <1>15 DEF Crash
  <1>16. CASE Shutdown(p)
    BY <1>16 DEF Shutdown
  <1> QED
    BY <1>1, <1>2, <1>3, <1>4, <1>5, <1>6, <1>7, <1>8, <1>9, <1>10, <1>11, <1>12, <1>13, <1>14,
       <1>15, <1>16 DEF Build

\* The invariant the theorems below follow from.
THEOREM Sequential == ~Concurrent => (Spec => []SequentialInv)
  <1> SUFFICES ASSUME ~Concurrent
               PROVE  Spec => []SequentialInv
    OBVIOUS
  <1>1. Init => SequentialInv
    BY DEF Init, SequentialInv, TypeOK, Steps, Idle, AtMostOneBuild, Active, BaseInv, ImageInv,
          OwnerInv
  <1>2. SequentialInv /\ TypeOK' /\ [Next]_vars => SequentialInv'
    <2> SUFFICES ASSUME SequentialInv, TypeOK', [Next]_vars
                 PROVE  (AtMostOneBuild /\ BaseInv /\ ImageInv /\ OwnerInv)'
      BY DEF SequentialInv
    <2>1. CASE \E p \in Builders : Build(p)
      BY <2>1, BuildInv
    <2>2. CASE RunImage \/ UNCHANGED vars
      BY <2>2
      DEF RunImage, vars, files, SequentialInv, AtMostOneBuild, Active, BaseInv, ImageInv,
          OwnerInv
    <2>3. CASE CleanDir
      BY <2>3 DEF CleanDir, MayRun, SequentialInv, AtMostOneBuild, Active, Idle, BaseInv, ImageInv,
                     OwnerInv, RemoveImageFile
    <2> QED
      BY <2>1, <2>2, <2>3 DEF Next
  <1> QED
    BY <1>1, <1>2, TypeCorrect, PTL DEF Spec

-----------------------------------------------------------------------------
(***************************************************************************)
(* The safety properties of the run.                                       *)
(***************************************************************************)

\* No build installs from what a failed or crashed download has left.
THEOREM GoodBase == ~Concurrent => (Spec => []InstallsFromGoodBase)
  <1>1. SequentialInv => InstallsFromGoodBase
    BY DEF SequentialInv, BaseInv, InstallsFromGoodBase
  <1> QED
    BY <1>1, Sequential, PTL

\* A build that says it succeeded leaves its own image, whose setup came to its end.
THEOREM SuccessIsSetUp == ~Concurrent => (Spec => SuccessMeansSetUp)
  <1>1. SequentialInv /\ [Next]_vars
            => [\A p \in Builders :
                    pc[p] # "ok" /\ pc'[p] = "ok" => image' \in SetUp /\ imageOwner' = p]_vars
    <2> SUFFICES ASSUME SequentialInv, Next, NEW p \in Builders, pc[p] # "ok", pc'[p] = "ok"
                 PROVE  image' \in SetUp /\ imageOwner' = p
      BY DEF SuccessMeansSetUp
    <2>1. PICK q \in Builders : Build(q)
      BY DEF Next, RunImage, CleanDir
    <2>2. RemoveBase(p)
      BY <2>1
      DEF SequentialInv, TypeOK, Build, Start, CheckImage, StatBase, Validate, StatAgain, Open,
          Receive, ReceiveFails, Discard, StatImage, Create, Install, Shutdown, InstallFails,
          RemoveBase, Crash, Goto, Fails
    <2> QED
      BY <2>2 DEF RemoveBase, SequentialInv, ImageInv
  <1> QED
    BY <1>1, Sequential, PTL DEF Spec, SuccessMeansSetUp

\* An image that was set up goes with --overwrite or with "linsk clean", and it goes as
\* a whole.
THEOREM Overwrites == ~Concurrent => (Spec => OverwriteOnRequest)
  <1>1. SequentialInv /\ [Next]_vars
            => [ImageIsSetUp /\ ~ImageIsSetUp' =>
                    /\ image' = "absent"
                    /\ \/ \E p \in Builders : pc[p] = "checkImage" /\ overwrite[p]
                       \/ UNCHANGED pc]_vars
    <2> SUFFICES ASSUME SequentialInv, Next, image \in SetUp, image' \notin SetUp
                 PROVE  /\ image' = "absent"
                        /\ \/ \E p \in Builders : pc[p] = "checkImage" /\ overwrite[p]
                           \/ UNCHANGED pc
      BY DEF ImageIsSetUp
    <2>1. CASE CleanDir
      BY <2>1 DEF CleanDir, RemoveImageFile
    <2>2. ASSUME NEW p \in Builders, Build(p)
          PROVE  pc[p] = "checkImage" /\ overwrite[p] /\ image' = "absent"
      <3>1. CASE CheckImage(p)
        BY <3>1 DEF CheckImage, RemoveImageFile, Fails, files
      <3>2. CASE Create(p)
        BY <3>2 DEF Create, SequentialInv, ImageInv, SetUp, Fails, files
      <3>3. CASE Install(p) \/ InstallFails(p) \/ Shutdown(p)
        BY <3>3 DEF Install, InstallFails, Shutdown, GuestLeaves, SetUp
      <3>4. CASE Start(p) \/ StatBase(p) \/ Validate(p) \/ StatAgain(p) \/ Open(p) \/ Receive(p)
        BY <3>4 DEF Start, StatBase, Validate, StatAgain, Open, Receive, Fails, files
      <3>5. CASE ReceiveFails(p) \/ Discard(p) \/ StatImage(p) \/ RemoveBase(p) \/ Crash(p)
        BY <3>5 DEF ReceiveFails, Discard, StatImage, RemoveBase, Crash, GuestLeaves, SetUp, Fails,
                    files
      <3> QED
        BY <2>2, <3>1, <3>2, <3>3, <3>4, <3>5 DEF Build
    <2> QED
      BY <2>1, <2>2 DEF Next, RunImage, files
  <1> QED
    BY <1>1, Sequential, PTL DEF Spec, OverwriteOnRequest

\* A run that finds an image whose setup was cut short finds what a failed build has left.
THEOREM UnfinishedIsFailed == ~Concurrent => (Spec => UnfinishedAfterFailure)
  <1> SUFFICES ASSUME ~Concurrent
               PROVE  Spec => UnfinishedAfterFailure
    OBVIOUS
  <1>1. SequentialInv /\ [Next]_vars
            => [booted' = "partial" /\ booted' # booted => pc[imageOwner] = "failed"]_vars
    <2> SUFFICES ASSUME SequentialInv, Next, booted' = "partial", booted' # booted
                 PROVE  pc[imageOwner] = "failed"
      OBVIOUS
    <2>1. RunImage
      BY DEF Next, CleanDir, Build, Start, CheckImage, StatBase, Validate, StatAgain, Open, Receive,
             ReceiveFails, Discard, StatImage, Create, Install, Shutdown, InstallFails,
             RemoveBase, Crash, Fails
    <2> QED
      BY <2>1 DEF RunImage, MayRun, Active, Idle, SequentialInv, OwnerInv
  <1> QED
    BY <1>1, Sequential, PTL DEF Spec, UnfinishedAfterFailure

=============================================================================
