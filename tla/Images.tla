------------------------------- MODULE Images -------------------------------
(***************************************************************************)
(* The images in the data directory: the base image that is downloaded and *)
(* verified, and the VM image that "linsk build" installs from it.         *)
(* src/storage (storage.go, download.go, hash.go, utils.go) and            *)
(* src/imgbuilder, with "linsk run" and "linsk clean" as their other users.*)
(*                                                                         *)
(* Builds share the directory without a lock and may crash between two     *)
(* steps.  Only the names in the directory survive; a process that writes  *)
(* to a file somebody has removed goes on, and nobody sees what it writes. *)
(***************************************************************************)

CONSTANTS
    Builders,    \* processes that run "linsk build", again and again
    Concurrent   \* TRUE when commands may run at the same time

None == "none"

ASSUME ImagesAssumption ==
    /\ None \notin Builders
    /\ Concurrent \in BOOLEAN

VARIABLES
    base,       \* the base image: "absent", "good", or "partial" (its hash is wrong)
    writers,    \* builders that have the base image of that name open for writing
    image,      \* the VM image: "absent" or one of SetupStates
    imageOwner, \* the builder that created the image of that name, or None
    booted,     \* what the last "linsk run" found and started, or None
    pc,
    overwrite,  \* per builder: --overwrite was given
    verified    \* builders that have compared the hash of the base image

files == <<base, writers, image, imageOwner>>
vars == <<files, booted, pc, overwrite, verified>>

\* A VM image whose setup has not come to its end; one whose setup has, while the
\* guest has still to write some of it to the disk; one that is on the disk.
SetupStates == {"partial", "unsynced", "installed"}
SetUp == {"unsynced", "installed"}

Idle == {"off", "ok", "failed"}
Steps == Idle \cup {"checkImage", "statBase", "validate", "statAgain", "open", "receive",
                    "discard", "statImage", "create", "install", "shutdown",
                    "removeBase"}

TypeOK ==
    /\ base \in {"absent", "partial", "good"}
    /\ writers \subseteq Builders
    /\ image \in {"absent"} \cup SetupStates
    /\ imageOwner \in Builders \cup {None}
    /\ booted \in {None} \cup SetupStates
    /\ pc \in [Builders -> Steps]
    /\ overwrite \in [Builders -> BOOLEAN]
    /\ verified \subseteq Builders

Init ==
    /\ base = "absent"
    /\ writers = {}
    /\ image = "absent"
    /\ imageOwner = None
    /\ booted = None
    /\ pc = [p \in Builders |-> "off"]
    /\ overwrite = [p \in Builders |-> FALSE]
    /\ verified = {}

-----------------------------------------------------------------------------

Active(p) == pc[p] \notin Idle

\* Whether another command may run now.
MayRun == Concurrent \/ \A p \in Builders : ~Active(p)

Goto(p, step) == pc' = [pc EXCEPT ![p] = step]

RemoveBaseFile == base' = "absent" /\ writers' = {}

RemoveImageFile == image' = "absent" /\ imageOwner' = None

-----------------------------------------------------------------------------
(***************************************************************************)
(* The build.                                                              *)
(***************************************************************************)

Start(p) ==
    /\ pc[p] \in Idle
    /\ MayRun
    /\ \E flag \in BOOLEAN : overwrite' = [overwrite EXCEPT ![p] = flag]
    /\ verified' = verified \ {p}
    /\ Goto(p, "checkImage")
    /\ UNCHANGED <<files, booted>>

\* A step of the build fails and leaves the files as they are.
Fails(p) ==
    /\ Goto(p, "failed")
    /\ UNCHANGED <<files, booted, overwrite, verified>>

\* Mutant: what is there is removed, --overwrite or not.
CheckImageRemoves(p) ==
    /\ pc[p] = "checkImage"
    /\ RemoveImageFile
    /\ Goto(p, "statBase")
    /\ UNCHANGED <<base, writers, booted, overwrite, verified>>

\* checkExistsOrRemove.
CheckImage(p) ==
    /\ pc[p] = "checkImage"
    /\ \/ /\ image = "absent" \/ overwrite[p]
          /\ RemoveImageFile
          /\ Goto(p, "statBase")
          /\ UNCHANGED <<base, writers, booted, overwrite, verified>>
       \/ image # "absent" /\ Fails(p)

StatBase(p) ==
    /\ pc[p] = "statBase"
    /\ Goto(p, IF base = "absent" THEN "statAgain" ELSE "validate")
    /\ UNCHANGED <<files, booted, overwrite, verified>>

\* Mutant: a base image that is there is taken as it is.
ValidateNot(p) ==
    /\ pc[p] = "validate"
    /\ verified' = verified \cup {p}
    /\ Goto(p, "statImage")
    /\ UNCHANGED <<files, booted, overwrite>>

\* validateFileHash of a base image that was there.
Validate(p) ==
    /\ pc[p] = "validate"
    /\ \/ /\ base = "good"
          /\ verified' = verified \cup {p}
          /\ Goto(p, "statImage")
          /\ UNCHANGED <<files, booted, overwrite>>
       \/ base # "good" /\ Fails(p)

\* download looks for the file once more.  What it means to return for a file that
\* has come up meanwhile, "file already exists", is a nil error.
StatAgain(p) ==
    /\ pc[p] = "statAgain"
    /\ Goto(p, IF base = "absent" THEN "open" ELSE "statImage")
    /\ UNCHANGED <<files, booted, overwrite, verified>>

\* os.OpenFile without O_EXCL.  Mode 0400 keeps everybody but root from opening a
\* file that is there.
Open(p) ==
    /\ pc[p] = "open"
    /\ \/ /\ base' = IF base = "absent" THEN "partial" ELSE base
          /\ writers' = writers \cup {p}
          /\ Goto(p, "receive")
          /\ UNCHANGED <<image, imageOwner, booted, overwrite, verified>>
       \/ Fails(p)

\* copyWithProgressAndHash: all of it came and has the right hash.
Receive(p) ==
    /\ pc[p] = "receive"
    /\ base' = IF p \in writers THEN "good" ELSE base
    /\ writers' = writers \ {p}
    /\ verified' = verified \cup {p}
    /\ Goto(p, "statImage")
    /\ UNCHANGED <<image, imageOwner, booted, overwrite>>

\* The server, the connection, the disk or the hash was not right.
ReceiveFails(p) ==
    /\ pc[p] = "receive"
    /\ base' \in IF p \in writers THEN {base, "partial"} ELSE {base}
    /\ writers' = writers \ {p}
    /\ Goto(p, "discard")
    /\ UNCHANGED <<image, imageOwner, booted, overwrite, verified>>

\* The deferred removal of what was created; its own failure is ignored.
Discard(p) ==
    /\ pc[p] = "discard"
    /\ \/ /\ RemoveBaseFile
          /\ Goto(p, "failed")
          /\ UNCHANGED <<image, imageOwner, booted, overwrite, verified>>
       \/ Fails(p)

\* NewBuildContext looks for the image a second time.
StatImage(p) ==
    /\ pc[p] = "statImage"
    /\ \/ /\ image = "absent"
          /\ Goto(p, "create")
          /\ UNCHANGED <<files, booted, overwrite, verified>>
       \/ Fails(p)

\* "qemu-img create" replaces what is there.  It or NewVM may fail after that.
Create(p) ==
    /\ pc[p] = "create"
    /\ \/ /\ image' = "partial"
          /\ imageOwner' = p
          /\ Goto(p, "install") \/ Goto(p, "failed")
          /\ UNCHANGED <<base, writers, booted, overwrite, verified>>
       \/ Fails(p)

\* Mutant: the exit code of RunVM is not looked at.
InstallAnyway(p) ==
    /\ pc[p] = "install"
    /\ Goto(p, "shutdown")
    /\ UNCHANGED <<files, booted, overwrite, verified>>

\* A guest that builder p has started leaves its image in one of the states.
GuestLeaves(p, states) == image' \in IF imageOwner = p THEN states ELSE {image}

\* RunVM with runAlpineSetup: the guest boots from the base image and its setup
\* command comes to its end.  The command neither syncs nor unmounts the new disk.
Install(p) ==
    /\ pc[p] = "install"
    /\ base # "absent"
    /\ GuestLeaves(p, {"unsynced"})
    /\ Goto(p, "shutdown")
    /\ UNCHANGED <<base, writers, imageOwner, booted, overwrite, verified>>

\* RunVM's Cancel signals QEMU as soon as the guest has accepted poweroff: whether
\* the guest gets its last writes out before QEMU ends is open, and RunVM does not
\* know.  It may also find an error.
Shutdown(p) ==
    /\ pc[p] = "shutdown"
    /\ GuestLeaves(p, {image, "installed"})
    /\ Goto(p, "removeBase") \/ Goto(p, "failed")
    /\ UNCHANGED <<base, writers, imageOwner, booted, overwrite, verified>>

\* RunVM fails, before the setup, during it, or before it knows that it is done.
InstallFails(p) ==
    /\ pc[p] = "install"
    /\ GuestLeaves(p, {image} \cup SetUp)
    /\ Goto(p, "failed")
    /\ UNCHANGED <<base, writers, imageOwner, booted, overwrite, verified>>

\* A base image that cannot be removed is no more than logged.
RemoveBase(p) ==
    /\ pc[p] = "removeBase"
    /\ RemoveBaseFile \/ UNCHANGED <<base, writers>>
    /\ Goto(p, "ok")
    /\ UNCHANGED <<image, imageOwner, booted, overwrite, verified>>

\* A builder that crashes leaves QEMU behind, if it runs, and the guest may go on.
Crash(p) ==
    /\ Active(p)
    /\ writers' = writers \ {p}
    /\ IF pc[p] \in {"install", "shutdown"}
       THEN GuestLeaves(p, {image} \cup SetUp)
       ELSE UNCHANGED image
    /\ Goto(p, "failed")
    /\ UNCHANGED <<base, imageOwner, booted, overwrite, verified>>

Build(p) ==
    \/ Start(p) \/ CheckImage(p) \/ StatBase(p) \/ Validate(p) \/ StatAgain(p) \/ Open(p)
    \/ Receive(p) \/ ReceiveFails(p) \/ Discard(p) \/ StatImage(p) \/ Create(p)
    \/ Install(p) \/ Shutdown(p) \/ InstallFails(p) \/ RemoveBase(p) \/ Crash(p)

-----------------------------------------------------------------------------
(***************************************************************************)
(* The other commands.                                                     *)
(***************************************************************************)

\* Mutant: the image is not looked for.
RunImageUnchecked ==
    /\ MayRun
    /\ booted' = image
    /\ UNCHANGED <<files, pc, overwrite, verified>>

\* CheckVMImageExists: an image is used because it exists.  It is started in
\* snapshot mode and not changed.
RunImage ==
    /\ MayRun
    /\ image # "absent"
    /\ booted' = image
    /\ UNCHANGED <<files, pc, overwrite, verified>>

\* The clean command removes the directory, or fails after one of the files.
CleanDir ==
    /\ MayRun
    /\ \/ RemoveBaseFile /\ RemoveImageFile
       \/ RemoveBaseFile /\ UNCHANGED <<image, imageOwner>>
       \/ RemoveImageFile /\ UNCHANGED <<base, writers>>
    /\ UNCHANGED <<booted, pc, overwrite, verified>>

Next ==
    \/ \E p \in Builders : Build(p)
    \/ RunImage
    \/ CleanDir

Spec == Init /\ [][Next]_vars

-----------------------------------------------------------------------------
(***************************************************************************)
(* Properties.  The first four hold for commands one after another, each  *)
(* of which may fail or crash at any step.                                 *)
(***************************************************************************)

\* What a build installs from is a base image with the right hash, whatever an
\* earlier build left in the directory when it failed or crashed.
InstallsFromGoodBase ==
    \A p \in Builders :
        pc[p] \in {"statImage", "create", "install", "shutdown", "removeBase"}
            => base = "good"

\* A build that ends successfully leaves its own image behind, with a setup that came
\* to its end.  It does not mean that all of it is on the disk: Shutdown may lose the
\* guest's last writes, and the build says "VM image built successfully" all the same.
SuccessMeansSetUp ==
    [][\A p \in Builders :
           pc[p] # "ok" /\ pc'[p] = "ok" => image' \in SetUp /\ imageOwner' = p]_vars

ImageIsSetUp == image \in SetUp

\* --overwrite: an image that has been set up goes, as a whole, when the user of a
\* build asked for that or the directory is cleaned; no build begins to set up
\* another one in its place.
OverwriteOnRequest ==
    [][ImageIsSetUp /\ ~ImageIsSetUp' =>
           /\ image' = "absent"
           /\ \/ \E p \in Builders : pc[p] = "checkImage" /\ overwrite[p]
              \/ UNCHANGED pc]_vars

\* A run that finds an image whose setup was cut short finds what a failed build has
\* left.  (An image that lacks the guest's last writes may come from any build.)
UnfinishedAfterFailure ==
    [][booted' = "partial" /\ booted' # booted => pc[imageOwner] = "failed"]_vars

\* "file already exists" is an error: no build goes on with a base image whose hash
\* it has not compared itself.
InstallIsVerified ==
    \A p \in Builders : pc[p] \in {"create", "install", "shutdown"} => p \in verified

=============================================================================
