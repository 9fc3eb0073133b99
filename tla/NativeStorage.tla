--------------------------- MODULE NativeStorage ---------------------------
(***************************************************************************)
(* The disk transforms of the native runner (src/runtime/native/host.py):  *)
(* snapshot, restore, resize and snapshot-delete of one machine, each run  *)
(* by the worker of a durable receipt.                                     *)
(*                                                                         *)
(* A transform works on a staging file, records the commit it prepared in  *)
(* the receipt, and then exchanges the disk by a rename.  The supervisor   *)
(* may die between any two of these steps; the next one, or a repeated     *)
(* request, runs the same receipt again.                                   *)
(*                                                                         *)
(* Abstractions.  A file is its content and its size, and a checksum of a  *)
(* file is the file.  Contents name the customer's files, so the repair,   *)
(* refresh and sanitizing of a staged copy keep them.  The admission of    *)
(* requests, generations and incarnations are in HostLifecycle, process    *)
(* evidence and the lease in QemuEvidence: here a supervisor starts only   *)
(* when no transform of the previous one is left.  Imported snapshots are  *)
(* the business of SnapshotTransfer.                                       *)
(***************************************************************************)
EXTENDS Naturals, FiniteSets

CONSTANTS
  Operations,  \* the storage operations that may be submitted
  Contents,    \* what a guest may write
  FirstSize,   \* the size of the disk when it was created
  Operator,    \* whether the operator may lower a limit between two supervisors
  None

Verbs == {"snapshot", "restore", "resize", "snapshot-delete"}
Snaps == {o.snap : o \in Operations}

\* size: the size a resize asks for, else 0.  snap: None for a resize.
Operation == [verb : Verbs, snap : Snaps, size : Nat, id : STRING]

ASSUME OperationsAssumption == Operations \subseteq Operation
ASSUME ContentsAssumption == Contents # {} /\ FirstSize \in Nat
ASSUME OperatorAssumption == Operator \in BOOLEAN
ASSUME NoneAssumption == None \notin Contents \cup Operations

VARIABLES
  disk,     \* root.ext4
  conf,     \* disk_gb in machine.json
  stage,    \* root.restore and root.resize
  manifest, \* manifest.json of every snapshot
  art,      \* disk.gz of every snapshot
  receipt,  \* the storage journal
  work,     \* the worker thread, under the machine lock from "begin" on
  power,    \* the machine: off, being started under the machine lock, or on
  lowered   \* the operator's memory limit no longer covers the resizes

vars == <<disk, conf, stage, manifest, art, receipt, work, power, lowered>>

File == [data : Contents, size : Nat]
Staged == {"restore", "resize"}
NoFile == [data |-> None, size |-> 0]
Partial == [data |-> None, size |-> 1]
Places == {"idle", "queued", "copy", "publish", "stage", "fill", "prepare", "replay",
           "swap", "configure", "delete", "complete"}

\* prepared: the digest of the staged file a receipt is bound to.
Receipt == [status : {"none", "pending", "completed", "failed"},
            prepared : File \cup {NoFile}]
NoWork == [op |-> None, at |-> "idle"]
Pending(o) == receipt[o].status = "pending"
Prepared(o) == receipt[o].prepared # NoFile

TypeOK ==
  /\ disk \in File
  /\ conf \in Nat
  /\ stage \in [Staged -> File \cup {NoFile, Partial}]
  /\ manifest \in [Snaps -> File \cup {NoFile}]
  /\ art \in [Snaps -> File \cup {NoFile}]
  /\ receipt \in [Operations -> Receipt]
  /\ work \in [op : Operations \cup {None}, at : Places]
  /\ power \in {"off", "starting", "on"}
  /\ lowered \in BOOLEAN

Init ==
  /\ disk \in [data : Contents, size : {FirstSize}]
  /\ conf = FirstSize
  /\ stage = [v \in Staged |-> NoFile]
  /\ manifest = [s \in Snaps |-> NoFile]
  /\ art = [s \in Snaps |-> NoFile]
  /\ receipt = [o \in Operations |-> [status |-> "none", prepared |-> NoFile]]
  /\ work = NoWork
  /\ power = "off"
  /\ lowered = FALSE
-----------------------------------------------------------------------------
(* Requests, and the machine between them. *)

files == <<disk, conf, stage, manifest, art>>
NeedsStopped(o) == o.verb \in {"snapshot", "restore", "resize"}

Submit(o) ==
  /\ receipt[o].status = "none"
  /\ \A p \in Operations : ~Pending(p)
  /\ NeedsStopped(o) => power # "on"
  /\ receipt' = [receipt EXCEPT ![o].status = "pending"]
  /\ work' = [op |-> o, at |-> "queued"]
  /\ UNCHANGED <<files, power, lowered>>

\* A repeated request launches a worker unless one is alive.
Resubmit(o) ==
  /\ Pending(o)
  /\ work = NoWork
  /\ work' = [op |-> o, at |-> "queued"]
  /\ UNCHANGED <<files, receipt, power, lowered>>

\* start looks for pending receipts under the machine lock, and launches QEMU
\* under it a while later.
Start ==
  /\ power = "off"
  /\ \A o \in Operations : ~Pending(o)
  /\ power' = "starting"
  /\ UNCHANGED <<files, receipt, work, lowered>>

Started ==
  /\ power = "starting"
  /\ power' \in {"on", "off"}
  /\ UNCHANGED <<files, receipt, work, lowered>>

GuestWrites ==
  /\ power = "on"
  /\ \E d \in Contents : disk' = [disk EXCEPT !.data = d]
  /\ UNCHANGED <<conf, stage, manifest, art, receipt, work, power, lowered>>

PowerOff ==
  /\ power = "on"
  /\ power' = "off"
  /\ UNCHANGED <<files, receipt, work, lowered>>
-----------------------------------------------------------------------------
(* The worker.  Each step ends at the next durable write. *)

op == work.op
Goto(place) == work' = [work EXCEPT !.at = place]
Doing(place) == work.at = place
Allocation == IF disk.size > conf THEN disk.size ELSE conf

\* A resize that grows nothing looks at no staging file and binds its
\* resources only.
KeepsDisk == op.verb = "resize" /\ op.size = disk.size

\* The receipt is settled and the machine lock released.
Settle(result) ==
  /\ receipt' = [receipt EXCEPT ![op].status = result]
  /\ work' = NoWork

\* Faulty variant of Discard: the stage of a failed transform stays.
DiscardNothing == stage' = stage

\* A stage that no receipt is bound to is removed.
Discard ==
  stage' = IF op.verb \in Staged /\ ~Prepared(op) THEN [stage EXCEPT ![op.verb] = NoFile]
                                                  ELSE stage

\* What must hold before a transform, or the replay of one, begins.
Valid ==
  /\ NeedsStopped(op) => power = "off"
  /\ op.verb = "snapshot" => manifest[op.snap] = NoFile \/ art[op.snap] # NoFile
  /\ op.verb = "restore" => /\ manifest[op.snap] # NoFile /\ art[op.snap] # NoFile
                            /\ manifest[op.snap].size <= Allocation
                            /\ Prepared(op) \/ art[op.snap] = manifest[op.snap]
  /\ op.verb = "resize" => ~lowered /\ op.size >= disk.size

\* Faulty variant of FirstPlace: a published snapshot is taken again.
FirstPlaceAgain ==
  CASE op.verb = "snapshot" -> "copy"
    [] op.verb = "snapshot-delete" -> "delete"
    [] op.verb \in Staged -> IF Prepared(op) THEN "replay" ELSE "stage"

FirstPlace ==
  CASE op.verb = "snapshot" -> IF manifest[op.snap] = NoFile THEN "copy" ELSE "complete"
    [] op.verb = "snapshot-delete" -> "delete"
    [] op.verb \in Staged -> IF Prepared(op) THEN "replay" ELSE "stage"

Take ==
  /\ Doing("queued") /\ power # "starting"
  /\ \/ Valid /\ Goto(FirstPlace) /\ UNCHANGED receipt
     \/ ~Valid /\ Settle("failed")
  /\ UNCHANGED <<files, power, lowered>>

\* A snapshot is written aside and then renamed.
Copy ==
  /\ Doing("copy")
  /\ art' = [art EXCEPT ![op.snap] = disk]
  /\ Goto("publish")
  /\ UNCHANGED <<disk, conf, stage, manifest, receipt, power, lowered>>

Publish ==
  /\ Doing("publish")
  /\ manifest' = [manifest EXCEPT ![op.snap] = art[op.snap]]
  /\ Goto("complete")
  /\ UNCHANGED <<disk, conf, stage, art, receipt, power, lowered>>

\* Faulty variant of Stage: a copy that stopped early is taken for complete.
StageUnchecked ==
  /\ Doing("stage")
  /\ IF KeepsDisk
     THEN Goto("prepare") /\ UNCHANGED stage
     ELSE Goto("prepare") /\ stage' = [stage EXCEPT ![op.verb] = Partial]
  /\ UNCHANGED <<disk, conf, manifest, art, receipt, power, lowered>>

\* A staging file is begun.
Stage ==
  /\ Doing("stage")
  /\ IF KeepsDisk
     THEN Goto("prepare") /\ UNCHANGED stage
     ELSE Goto("fill") /\ stage' = [stage EXCEPT ![op.verb] = Partial]
  /\ UNCHANGED <<disk, conf, manifest, art, receipt, power, lowered>>

\* Faulty variant of Fill: a restored disk keeps the size of its snapshot.
FillShrunk ==
  /\ Doing("fill")
  /\ stage' = [stage EXCEPT ![op.verb] =
                 IF op.verb = "restore" THEN manifest[op.snap]
                                        ELSE [data |-> disk.data, size |-> op.size]]
  /\ Goto("prepare")
  /\ UNCHANGED <<disk, conf, manifest, art, receipt, power, lowered>>

\* A restored copy is grown to the allocation, a resized one to its new size.
Fill ==
  /\ Doing("fill")
  /\ stage' = [stage EXCEPT ![op.verb] =
                 IF op.verb = "restore" THEN [data |-> manifest[op.snap].data, size |-> Allocation]
                                        ELSE [data |-> disk.data, size |-> op.size]]
  /\ Goto("prepare")
  /\ UNCHANGED <<disk, conf, manifest, art, receipt, power, lowered>>

\* The receipt is bound to the staged file.
Prepare ==
  /\ Doing("prepare")
  /\ receipt' = [receipt EXCEPT ![op].prepared = IF KeepsDisk THEN disk ELSE stage[op.verb]]
  /\ Goto(IF KeepsDisk THEN "configure" ELSE "swap")
  /\ UNCHANGED <<files, power, lowered>>

\* Faulty variant of Replay: only a staged file can be committed.
ReplayStaged ==
  /\ Doing("replay")
  /\ stage[op.verb] = receipt[op].prepared
  /\ Goto("swap")
  /\ UNCHANGED <<files, receipt, power, lowered>>

\* Faulty variant of Replay: a disk that is already exchanged ends a resize.
ReplayWithoutConfigure ==
  /\ Doing("replay")
  /\ LET left == IF KeepsDisk THEN NoFile ELSE stage[op.verb]
     IN  \/ left # NoFile /\ left = receipt[op].prepared /\ Goto("swap") /\ UNCHANGED receipt
         \/ left = NoFile /\ disk = receipt[op].prepared /\ Goto("complete") /\ UNCHANGED receipt
         \/ (IF left # NoFile THEN left ELSE disk) # receipt[op].prepared /\ Settle("failed")
  /\ UNCHANGED <<files, power, lowered>>

\* A prepared receipt is taken up again: the staged file is still there, or
\* the disk already is that file.
Replay ==
  /\ Doing("replay")
  /\ LET left == IF KeepsDisk THEN NoFile ELSE stage[op.verb]
     IN  \/ left # NoFile /\ left = receipt[op].prepared /\ Goto("swap") /\ UNCHANGED receipt
         \/ left = NoFile /\ disk = receipt[op].prepared
              /\ Goto(IF op.verb = "resize" THEN "configure" ELSE "complete") /\ UNCHANGED receipt
         \/ (IF left # NoFile THEN left ELSE disk) # receipt[op].prepared /\ Settle("failed")
  /\ UNCHANGED <<files, power, lowered>>

Swap ==
  /\ Doing("swap")
  /\ disk' = stage[op.verb]
  /\ stage' = [stage EXCEPT ![op.verb] = NoFile]
  /\ Goto(IF op.verb = "resize" THEN "configure" ELSE "complete")
  /\ UNCHANGED <<conf, manifest, art, receipt, power, lowered>>

Configure ==
  /\ Doing("configure")
  /\ conf' = op.size
  /\ Goto("complete")
  /\ UNCHANGED <<disk, stage, manifest, art, receipt, power, lowered>>

\* rmtree removes the files of a snapshot in any order.
Delete ==
  /\ Doing("delete")
  /\ \/ /\ manifest[op.snap] # NoFile
        /\ manifest' = [manifest EXCEPT ![op.snap] = NoFile]
        /\ UNCHANGED <<art, work>>
     \/ /\ art[op.snap] # NoFile
        /\ art' = [art EXCEPT ![op.snap] = NoFile]
        /\ UNCHANGED <<manifest, work>>
     \/ /\ manifest[op.snap] = NoFile /\ art[op.snap] = NoFile
        /\ Goto("complete")
        /\ UNCHANGED <<manifest, art>>
  /\ UNCHANGED <<disk, conf, stage, receipt, power, lowered>>

Complete ==
  /\ Doing("complete")
  /\ Settle("completed")
  /\ UNCHANGED <<files, power, lowered>>

\* An error in a transform fails the operation, unless its commit is already
\* prepared: then only an OSError is left, and the receipt stays pending.
Breaks ==
  /\ work.at \notin {"idle", "queued", "replay"}
  /\ Discard
  /\ IF op.verb \in Staged /\ Prepared(op) THEN work' = NoWork /\ UNCHANGED receipt
                                           ELSE Settle("failed")
  /\ UNCHANGED <<disk, conf, manifest, art, power, lowered>>

\* The supervisor dies and the next one relaunches what is pending; a start
\* that was under way has launched QEMU or not.
Crash ==
  /\ \/ \E o \in Operations : Pending(o) /\ work' = [op |-> o, at |-> "queued"]
     \/ (\A o \in Operations : ~Pending(o)) /\ work' = NoWork
  /\ power' \in IF power = "starting" THEN {"on", "off"} ELSE {power}
  /\ lowered' \in IF Operator THEN BOOLEAN ELSE {lowered}
  /\ UNCHANGED <<files, receipt>>

Transform == Copy \/ Publish \/ Stage \/ Fill \/ Prepare \/ Replay \/ Swap
               \/ Configure \/ Delete \/ Complete

Next ==
  \/ \E o \in Operations : Submit(o) \/ Resubmit(o)
  \/ Start \/ Started \/ GuestWrites \/ PowerOff
  \/ Take \/ Transform \/ Breaks \/ Crash

Spec == Init /\ [][Next]_vars
-----------------------------------------------------------------------------
(* Fairness.  Requests are repeated until they are answered, starts under   *)
(* way end, workers go on, and they are not broken for ever.                *)

Fairness ==
  /\ WF_vars(\E o \in Operations : Resubmit(o))
  /\ WF_vars(Started)
  /\ WF_vars(Take \/ Transform)
  /\ <>[][Breaks \/ Crash => Take \/ Transform]_vars

FairSpec == Spec /\ Fairness
-----------------------------------------------------------------------------
(* Properties. *)

NothingPending == \A o \in Operations : ~Pending(o)

\* The open operation has exchanged the disk.
Applied == \E o \in Operations : Pending(o) /\ Prepared(o) /\ stage[o.verb] = NoFile

\* Whenever no operation is pending, machine.json and the disk agree about
\* the allocation, so that the next limit is computed from the right one.
SizesAgree == NothingPending => conf = disk.size

\* A published snapshot is what it was published as: its artifact is there
\* and fits its manifest, unless its deletion was begun.
SnapshotsIntact ==
  \A s \in Snaps :
    manifest[s] # NoFile => \/ art[s] = manifest[s]
                            \/ \E o \in Operations : /\ o.verb = "snapshot-delete" /\ o.snap = s
                                                     /\ receipt[o].status # "none"

\* A settled operation leaves no staging file for a later one to trip over.
StagesDiscarded == NothingPending => \A v \in Staged : stage[v] = NoFile

\* A failure says that the disk is the old one.
FailedKeepsDisk ==
  [][\A o \in Operations : Pending(o) /\ receipt'[o].status = "failed" => ~Applied]_vars

\* Every operation that was accepted is answered in the end.
Settles == []<>NothingPending

-----------------------------------------------------------------------------
(* To its clients the journal is AtomicDisk. *)

Answers == [o \in Operations |-> IF Pending(o) THEN "open" ELSE receipt[o].status]

Disk == INSTANCE AtomicDisk WITH
  catalog <- manifest, status <- Answers, applied <- Applied, None <- NoFile

ImplementsAtomicDisk == Disk!AtomicSpec
=============================================================================
