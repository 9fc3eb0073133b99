------------------------ MODULE NativeStorage_proofs ------------------------
(***************************************************************************)
(* Proofs about NativeStorage, for any operations, contents and sizes, and *)
(* a crash or an error at every step: the inductive invariant that says    *)
(* what is on disk at each place of the worker, and from it that sizes     *)
(* agree, stages are discarded, artifacts stay intact, failures keep the   *)
(* disk, and that the transforms implement AtomicDisk.  Types and          *)
(* artifacts hold whatever the operator does; the rest, as long as the     *)
(* limits are not lowered under a resize that has begun.                   *)
(***************************************************************************)
EXTENDS NativeStorage, TLAPS

\* The operator's limits cover a resize from its first staged byte to its
\* answer: they are not lowered while one is under way.
Covered ==
  \A o \in Operations :
    Pending(o) /\ o.verb = "resize" /\ (Prepared(o) \/ stage["resize"] # NoFile) => ~lowered
-----------------------------------------------------------------------------
(* The part of the invariant that no lowered limit can break. *)

\* The worker has an operation that is pending, or nothing to do.
Working ==
  /\ work.op = None => work = NoWork
  /\ work.op # None => Pending(op) /\ work.at # "idle"

\* What a step of the worker needs, to leave whole files behind.
Sound ==
  /\ work.at = "copy" => manifest[op.snap] = NoFile
  /\ work.at \in {"stage", "fill", "prepare", "replay", "swap"} => op.verb \in Staged
  /\ work.at \in {"stage", "fill"} /\ op.verb = "restore" => manifest[op.snap] # NoFile
  /\ work.at = "prepare" => KeepsDisk \/ stage[op.verb] \in File
  /\ work.at = "swap" => stage[op.verb] \in File
  /\ work.at = "delete" => op.verb = "snapshot-delete"

Core == TypeOK /\ Working /\ Sound /\ SnapshotsIntact
-----------------------------------------------------------------------------
(* The inductive invariant of the whole. *)

OneOpen == \A o, p \in Operations : Pending(o) /\ Pending(p) => o = p

\* Only a disk operation that was accepted is bound to a commit.
Bound == \A o \in Operations : Prepared(o) => o.verb \in Staged /\ receipt[o].status # "none"

\* A snapshot that can be restored onto the disk as it is.
Restorable(s) ==
  manifest[s] # NoFile /\ art[s] = manifest[s] /\ manifest[s].size <= disk.size

\* What a restore or a resize makes of the disk as it is.
Target(o) == IF o.verb = "restore" THEN [data |-> manifest[o.snap].data, size |-> disk.size]
                                   ELSE [data |-> disk.data, size |-> o.size]

\* A stage belongs to the open operation, whose replay is still valid.
Stages ==
  \A v \in Staged : stage[v] # NoFile =>
    \E o \in Operations : /\ Pending(o) /\ o.verb = v /\ power = "off"
                          /\ v = "restore" => Restorable(o.snap)
                          /\ v = "resize" => o.size > disk.size

\* A commit that was prepared is either still staged, and is the target, or
\* it is the disk; and all that time the machine is off.
Committed(o) ==
  /\ power = "off"
  /\ o.verb = "restore" => Restorable(o.snap) /\ conf = disk.size
  /\ o.verb = "resize" => o.size >= disk.size
  /\ \/ /\ stage[o.verb] # NoFile /\ conf = disk.size
        /\ stage[o.verb] = receipt[o].prepared /\ receipt[o].prepared = Target(o)
        /\ o.verb = "resize" => o.size > disk.size
     \/ /\ stage[o.verb] = NoFile /\ receipt[o].prepared = disk
        /\ o.verb = "resize" => o.size = disk.size

Commits == \A o \in Operations : Pending(o) /\ Prepared(o) => Committed(o)

SizesKept ==
  (\A o \in Operations : Pending(o) => ~Prepared(o)) => conf = disk.size

\* What each place of the worker has established.
Placed ==
  /\ work.at \notin {"idle", "queued"} /\ NeedsStopped(op) => power = "off"
  /\ work.at \in {"copy", "publish"} => op.verb = "snapshot" /\ manifest[op.snap] = NoFile
  /\ work.at = "publish" => art[op.snap] = disk
  /\ work.at \in {"stage", "fill", "prepare"} =>
       /\ op.verb \in Staged /\ ~Prepared(op)
       /\ op.verb = "restore" => Restorable(op.snap)
       /\ op.verb = "resize" => op.size >= disk.size
  /\ work.at = "fill" => ~KeepsDisk
  /\ work.at = "prepare" => stage[op.verb] = IF KeepsDisk THEN NoFile ELSE Target(op)
  /\ work.at \in {"replay", "swap", "configure"} => op.verb \in Staged /\ Prepared(op)
  /\ work.at = "swap" => stage[op.verb] # NoFile
  /\ work.at = "configure" => op.verb = "resize" /\ stage[op.verb] = NoFile
  /\ work.at = "delete" => op.verb = "snapshot-delete"
  /\ work.at = "complete" =>
       /\ op.verb = "snapshot" => manifest[op.snap] # NoFile
       /\ op.verb = "snapshot-delete" => manifest[op.snap] = NoFile
       /\ op.verb \in Staged => Prepared(op) /\ stage[op.verb] = NoFile /\ conf = disk.size

IInv == /\ TypeOK
        /\ OneOpen /\ Bound /\ Working /\ Stages /\ Commits /\ SizesKept /\ Placed
        /\ SnapshotsIntact
-----------------------------------------------------------------------------
(* Types, and what is known of the operation at work. *)

LEMMA OperationFields ==
  \A o \in Operations : /\ o.verb \in Verbs /\ o.snap \in Snaps /\ o.size \in Nat
                        /\ o # None
  BY OperationsAssumption, NoneAssumption DEF Operation

LEMMA FilesDiffer == NoFile \notin File /\ Partial \notin File /\ NoFile # Partial
  BY NoneAssumption DEF File, NoFile, Partial

\* Only a pending operation is at work.
LEMMA AtWork ==
  ASSUME TypeOK, Working, work.at # "idle"
  PROVE  /\ op \in Operations /\ Pending(op) /\ receipt[op] \in Receipt
         /\ op.verb \in Verbs /\ op.snap \in Snaps /\ op.size \in Nat
  BY OperationFields DEF TypeOK, Working, NoWork, op

\* Settling the operation at work keeps the types.
LEMMA SettleType ==
  ASSUME TypeOK, NEW result \in {"completed", "failed"}, Settle(result)
  PROVE  receipt' \in [Operations -> Receipt] /\ work' \in [op : Operations \cup {None}, at : Places]
  BY DEF TypeOK, Settle, Receipt, NoWork, Places

LEMMA InitCore == Init => Core
<1> SUFFICES ASSUME Init PROVE Core OBVIOUS
<1>1. TypeOK
  BY ContentsAssumption DEF Init, TypeOK, File, Receipt, NoWork, Places
<1> QED BY <1>1 DEF Init, Core, Working, Sound, SnapshotsIntact, NoWork, op

\* The worker lets go: nothing is asked of the place it was at.
LEMMA LetGo ==
  ASSUME TypeOK', SnapshotsIntact', work' = NoWork PROVE Core'
  BY DEF Core, Working, Sound, NoWork, op

\* Settling the operation at work takes no snapshot's excuse away.
LEMMA SettleKeepsSnapshots ==
  ASSUME Core, work.at # "idle", NEW result \in {"completed", "failed"}, Settle(result),
         UNCHANGED <<manifest, art>>
  PROVE  SnapshotsIntact'
<1>1. op \in Operations
  BY AtWork DEF Core
<1>2. \A o \in Operations : receipt[o].status # "none" => receipt'[o].status # "none"
  BY <1>1 DEF Settle, Core, TypeOK, Receipt
<1> QED BY <1>2 DEF Core, SnapshotsIntact

\* The worker goes on with the operation it has.
LEMMA StillWorking ==
  ASSUME Core, work.at # "idle", NEW place, place # "idle",
         work' = [op |-> work.op, at |-> place], receipt'[op].status = "pending"
  PROVE  Working' /\ op' = op /\ work'.at = place
  BY DEF Core, Working, Pending, NoWork, op

\* A step of the worker that leaves requests and snapshots alone.
LEMMA Moves ==
  ASSUME Core, TypeOK', work.at # "idle", NEW place \in Places \ {"idle"}, Goto(place),
         UNCHANGED <<manifest, art, receipt>>, Sound'
  PROVE  Core'
<1>1. work' = [op |-> work.op, at |-> place] /\ work.op # None
  BY DEF Goto, Core, TypeOK, Working, NoWork
<1>2. op' = op
  BY <1>1 DEF op
<1>3. Working'
  BY <1>1, <1>2 DEF Working, Core, Pending, op
<1>4. SnapshotsIntact'
  BY DEF Core, SnapshotsIntact
<1> QED BY <1>3, <1>4 DEF Core

\* The types of what is staged.
LEMMA FillType ==
  ASSUME Core, Fill
  PROVE  stage' = [stage EXCEPT ![op.verb] = stage'[op.verb]] /\ op.verb \in Staged
         /\ stage'[op.verb] \in File
<1>1. /\ op \in Operations /\ op.verb \in Staged /\ op.snap \in Snaps /\ op.size \in Nat
      /\ op.verb = "restore" => manifest[op.snap] # NoFile
  BY AtWork DEF Core, Sound, Fill, Doing
<1>2. Allocation \in Nat
  BY DEF Allocation, Core, TypeOK, File
<1>3. op.verb = "restore" => manifest[op.snap] \in File
  BY <1>1 DEF Core, TypeOK
<1> DEFINE filled == IF op.verb = "restore" THEN [data |-> manifest[op.snap].data, size |-> Allocation]
                                            ELSE [data |-> disk.data, size |-> op.size]
<1>4. filled \in File
  BY <1>1, <1>2, <1>3 DEF Core, TypeOK, File
<1>5. stage' = [stage EXCEPT ![op.verb] = filled]
  BY DEF Fill
<1> HIDE DEF filled
<1> QED BY <1>1, <1>4, <1>5 DEF Core, TypeOK

LEMMA CoreStep == Core /\ [Next]_vars => Core'
<1> SUFFICES ASSUME Core, [Next]_vars PROVE Core' OBVIOUS
<1>0. TypeOK /\ Working /\ Sound /\ SnapshotsIntact BY DEF Core
<1>1. ASSUME NEW o \in Operations, Submit(o) PROVE Core'
  <2>1. receipt' \in [Operations -> Receipt] /\ o # None
    BY <1>0, <1>1, OperationFields DEF Submit, Receipt, TypeOK
  <2>2. work' = [op |-> o, at |-> "queued"] /\ op' = o /\ receipt'[o].status = "pending"
    BY <1>0, <1>1 DEF Submit, TypeOK, Receipt, op
  <2>3. TypeOK'
    BY <1>0, <1>1, <2>1, <2>2 DEF Submit, files, TypeOK, Places
  <2>4. \A p \in Operations : receipt[p].status # "none" => receipt'[p].status # "none"
    BY <1>0, <1>1 DEF Submit, TypeOK, Receipt
  <2>5. SnapshotsIntact'
    BY <1>0, <1>1, <2>4 DEF Submit, files, SnapshotsIntact
  <2>6. Working' /\ Sound'
    BY <2>1, <2>2 DEF Working, Sound, Pending, op
  <2> QED BY <2>3, <2>5, <2>6 DEF Core
<1>2. ASSUME NEW o \in Operations, Resubmit(o) PROVE Core'
  <2>1. work' = [op |-> o, at |-> "queued"] /\ op' = o /\ o # None
    BY <1>2, OperationFields DEF Resubmit, op
  <2>2. TypeOK' /\ SnapshotsIntact'
    BY <1>0, <1>2, <2>1 DEF Resubmit, files, TypeOK, Places, SnapshotsIntact
  <2>3. Working' /\ Sound'
    BY <1>2, <2>1 DEF Resubmit, Working, Sound, Pending, op
  <2> QED BY <2>2, <2>3 DEF Core
<1>3. CASE Start \/ Started \/ PowerOff \/ UNCHANGED vars
  BY <1>0, <1>3 DEF Start, Started, PowerOff, vars, files, Core, TypeOK, Working, Sound,
                    SnapshotsIntact, Pending, KeepsDisk, op
<1>4. CASE GuestWrites
  <2>1. disk' \in File /\ disk'.size = disk.size
    BY <1>0, <1>4 DEF GuestWrites, TypeOK, File
  <2> QED BY <1>0, <1>4, <2>1 DEF GuestWrites, Core, TypeOK, Working, Sound, SnapshotsIntact,
                                  Pending, KeepsDisk, op
<1>5. CASE Take
  <2>1. op \in Operations /\ op.verb \in Verbs /\ work.at = "queued" /\ UNCHANGED <<files, power, lowered>>
    BY <1>0, <1>5, AtWork DEF Take, Doing
  <2>2. CASE Valid /\ Goto(FirstPlace) /\ UNCHANGED receipt
    <3>1. FirstPlace \in Places \ {"idle"}
      BY <2>1 DEF FirstPlace, Places, Verbs, Staged
    <3>2. work' = [op |-> work.op, at |-> FirstPlace] /\ op' = op
      BY <1>0, <2>2 DEF Goto, TypeOK, op
    <3>3. TypeOK'
      BY <1>0, <2>1, <2>2, <3>1, <3>2 DEF TypeOK, files
    <3>4. Sound'
      BY <2>1, <2>2, <3>2 DEF Sound, FirstPlace, Valid, Verbs, Staged, files
    <3> QED BY <2>1, <2>2, <3>1, <3>3, <3>4, Moves DEF files
  <2>3. CASE ~Valid /\ Settle("failed")
    <3>1. TypeOK'
      BY <1>0, <2>1, <2>3, SettleType DEF TypeOK, files
    <3> QED BY <2>1, <2>3, <3>1, LetGo, SettleKeepsSnapshots DEF Settle, files
  <2> QED BY <1>5, <2>2, <2>3 DEF Take
<1>6. CASE Copy
  <2>1. /\ op.snap \in Snaps /\ manifest[op.snap] = NoFile /\ work.at = "copy" /\ op' = op
        /\ work' = [op |-> work.op, at |-> "publish"]
    BY <1>0, <1>6, AtWork DEF Copy, Doing, Goto, Sound, TypeOK, op
  <2>2. TypeOK' /\ SnapshotsIntact'
    BY <1>0, <1>6, <2>1 DEF Copy, TypeOK, SnapshotsIntact, Places
  <2>3. Working'
    BY <1>6, <2>1, StillWorking, AtWork DEF Copy, Core, Pending
  <2>4. Sound'
    BY <2>1 DEF Sound
  <2> QED BY <2>2, <2>3, <2>4 DEF Core
<1>7. CASE Publish
  <2>1. /\ op.snap \in Snaps /\ work.at = "publish" /\ op' = op
        /\ work' = [op |-> work.op, at |-> "complete"]
    BY <1>0, <1>7, AtWork DEF Publish, Doing, Goto, TypeOK, op
  <2>2. TypeOK' /\ SnapshotsIntact'
    BY <1>0, <1>7, <2>1 DEF Publish, TypeOK, SnapshotsIntact, Places
  <2>3. Working'
    BY <1>7, <2>1, StillWorking, AtWork DEF Publish, Core, Pending
  <2>4. Sound'
    BY <2>1 DEF Sound
  <2> QED BY <2>2, <2>3, <2>4 DEF Core
<1>8. CASE Stage
  <2>1. /\ op.verb \in Staged /\ work.at = "stage" /\ UNCHANGED <<disk, manifest, art, receipt>>
        /\ op.verb = "restore" => manifest[op.snap] # NoFile
    BY <1>0, <1>8 DEF Stage, Doing, Sound
  <2>2. PICK place \in {"prepare", "fill"} : Goto(place) /\ (place = "prepare" => KeepsDisk)
    BY <1>8 DEF Stage
  <2>3. work' = [op |-> work.op, at |-> place] /\ op' = op
    BY <1>0, <2>2 DEF Goto, TypeOK, op
  <2>4. TypeOK'
    BY <1>0, <1>8, <2>1, <2>3 DEF Stage, TypeOK, Places
  <2>5. Sound'
    BY <2>1, <2>2, <2>3 DEF Sound, KeepsDisk
  <2> QED BY <2>1, <2>2, <2>4, <2>5, Moves DEF Places
<1>9. CASE Fill
  <2>1. op.verb \in Staged /\ work.at = "fill" /\ UNCHANGED <<disk, conf, manifest, art, receipt, power, lowered>>
    BY <1>9, FillType DEF Fill, Doing
  <2>2. work' = [op |-> work.op, at |-> "prepare"] /\ op' = op /\ Goto("prepare")
    BY <1>0, <1>9 DEF Fill, Goto, TypeOK, op
  <2>3. TypeOK'
    BY <1>0, <1>9, <2>1, <2>2, FillType DEF TypeOK, Places
  <2>4. Sound'
    BY <1>9, <2>1, <2>2, FillType DEF Sound
  <2> QED BY <2>1, <2>2, <2>3, <2>4, Moves DEF Places
<1>10. CASE Prepare
  <2>1. /\ op \in Operations /\ Pending(op) /\ op.verb \in Staged /\ work.at = "prepare"
        /\ KeepsDisk \/ stage[op.verb] \in File
        /\ UNCHANGED <<disk, conf, stage, manifest, art, power, lowered>>
    BY <1>0, <1>10, AtWork DEF Prepare, Doing, Sound, files
  <2>2. /\ \A o \in Operations : receipt'[o].status = receipt[o].status
        /\ receipt' \in [Operations -> Receipt]
    BY <1>0, <1>10, <2>1 DEF Prepare, TypeOK, Receipt
  <2>3. /\ work' = [op |-> work.op, at |-> IF KeepsDisk THEN "configure" ELSE "swap"]
        /\ op' = op
    BY <1>0, <1>10 DEF Prepare, Goto, TypeOK, op
  <2>4. TypeOK'
    BY <1>0, <2>1, <2>2, <2>3 DEF TypeOK, Places
  <2>5. Working' /\ Sound'
    <3>1. receipt'[op].status = "pending"
      BY <2>1, <2>2 DEF Pending
    <3>2. Working'
      BY <2>1, <2>3, <3>1, StillWorking
    <3> QED BY <2>1, <2>3, <3>2 DEF Sound
  <2>6. SnapshotsIntact'
    BY <1>0, <2>1, <2>2 DEF SnapshotsIntact
  <2> QED BY <2>4, <2>5, <2>6 DEF Core
<1>11. CASE Replay
  <2>1. /\ op.verb \in Staged /\ op \in Operations /\ work.at = "replay"
        /\ UNCHANGED <<files, power, lowered>>
    BY <1>0, <1>11, AtWork DEF Replay, Doing, Sound
  <2>2. CASE Settle("failed")
    <3>1. TypeOK'
      BY <1>0, <2>1, <2>2, SettleType DEF TypeOK, files
    <3> QED BY <2>1, <2>2, <3>1, LetGo, SettleKeepsSnapshots DEF Settle, files, Core
  <2>3. CASE /\ Goto("swap") /\ UNCHANGED receipt
             /\ stage[op.verb] # NoFile /\ stage[op.verb] = receipt[op].prepared
    <3>1. work' = [op |-> work.op, at |-> "swap"] /\ op' = op
      BY <1>0, <2>3 DEF Goto, TypeOK, op
    <3>2. stage[op.verb] \in File
      BY <1>0, <2>1, <2>3 DEF TypeOK, Receipt
    <3>3. TypeOK' /\ Sound'
      BY <1>0, <2>1, <2>3, <3>1, <3>2 DEF TypeOK, Places, Sound, files
    <3> QED BY <2>1, <2>3, <3>3, Moves DEF Places, files
  <2>4. CASE UNCHANGED receipt /\ \E place \in {"configure", "complete"} : Goto(place)
    <3>1. PICK place \in {"configure", "complete"} : Goto(place)
      BY <2>4
    <3>2. work' = [op |-> work.op, at |-> place] /\ op' = op
      BY <1>0, <3>1 DEF Goto, TypeOK, op
    <3>3. TypeOK' /\ Sound'
      BY <1>0, <2>1, <2>4, <3>2 DEF TypeOK, Places, Sound, files
    <3> QED BY <2>1, <2>4, <3>1, <3>3, Moves DEF Places, files
  <2> QED BY <1>11, <2>2, <2>3, <2>4 DEF Replay
<1>12. CASE Swap
  <2>1. /\ work.at = "swap" /\ op.verb \in Staged /\ stage[op.verb] \in File
        /\ UNCHANGED <<manifest, art, receipt>>
    BY <1>0, <1>12 DEF Swap, Doing, Sound
  <2>2. PICK place \in {"configure", "complete"} : Goto(place)
    BY <1>12 DEF Swap
  <2>3. work' = [op |-> work.op, at |-> place] /\ op' = op
    BY <1>0, <2>2 DEF Goto, TypeOK, op
  <2>4. TypeOK' /\ Sound'
    BY <1>0, <1>12, <2>1, <2>3 DEF Swap, TypeOK, Places, Sound
  <2> QED BY <2>1, <2>2, <2>4, Moves DEF Places
<1>13. CASE Configure
  <2>1. work.at = "configure" /\ op.size \in Nat /\ UNCHANGED <<manifest, art, receipt>>
    BY <1>0, <1>13, AtWork DEF Configure, Doing
  <2>2. Goto("complete") /\ work' = [op |-> work.op, at |-> "complete"]
    BY <1>0, <1>13 DEF Configure, Goto, TypeOK
  <2>3. TypeOK' /\ Sound'
    BY <1>0, <1>13, <2>1, <2>2 DEF Configure, TypeOK, Places, Sound
  <2> QED BY <2>1, <2>2, <2>3, Moves DEF Places
<1>14. CASE Delete
  <2>1. /\ op \in Operations /\ Pending(op) /\ op.verb = "snapshot-delete" /\ op.snap \in Snaps
        /\ work.at = "delete" /\ UNCHANGED <<disk, conf, stage, receipt, power, lowered>>
    BY <1>0, <1>14, AtWork DEF Delete, Doing, Sound
  <2>2. /\ work' \in {work, [op |-> work.op, at |-> "complete"]} /\ op' = op
        /\ \A s \in Snaps : s # op.snap => manifest'[s] = manifest[s] /\ art'[s] = art[s]
    BY <1>0, <1>14, <2>1 DEF Delete, Goto, TypeOK, op
  <2>3. TypeOK'
    BY <1>0, <1>14, <2>1, <2>2 DEF Delete, TypeOK, Places
  <2>4. SnapshotsIntact'
    <3> SUFFICES ASSUME NEW s \in Snaps, manifest'[s] # NoFile
                 PROVE  \/ art'[s] = manifest'[s]
                        \/ \E o \in Operations : /\ o.verb = "snapshot-delete" /\ o.snap = s
                                                 /\ receipt'[o].status # "none"
      BY DEF SnapshotsIntact
    <3>1. CASE s = op.snap
      BY <2>1, <3>1 DEF Pending
    <3>2. CASE s # op.snap
      BY <1>0, <2>1, <2>2, <3>2 DEF SnapshotsIntact
    <3> QED BY <3>1, <3>2
  <2>5. Working' /\ Sound'
    <3>1. PICK place \in {"delete", "complete"} : work' = [op |-> work.op, at |-> place]
      BY <1>0, <2>1, <2>2 DEF TypeOK
    <3>2. Working'
      BY <2>1, <3>1, StillWorking DEF Pending
    <3> QED BY <2>1, <3>1, <3>2, <2>2 DEF Sound
  <2> QED BY <2>3, <2>4, <2>5 DEF Core
<1>15. CASE Complete
  <2>1. Settle("completed") /\ work.at = "complete" /\ UNCHANGED <<files, power, lowered>>
    BY <1>15 DEF Complete, Doing
  <2>2. TypeOK'
    BY <1>0, <2>1, SettleType DEF TypeOK, files
  <2> QED BY <2>1, <2>2, LetGo, SettleKeepsSnapshots DEF Settle, files
<1>16. CASE Breaks
  <2>1. /\ work.at # "idle" /\ UNCHANGED <<disk, conf, manifest, art, power, lowered>>
        /\ stage' \in [Staged -> File \cup {NoFile, Partial}]
    BY <1>0, <1>16 DEF Breaks, Discard, TypeOK
  <2>2. CASE work' = NoWork /\ UNCHANGED receipt
    BY <1>0, <2>1, <2>2, LetGo DEF TypeOK, NoWork, Places, SnapshotsIntact
  <2>3. CASE Settle("failed")
    <3>1. TypeOK'
      BY <1>0, <2>1, <2>3, SettleType DEF TypeOK
    <3> QED BY <2>1, <2>3, <3>1, LetGo, SettleKeepsSnapshots DEF Settle
  <2> QED BY <1>16, <2>2, <2>3 DEF Breaks
<1>17. CASE Crash
  <2>1. TypeOK' /\ SnapshotsIntact'
    BY <1>0, <1>17, OperatorAssumption DEF Crash, files, TypeOK, NoWork, Places, SnapshotsIntact
  <2>2. CASE work' = NoWork
    BY <2>1, <2>2, LetGo
  <2>3. ASSUME NEW o \in Operations, Pending(o), work' = [op |-> o, at |-> "queued"] PROVE Core'
    <3>1. Pending(o)' /\ op' = o /\ o # None
      BY <1>17, <2>3, OperationFields DEF Crash, Pending, op
    <3> QED BY <2>1, <2>3, <3>1 DEF Core, Working, Sound, op
  <2> QED BY <1>17, <2>2, <2>3 DEF Crash
<1> QED
  BY <1>1, <1>2, <1>3, <1>4, <1>5, <1>6, <1>7, <1>8, <1>9, <1>10, <1>11, <1>12, <1>13,
     <1>14, <1>15, <1>16, <1>17 DEF Next, Transform

\* Whatever the operator does to the limits, the worker has an operation that
\* is pending or nothing to do, and published artifacts are intact.
THEOREM CoreHolds == Spec => []Core
BY InitCore, CoreStep, PTL DEF Spec

\* Every variable keeps its type.
THEOREM TypeCorrect == Spec => []TypeOK
BY CoreHolds, PTL DEF Core

\* The artifact of a published snapshot fits its manifest until its deletion
\* is asked for, whatever crashes and whatever limit is lowered.
THEOREM SnapshotsStayIntact == Spec => []SnapshotsIntact
BY CoreHolds, PTL DEF Core
-----------------------------------------------------------------------------
(* What the transforms make of the disk. *)

\* What is staged in the end is a whole file.
LEMMA TargetType ==
  ASSUME TypeOK, NEW o \in Operations, o.verb = "restore" => Restorable(o.snap)
  PROVE  Target(o) \in File
  BY OperationFields DEF TypeOK, Target, Restorable, File

\* The allocation of a disk is its size, unless a resize is being committed.
LEMMA AllocationIsSize ==
  ASSUME TypeOK, conf = disk.size
  PROVE  Allocation = disk.size
  BY DEF Allocation

\* A filled stage is the target of its operation.
LEMMA FillsTarget ==
  ASSUME IInv, Fill
  PROVE  /\ stage' = [stage EXCEPT ![op.verb] = Target(op)]
         /\ Target(op) \in File /\ op.verb \in Staged /\ ~Prepared(op) /\ ~KeepsDisk
         /\ conf = disk.size
<1> USE DEF IInv, Doing
<1>1. op \in Operations /\ Pending(op)
  BY AtWork DEF Fill
<1>2. op.verb \in Staged /\ ~Prepared(op) /\ ~KeepsDisk /\ (op.verb = "restore" => Restorable(op.snap))
  BY DEF Fill, Placed
<1>3. conf = disk.size
  BY <1>1, <1>2 DEF SizesKept, OneOpen
<1>4. Allocation = disk.size
  BY <1>3, AllocationIsSize
<1>5. stage' = [stage EXCEPT ![op.verb] = Target(op)]
  BY <1>4 DEF Fill, Target
<1> QED BY <1>1, <1>2, <1>3, <1>5, TargetType

\* What is exchanged for the disk is the target of a prepared commit.
LEMMA SwapsTarget ==
  ASSUME IInv, Swap
  PROVE  /\ op \in Operations /\ Pending(op) /\ op.verb \in Staged /\ Prepared(op)
         /\ disk' = Target(op) /\ disk' = receipt[op].prepared /\ disk' \in File
         /\ power = "off" /\ conf = disk.size
         /\ op.verb = "restore" => Restorable(op.snap)
         /\ op.verb = "resize" => op.size > disk.size
<1> USE DEF IInv, Doing
<1>1. op \in Operations /\ Pending(op)
  BY AtWork DEF Swap
<1>2. op.verb \in Staged /\ Prepared(op) /\ stage[op.verb] # NoFile
  BY DEF Swap, Placed
<1>3. Committed(op)
  BY <1>1, <1>2 DEF Commits
<1>4. /\ power = "off" /\ conf = disk.size /\ stage[op.verb] = receipt[op].prepared
      /\ receipt[op].prepared = Target(op)
      /\ op.verb = "restore" => Restorable(op.snap)
      /\ op.verb = "resize" => op.size > disk.size
  BY <1>2, <1>3 DEF Committed
<1> QED BY <1>1, <1>2, <1>4, TargetType DEF Swap
-----------------------------------------------------------------------------
(* The invariant is inductive. *)

LEMMA InitIInv == Init => IInv
<1> SUFFICES ASSUME Init PROVE IInv OBVIOUS
<1>1. \A o \in Operations : ~Pending(o) /\ ~Prepared(o)
  BY DEF Init, Pending, Prepared
<1>2. TypeOK
  BY InitCore DEF Core
<1>3. \A v \in Staged : stage[v] = NoFile
  BY DEF Init
<1>4. SnapshotsIntact
  BY DEF Init, SnapshotsIntact
<1> QED
  BY <1>1, <1>2, <1>3, <1>4
  DEF Init, IInv, OneOpen, Bound, Working, Stages, Commits, SizesKept, Placed, NoWork, op

\* A prepared commit passes the checks of its replay.
LEMMA PreparedIsValid ==
  ASSUME IInv, Covered, work.at # "idle", Prepared(op) \/ (op.verb \in Staged /\ stage[op.verb] # NoFile)
  PROVE  Valid
<1>1. op \in Operations /\ Pending(op) /\ op.verb \in Staged /\ op.snap \in Snaps
  BY AtWork DEF IInv, Bound
<1>2. /\ power = "off"
      /\ op.verb = "restore" => Restorable(op.snap)
      /\ op.verb = "resize" => op.size >= disk.size
  <2>1. CASE Prepared(op)
    BY <1>1, <2>1 DEF IInv, Commits, Committed
  <2>2. CASE stage[op.verb] # NoFile
    <3>1. PICK o \in Operations : /\ Pending(o) /\ o.verb = op.verb /\ power = "off"
                                  /\ op.verb = "restore" => Restorable(o.snap)
                                  /\ op.verb = "resize" => o.size > disk.size
      BY <1>1, <2>2 DEF IInv, Stages
    <3>2. o = op
      BY <1>1, <3>1 DEF IInv, OneOpen
    <3> QED BY <1>1, <3>1, <3>2, OperationFields DEF IInv, TypeOK, File
  <2> QED BY <2>1, <2>2
<1>3. manifest[op.snap].size <= disk.size => manifest[op.snap].size <= Allocation
  <2>1. manifest[op.snap].size \in Nat /\ disk.size \in Nat /\ conf \in Nat
    BY <1>1 DEF IInv, TypeOK, File, NoFile
  <2> QED BY <2>1 DEF Allocation
<1> QED
  BY <1>1, <1>2, <1>3 DEF Valid, Restorable, Staged, Covered

\* Once the open operation is settled, with the disk and machine.json in
\* agreement and no stage left, nothing is open.
LEMMA SettleStep ==
  ASSUME IInv, TypeOK', work.at # "idle", NEW result \in {"completed", "failed"}, Settle(result),
         conf' = disk'.size, \A v \in Staged : stage'[v] = NoFile, SnapshotsIntact'
  PROVE  IInv'
<1>1. op \in Operations /\ Pending(op)
  BY AtWork DEF IInv
<1>2. \A o \in Operations : ~Pending(o)' /\ (Prepared(o)' <=> Prepared(o))
  BY <1>1 DEF Settle, IInv, TypeOK, OneOpen, Pending, Prepared, Receipt
<1>3. work' = NoWork /\ op' = None
  BY DEF Settle, NoWork, op
<1>4. Bound'
  <2>1. \A o \in Operations : receipt[o].status # "none" => receipt'[o].status # "none"
    BY <1>1 DEF Settle, IInv, TypeOK, Receipt
  <2> QED BY <1>2, <2>1 DEF IInv, Bound
<1>5. OneOpen' /\ Stages' /\ Commits' /\ SizesKept'
  BY <1>2 DEF OneOpen, Stages, Commits, SizesKept
<1>6. Working' /\ Placed'
  BY <1>3 DEF Working, Placed, NoWork
<1> QED BY <1>4, <1>5, <1>6 DEF IInv

\* A step of the worker to a place whose invariant holds, and nothing else.
LEMMA GotoStep ==
  ASSUME IInv, TypeOK', work.at # "idle", NEW place \in Places \ {"idle"}, Goto(place),
         UNCHANGED <<files, receipt, power, lowered>>, Placed'
  PROVE  IInv'
<1>1. work' = [op |-> work.op, at |-> place]
  BY DEF Goto, IInv, TypeOK
<1>2. op' = op /\ work.op # None
  BY <1>1 DEF op, IInv, Working, NoWork
<1>3. Working'
  BY <1>1, <1>2 DEF Working, IInv, Pending, op
<1>4. OneOpen' /\ Bound' /\ Stages' /\ Commits' /\ SizesKept' /\ SnapshotsIntact'
  BY DEF IInv, OneOpen, Bound, Stages, Commits, Committed, SizesKept, SnapshotsIntact, Pending,
         Prepared, Restorable, Target, files
<1> QED BY <1>3, <1>4 DEF IInv

LEMMA TakeStep == ASSUME IInv, Covered, TypeOK', Take PROVE IInv'
<1>1. /\ work.at = "queued" /\ UNCHANGED <<files, power, lowered>>
      /\ op \in Operations /\ Pending(op) /\ op.verb \in Verbs
  BY AtWork DEF IInv, Take, Doing
<1>2. CASE Valid /\ Goto(FirstPlace) /\ UNCHANGED receipt
  <2>1. FirstPlace \in Places \ {"idle"}
    BY <1>1 DEF FirstPlace, Places, Verbs, Staged
  <2>2. work' = [op |-> work.op, at |-> FirstPlace] /\ op' = op
    BY <1>2 DEF Goto, IInv, TypeOK, op
  <2>3. ~Prepared(op) => conf = disk.size
    BY <1>1 DEF IInv, SizesKept, OneOpen
  <2>4. Allocation \in Nat /\ (conf = disk.size => Allocation = disk.size)
    BY DEF Allocation, IInv, TypeOK, File
  <2>5. Placed'
    <3> USE <1>1, <1>2, <2>2 DEF Placed, files, NeedsStopped, KeepsDisk, Pending, Prepared
    <3>1. CASE op.verb = "snapshot"
      BY <3>1 DEF FirstPlace, Valid, Staged
    <3>2. CASE op.verb = "snapshot-delete"
      BY <3>2 DEF FirstPlace, Valid, Staged
    <3>3. CASE op.verb \in Staged /\ Prepared(op)
      BY <3>3 DEF FirstPlace, Valid, Staged
    <3>4. CASE op.verb \in Staged /\ ~Prepared(op)
      <4>1. FirstPlace = "stage"
        BY <3>4 DEF FirstPlace, Staged
      <4>2. op.verb = "restore" => Restorable(op.snap)
        BY <3>4, <2>3, <2>4 DEF Valid, Restorable
      <4>3. op.verb = "resize" => op.size >= disk.size
        BY DEF Valid
      <4>4. power = "off"
        BY <3>4 DEF Valid, Staged
      <4>5. Restorable(op.snap)' <=> Restorable(op.snap)
        BY DEF Restorable
      <4> QED BY <3>4, <4>1, <4>2, <4>3, <4>4, <4>5
    <3> QED BY <3>1, <3>2, <3>3, <3>4 DEF Verbs, Staged
  <2> QED BY <1>1, <1>2, <2>1, <2>5, GotoStep
<1>3. CASE ~Valid /\ Settle("failed")
  <2>1. ~Prepared(op) /\ (op.verb \in Staged => stage[op.verb] = NoFile)
    BY <1>1, <1>3, PreparedIsValid
  <2>2. conf = disk.size
    BY <1>1, <2>1 DEF IInv, SizesKept, OneOpen
  <2>3. \A v \in Staged : stage[v] = NoFile
    BY <1>1, <2>1 DEF IInv, Stages, OneOpen
  <2>4. SnapshotsIntact'
    BY <1>1, <1>3 DEF IInv, SnapshotsIntact, Settle, files, TypeOK, Receipt
  <2> QED BY <1>1, <1>3, <2>2, <2>3, <2>4, SettleStep DEF files, IInv
<1> QED BY <1>2, <1>3 DEF Take

LEMMA PublishStep == ASSUME IInv, TypeOK', Publish PROVE IInv'
<1>1. /\ op \in Operations /\ Pending(op) /\ op.snap \in Snaps
      /\ op.verb = "snapshot" /\ manifest[op.snap] = NoFile /\ art[op.snap] = disk
      /\ work.at = "publish"
  BY AtWork DEF IInv, Publish, Doing, Placed
<1>2. /\ manifest' = [manifest EXCEPT ![op.snap] = disk]
      /\ work' = [op |-> work.op, at |-> "complete"] /\ op' = op
      /\ UNCHANGED <<disk, conf, stage, art, receipt, power, lowered>>
  BY <1>1 DEF Publish, Goto, IInv, TypeOK, op
<1>3. disk # NoFile
  BY FilesDiffer DEF IInv, TypeOK
<1>4. SnapshotsIntact'
  BY <1>1, <1>2 DEF IInv, SnapshotsIntact, TypeOK
<1>5. Placed'
  BY <1>1, <1>2, <1>3 DEF IInv, Placed, TypeOK, NeedsStopped, Staged
<1>6. Stages' /\ Commits'
  BY <1>1, <1>2 DEF IInv, Stages, Commits, Bound, OneOpen, Pending, Prepared, Staged
<1>7. Working' /\ OneOpen' /\ Bound' /\ SizesKept'
  BY <1>1, <1>2 DEF IInv, Working, OneOpen, Bound, SizesKept, Pending, Prepared, NoWork, op
<1> QED BY <1>2, <1>4, <1>5, <1>6, <1>7 DEF IInv

LEMMA StageStep == ASSUME IInv, TypeOK', Stage PROVE IInv'
<1>1. /\ op \in Operations /\ Pending(op) /\ op.verb \in Staged /\ ~Prepared(op)
      /\ op.verb = "restore" => Restorable(op.snap)
      /\ op.verb = "resize" => op.size >= disk.size
      /\ work.at = "stage" /\ power = "off"
      /\ op.size \in Nat /\ disk.size \in Nat
  BY AtWork DEF IInv, Stage, Doing, Placed, NeedsStopped, Staged, TypeOK, File
<1>2. CASE KeepsDisk /\ Goto("prepare") /\ UNCHANGED stage
  <2>1. stage[op.verb] = NoFile
    <3>1. ASSUME NEW o \in Operations, Pending(o), o.verb = op.verb, op.verb = "resize", o.size > disk.size
          PROVE  FALSE
      BY <1>1, <1>2, <3>1 DEF IInv, OneOpen, KeepsDisk
    <3> QED BY <1>1, <1>2, <3>1 DEF IInv, Stages, KeepsDisk
  <2>2. work' = [op |-> work.op, at |-> "prepare"] /\ op' = op
    BY <1>2 DEF Goto, IInv, TypeOK, op
  <2>3. Placed'
    BY <1>1, <1>2, <2>1, <2>2 DEF Stage, Placed, NeedsStopped, KeepsDisk, Prepared, Restorable
  <2> QED BY <1>1, <1>2, <2>3, GotoStep DEF Stage, files, Places
<1>3. CASE ~KeepsDisk /\ Goto("fill") /\ stage' = [stage EXCEPT ![op.verb] = Partial]
  <2>1. /\ work' = [op |-> work.op, at |-> "fill"] /\ op' = op
        /\ UNCHANGED <<disk, conf, manifest, art, receipt, power, lowered>>
    BY <1>3 DEF Stage, Goto, IInv, TypeOK, op
  <2>2. Placed'
    BY <1>1, <1>3, <2>1 DEF Placed, NeedsStopped, KeepsDisk, Prepared, Restorable
  <2>3. op.verb = "resize" => op.size > disk.size
    BY <1>1, <1>3 DEF KeepsDisk
  <2>4. Stages'
    BY <1>1, <1>3, <2>1, <2>3 DEF IInv, Stages, TypeOK, Pending, Restorable
  <2>5. Commits'
    BY <1>1, <2>1 DEF IInv, Commits, OneOpen, Pending, Prepared
  <2>6. Working' /\ OneOpen' /\ Bound' /\ SizesKept' /\ SnapshotsIntact'
    BY <1>1, <2>1 DEF IInv, Working, OneOpen, Bound, SizesKept, SnapshotsIntact, Pending, Prepared,
                      NoWork, op
  <2> QED BY <2>1, <2>2, <2>4, <2>5, <2>6 DEF IInv
<1> QED BY <1>2, <1>3 DEF Stage

LEMMA FillStep == ASSUME IInv, TypeOK', Fill PROVE IInv'
<1>1. /\ op \in Operations /\ Pending(op) /\ op.verb \in Staged /\ ~Prepared(op)
      /\ op.verb = "restore" => Restorable(op.snap)
      /\ op.verb = "resize" => op.size >= disk.size
      /\ ~KeepsDisk /\ work.at = "fill" /\ power = "off"
      /\ op.size \in Nat /\ disk.size \in Nat
  BY AtWork DEF IInv, Fill, Doing, Placed, NeedsStopped, Staged, TypeOK, File
<1>2. /\ stage' = [stage EXCEPT ![op.verb] = Target(op)] /\ Target(op) \in File
      /\ conf = disk.size
  BY FillsTarget
<1>3. /\ work' = [op |-> work.op, at |-> "prepare"] /\ op' = op
      /\ UNCHANGED <<disk, conf, manifest, art, receipt, power, lowered>>
  BY DEF Fill, Goto, IInv, TypeOK, op
<1>4. Placed'
  BY <1>1, <1>2, <1>3 DEF Placed, NeedsStopped, KeepsDisk, Prepared, Restorable, Target, IInv, TypeOK
<1>5. op.verb = "resize" => op.size > disk.size
  BY <1>1 DEF KeepsDisk
<1>6. Stages'
  BY <1>1, <1>2, <1>3, <1>5 DEF IInv, Stages, TypeOK, Pending, Restorable
<1>7. Commits'
  BY <1>1, <1>3 DEF IInv, Commits, OneOpen, Pending, Prepared
<1>8. Working' /\ OneOpen' /\ Bound' /\ SizesKept' /\ SnapshotsIntact'
  BY <1>1, <1>3 DEF IInv, Working, OneOpen, Bound, SizesKept, SnapshotsIntact, Pending, Prepared,
                    NoWork, op
<1> QED BY <1>3, <1>4, <1>6, <1>7, <1>8 DEF IInv

LEMMA PrepareStep == ASSUME IInv, TypeOK', Prepare PROVE IInv'
<1>1. /\ op \in Operations /\ Pending(op) /\ op.verb \in Staged /\ ~Prepared(op)
      /\ op.verb = "restore" => Restorable(op.snap)
      /\ op.verb = "resize" => op.size >= disk.size
      /\ stage[op.verb] = IF KeepsDisk THEN NoFile ELSE Target(op)
      /\ work.at = "prepare" /\ power = "off"
      /\ op.size \in Nat /\ disk.size \in Nat /\ disk \in File
  BY AtWork DEF IInv, Prepare, Doing, Placed, NeedsStopped, Staged, TypeOK, File
<1>2. Target(op) \in File
  BY <1>1, TargetType DEF IInv
<1>3. conf = disk.size
  BY <1>1 DEF IInv, SizesKept, OneOpen
<1> DEFINE commit == IF KeepsDisk THEN disk ELSE Target(op)
<1>4. commit \in File /\ commit # NoFile
  BY <1>1, <1>2, FilesDiffer
<1>5. /\ receipt'[op] = [status |-> "pending", prepared |-> commit]
      /\ \A o \in Operations : o # op => receipt'[o] = receipt[o]
      /\ work' = [op |-> work.op, at |-> IF KeepsDisk THEN "configure" ELSE "swap"]
      /\ op' = op
      /\ UNCHANGED <<disk, conf, stage, manifest, art, power, lowered>>
  BY <1>1 DEF Prepare, Goto, IInv, TypeOK, Receipt, Pending, op, files
<1> HIDE DEF commit
<1>6. /\ \A o \in Operations : Pending(o)' <=> Pending(o)
      /\ \A o \in Operations : Prepared(o)' <=> Prepared(o) \/ o = op
  BY <1>1, <1>4, <1>5 DEF Pending, Prepared
<1>7. OneOpen' /\ Stages'
  BY <1>5, <1>6 DEF IInv, OneOpen, Stages, Restorable
<1>8. Bound'
  BY <1>1, <1>5, <1>6 DEF IInv, Bound
<1>9. Committed(op)'
  <2>1. CASE KeepsDisk
    BY <1>1, <1>3, <1>5, <2>1 DEF Committed, KeepsDisk, Restorable, commit
  <2>2. CASE ~KeepsDisk
    BY <1>1, <1>2, <1>3, <1>5, <2>2, FilesDiffer DEF Committed, KeepsDisk, Restorable, Target, commit
  <2> QED BY <2>1, <2>2
<1>10. Commits'
  <2> SUFFICES ASSUME NEW o \in Operations, Pending(o)' PROVE Committed(o)'
    BY DEF Commits
  <2>1. o = op
    BY <1>1, <1>6 DEF IInv, OneOpen
  <2> QED BY <1>5, <1>9, <2>1 DEF Committed
<1>11. SizesKept' /\ SnapshotsIntact'
  BY <1>1, <1>3, <1>5 DEF IInv, SizesKept, SnapshotsIntact, TypeOK, Receipt
<1>12. Working'
  BY <1>1, <1>5, <1>6, OperationFields DEF Working, op
<1>13. Placed'
  <2>1. op.verb \in Staged /\ Prepared(op)' /\ power' = "off"
    BY <1>1, <1>5, <1>6
  <2>2. CASE KeepsDisk
    BY <1>1, <1>5, <2>1, <2>2 DEF Placed, KeepsDisk
  <2>3. CASE ~KeepsDisk
    <3>1. stage'[op.verb] # NoFile /\ work'.at = "swap"
      BY <1>1, <1>2, <1>5, <2>3, FilesDiffer
    <3> QED BY <1>5, <2>1, <3>1 DEF Placed
  <2> QED BY <2>2, <2>3
<1> QED BY <1>5, <1>7, <1>8, <1>10, <1>11, <1>12, <1>13 DEF IInv

LEMMA ReplayStep == ASSUME IInv, TypeOK', Replay PROVE IInv'
<1>1. /\ op \in Operations /\ Pending(op) /\ op.verb \in Staged /\ Prepared(op)
      /\ work.at = "replay"
  BY AtWork DEF IInv, Replay, Doing, Placed
<1>2. Committed(op)
  BY <1>1 DEF IInv, Commits
<1> DEFINE left == IF KeepsDisk THEN NoFile ELSE stage[op.verb]
<1>3. left = stage[op.verb] /\ UNCHANGED <<files, power, lowered>>
  <2>1. op.size \in Nat /\ disk.size \in Nat
    BY <1>1, OperationFields DEF IInv, TypeOK, File
  <2>2. KeepsDisk => stage[op.verb] = NoFile
    BY <1>2, <2>1 DEF Committed, KeepsDisk
  <2> QED BY <2>2 DEF Replay
<1>4. CASE left # NoFile /\ Goto("swap") /\ UNCHANGED receipt
  <2>1. Placed'
    BY <1>1, <1>2, <1>3, <1>4
    DEF Placed, Goto, IInv, TypeOK, op, files, NeedsStopped, Prepared, Committed
  <2> QED BY <1>1, <1>3, <1>4, <2>1, GotoStep DEF Places
<1>5. CASE /\ left = NoFile /\ UNCHANGED receipt
           /\ Goto(IF op.verb = "resize" THEN "configure" ELSE "complete")
  <2>1. op.verb = "restore" => conf = disk.size
    BY <1>2 DEF Committed
  <2>2. Placed'
    BY <1>1, <1>2, <1>3, <1>5, <2>1
    DEF Placed, Goto, IInv, TypeOK, op, files, NeedsStopped, Prepared, Committed, Staged
  <2> QED BY <1>1, <1>3, <1>5, <2>2, GotoStep DEF Places
<1>6. ~((IF left # NoFile THEN left ELSE disk) # receipt[op].prepared)
  BY <1>2, <1>3 DEF Committed
<1> QED BY <1>4, <1>5, <1>6 DEF Replay

LEMMA ConfigureStep == ASSUME IInv, TypeOK', Configure PROVE IInv'
<1>1. /\ op \in Operations /\ Pending(op) /\ op.verb = "resize" /\ Prepared(op)
      /\ stage[op.verb] = NoFile /\ work.at = "configure"
  BY AtWork DEF IInv, Configure, Doing, Placed
<1>2. /\ power = "off" /\ disk.size = op.size /\ receipt[op].prepared = disk
  BY <1>1 DEF IInv, Commits, Committed
<1>3. /\ work' = [op |-> work.op, at |-> "complete"] /\ op' = op /\ conf' = disk.size
      /\ UNCHANGED <<disk, stage, manifest, art, receipt, power, lowered>>
  BY <1>2 DEF Configure, Goto, IInv, TypeOK, op
<1>4. Placed'
  BY <1>1, <1>2, <1>3 DEF Placed, Prepared, NeedsStopped, Staged
<1>5. Commits'
  BY <1>1, <1>2, <1>3 DEF IInv, Commits, Committed, OneOpen, Pending, Prepared
<1>6. Working' /\ OneOpen' /\ Bound' /\ Stages' /\ SizesKept' /\ SnapshotsIntact'
  BY <1>1, <1>3 DEF IInv, Working, OneOpen, Bound, Stages, SizesKept, SnapshotsIntact, Pending,
                    Prepared, Restorable, NoWork, op
<1> QED BY <1>3, <1>4, <1>5, <1>6 DEF IInv

LEMMA BreaksStep == ASSUME IInv, TypeOK', Breaks PROVE IInv'
<1>1. /\ op \in Operations /\ Pending(op) /\ work.at # "idle"
      /\ UNCHANGED <<disk, conf, manifest, art, power, lowered>>
  BY AtWork DEF IInv, Breaks
<1>2. CASE op.verb \in Staged /\ Prepared(op)
  <2>1. work' = NoWork /\ UNCHANGED <<receipt, stage>>
    BY <1>2 DEF Breaks, Discard
  <2>2. Working' /\ Placed'
    BY <2>1 DEF Working, Placed, NoWork, op
  <2> QED
    BY <1>1, <2>1, <2>2
    DEF IInv, OneOpen, Bound, Stages, Commits, Committed, SizesKept, SnapshotsIntact, Pending,
        Prepared, Restorable, Target
<1>3. CASE ~(op.verb \in Staged /\ Prepared(op))
  <2>1. ~Prepared(op)
    BY <1>1, <1>3 DEF IInv, Bound
  <2>2. conf = disk.size
    BY <1>1, <2>1 DEF IInv, SizesKept, OneOpen
  <2>3. \A v \in Staged : stage'[v] = NoFile
    BY <1>1, <2>1 DEF Breaks, Discard, IInv, Stages, OneOpen, TypeOK
  <2>4. Settle("failed")
    BY <1>3 DEF Breaks
  <2>5. SnapshotsIntact'
    BY <1>1, <2>4 DEF IInv, SnapshotsIntact, Settle, TypeOK, Receipt
  <2> QED BY <1>1, <2>2, <2>3, <2>4, <2>5, SettleStep DEF IInv
<1> QED BY <1>2, <1>3

\* Whatever step is taken keeps the invariant.
LEMMA InvariantStep == IInv /\ Covered /\ TypeOK' /\ Next => IInv'
<1> SUFFICES ASSUME IInv, Covered, TypeOK', Next PROVE IInv' OBVIOUS
<1>a. TypeOK BY DEF IInv
<1> USE <1>a, OperationFields, FilesDiffer
    DEF IInv, TypeOK, OneOpen, Bound, Working, Stages, Commits, Committed, SizesKept,
        Placed, SnapshotsIntact, Pending, Prepared, File, Receipt, NoWork, Places, NoFile, Partial,
        op, Staged, Target, Restorable, NeedsStopped, KeepsDisk, files, Goto, Doing
<1>1. ASSUME NEW o \in Operations, Submit(o) PROVE IInv' BY <1>1 DEF Submit
<1>2. ASSUME NEW o \in Operations, Resubmit(o) PROVE IInv' BY <1>2 DEF Resubmit
<1>3. CASE Start BY <1>3 DEF Start
<1>4. CASE Started BY <1>4 DEF Started
<1>5. CASE GuestWrites BY <1>5 DEF GuestWrites
<1>6. CASE PowerOff BY <1>6 DEF PowerOff
<1>7. CASE Take BY <1>7, TakeStep
<1>8. CASE Copy BY <1>8 DEF Copy
<1>9. CASE Publish BY <1>9, PublishStep
<1>10. CASE Stage BY <1>10, StageStep
<1>11. CASE Fill BY <1>11, FillStep
<1>12. CASE Prepare BY <1>12, PrepareStep
<1>13. CASE Replay BY <1>13, ReplayStep
<1>14. CASE Swap BY <1>14, SwapsTarget DEF Swap
<1>15. CASE Configure BY <1>15, ConfigureStep
<1>16. CASE Delete BY <1>16 DEF Delete
<1>17. CASE Complete BY <1>17 DEF Complete, Settle
<1>18. CASE Breaks BY <1>18, BreaksStep
<1>19. CASE Crash BY <1>19 DEF Crash
<1> QED
  BY <1>1, <1>2, <1>3, <1>4, <1>5, <1>6, <1>7, <1>8, <1>9, <1>10, <1>11, <1>12, <1>13,
     <1>14, <1>15, <1>16, <1>17, <1>18, <1>19 DEF Next, Transform

\* Limits that are constant cover every resize.
LEMMA ConstantIsCovered == ASSUME ~Operator PROVE Spec => []Covered
<1> DEFINE Constant == lowered = FALSE
<1>1. Init => Constant
  BY DEF Init
<1>2. Constant /\ [Next]_vars => Constant'
  BY Zenon DEF vars, Next, Transform, Submit, Resubmit, Start, Started, GuestWrites, PowerOff, Take,
     Copy, Publish, Stage, Fill, Prepare, Replay, Swap, Configure, Delete, Complete, Breaks, Crash
<1>3. Constant => Covered
  BY DEF Covered
<1> QED BY <1>1, <1>2, <1>3, PTL DEF Spec

\* While no limit is lowered under a resize, the invariant holds.
THEOREM Inductive == Spec /\ []Covered => []IInv
<1>1. IInv /\ Covered /\ TypeOK' /\ [Next]_vars => IInv'
  <2> SUFFICES ASSUME IInv, TypeOK', UNCHANGED vars PROVE IInv'
    BY InvariantStep
  <2> QED
    BY DEF vars, IInv, TypeOK, OneOpen, Bound, Working, Stages, Commits, Committed, SizesKept,
           Placed, SnapshotsIntact, Pending, Prepared, Target, Restorable, NeedsStopped, KeepsDisk, op
<1> QED BY <1>1, InitIInv, TypeCorrect, PTL DEF Spec

\* Between operations the disk and machine.json agree about its size.
THEOREM SizesStayAgreed == Spec /\ []Covered => []SizesAgree
<1>1. IInv => SizesAgree
  BY DEF IInv, SizesKept, SizesAgree, NothingPending
<1> QED BY <1>1, Inductive, PTL

\* A settled operation leaves no staging file.
THEOREM StagesAreDiscarded == Spec /\ []Covered => []StagesDiscarded
<1>1. IInv => StagesDiscarded
  BY DEF IInv, Stages, StagesDiscarded, NothingPending
<1> QED BY <1>1, Inductive, PTL
-----------------------------------------------------------------------------
(* Failures, and the refinement. *)

\* The disk was exchanged just if the open operation is prepared and its
\* stage is gone.
LEMMA AppliedOf ==
  ASSUME IInv, NEW o \in Operations, Pending(o)
  PROVE  Applied <=> Prepared(o) /\ stage[o.verb] = NoFile
  BY DEF IInv, OneOpen, Applied

\* An operation is failed by the worker that has it, while its commit is not
\* prepared.
LEMMA FailsUnprepared ==
  ASSUME IInv, Covered, Next, NEW o \in Operations, Pending(o), receipt'[o].status = "failed"
  PROVE  ~Prepared(o)
<1> USE DEF IInv, TypeOK, Receipt, Pending
<1>1. ASSUME Settle("failed"), ~Prepared(op), work.at # "idle" PROVE ~Prepared(o)
  BY <1>1, AtWork DEF Settle, OneOpen
<1>2. CASE Take
  <2>1. Settle("failed") /\ ~Valid /\ work.at = "queued"
    BY <1>2 DEF Take, Doing
  <2> QED BY <1>1, <2>1, PreparedIsValid
<1>3. CASE Replay
  <2>1. /\ op \in Operations /\ op.verb \in Staged /\ Prepared(op) /\ Pending(op)
    BY <1>3, AtWork DEF Replay, Doing, Placed
  <2>2. Committed(op)
    BY <2>1 DEF Commits
  <2>3. receipt' = receipt
    BY <2>1, <2>2, <1>3, OperationFields DEF Replay, Committed, KeepsDisk, File
  <2> QED BY <2>3
<1>4. CASE Breaks
  <2>1. Settle("failed") /\ ~(op.verb \in Staged /\ Prepared(op)) /\ work.at # "idle"
    BY <1>4 DEF Breaks
  <2>2. ~Prepared(op)
    BY <2>1, AtWork DEF Bound
  <2> QED BY <1>1, <2>1, <2>2
<1>5. CASE Prepare
  BY <1>5, AtWork DEF Prepare, Doing
<1>6. CASE Complete
  BY <1>6, AtWork DEF Complete, Settle, Doing
<1>7. CASE \E p \in Operations : Submit(p)
  BY <1>7 DEF Submit
<1>8. CASE UNCHANGED receipt
  BY <1>8
<1> QED
  BY <1>2, <1>3, <1>4, <1>5, <1>6, <1>7, <1>8
  DEF Next, Transform, Resubmit, Start, Started, GuestWrites, PowerOff, Copy, Publish, Stage, Fill,
      Swap, Configure, Delete, Crash

\* The prepared receipt is the point of no return: whatever crashes or fails
\* after it, the operation is not answered as a failure any more.
THEOREM PreparedIsCommitted ==
  Spec /\ []Covered =>
    [][\A o \in Operations : Pending(o) /\ Prepared(o) => receipt'[o].status # "failed"]_vars
<1>1. IInv /\ Covered /\ [Next]_vars
        => [\A o \in Operations : Pending(o) /\ Prepared(o) => receipt'[o].status # "failed"]_vars
  BY FailsUnprepared DEF vars
<1> QED BY <1>1, Inductive, PTL DEF Spec

\* A failure says that the disk is the old one.
THEOREM FailuresKeepDisk == Spec /\ []Covered => FailedKeepsDisk
<1>1. IInv /\ Covered /\ [Next]_vars
        => [\A o \in Operations : Pending(o) /\ receipt'[o].status = "failed" => ~Applied]_vars
  BY FailsUnprepared, AppliedOf DEF vars
<1> QED BY <1>1, Inductive, PTL DEF Spec, FailedKeepsDisk

-----------------------------------------------------------------------------
(* The refinement. *)

LEMMA SameAnswers ==
  ASSUME \A o \in Operations : receipt'[o].status = receipt[o].status
  PROVE  Answers' = Answers
  BY DEF Answers, Pending

LEMMA SameApplied ==
  ASSUME UNCHANGED receipt,
         \A o \in Operations : Pending(o) /\ Prepared(o)
                                => (stage'[o.verb] = NoFile <=> stage[o.verb] = NoFile)
  PROVE  Applied' = Applied
  BY DEF Applied, Pending, Prepared

Same == UNCHANGED <<disk, manifest, Answers, Applied>>

\* The open operation is known as such, and so is its answer.
LEMMA SettleMaps ==
  ASSUME IInv, work.at # "idle", NEW result \in {"completed", "failed"}, Settle(result)
  PROVE  /\ op \in Operations /\ Disk!Open(op)
         /\ Answers' = [Answers EXCEPT ![op] = result]
         /\ ~Applied'
<1>1. op \in Operations /\ Pending(op)
  BY AtWork DEF IInv
<1>2. /\ receipt'[op].status = result
      /\ \A o \in Operations : o # op => receipt'[o] = receipt[o]
  BY <1>1 DEF Settle, IInv, TypeOK, Receipt
<1>3. \A o \in Operations : Pending(o)' <=> Pending(o) /\ o # op
  BY <1>2 DEF Pending
<1>4. \A o \in Operations : ~Pending(o)'
  BY <1>1, <1>3 DEF IInv, OneOpen
<1> QED BY <1>1, <1>2, <1>3, <1>4 DEF Answers, Applied, Disk!Open

\* A failure is one of the open operation before it was applied.
LEMMA FailMaps ==
  ASSUME IInv, work.at # "idle", ~Prepared(op), Settle("failed"), UNCHANGED <<disk, manifest>>
  PROVE  Disk!AtomicNext
<1>1. op \in Operations /\ Pending(op)
  BY AtWork DEF IInv
<1>2. ~Applied /\ ~Applied'
  BY <1>1, AppliedOf, SettleMaps
<1>3. Applied' = Applied
  BY <1>2 DEF Applied
<1>4. Disk!Fail(op)
  BY <1>2, <1>3, SettleMaps DEF Disk!Fail
<1> QED BY <1>1, <1>4 DEF Disk!AtomicNext

LEMMA SubmitMaps ==
  ASSUME IInv, NEW o \in Operations, Submit(o) PROVE Disk!Accept(o)
<1>1. /\ receipt'[o].status = "pending" /\ receipt[o].status = "none"
      /\ receipt'[o].prepared = receipt[o].prepared
      /\ \A p \in Operations : ~Pending(p) /\ (p # o => receipt'[p] = receipt[p])
  BY DEF Submit, IInv, TypeOK, Receipt
<1>2. ~Applied /\ ~Applied'
  BY <1>1 DEF IInv, Bound, Applied, Pending, Prepared
<1>3. Applied' = Applied
  BY <1>2 DEF Applied
<1>4. Answers[o] = "none" /\ \A p \in Operations : ~Disk!Open(p)
  BY <1>1 DEF Answers, Disk!Open, Pending, IInv, TypeOK, Receipt
<1>5. Answers' = [Answers EXCEPT ![o] = "open"]
  <2>1. \A p \in Operations : (IF Pending(p) THEN "open" ELSE receipt[p].status)'
                              = IF p = o THEN "open" ELSE IF Pending(p) THEN "open" ELSE receipt[p].status
    BY <1>1 DEF Pending
  <2> QED BY <2>1 DEF Answers
<1> QED BY <1>3, <1>4, <1>5 DEF Disk!Accept, Submit, files

\* While a disk is exchanged and not answered for, no guest runs.
LEMMA GuestWritesMaps == ASSUME IInv, GuestWrites PROVE Disk!Write
<1>1. ~Applied
  BY DEF IInv, Applied, Commits, Committed, GuestWrites
<1>2. Applied' = Applied
  BY SameApplied DEF GuestWrites
<1>3. Answers' = Answers
  BY SameAnswers DEF GuestWrites
<1> QED BY <1>1, <1>2, <1>3 DEF GuestWrites, Disk!Write

LEMMA PublishMaps == ASSUME IInv, Publish PROVE Disk!Publish(op)
<1>1. /\ op \in Operations /\ Pending(op) /\ op.verb = "snapshot"
      /\ manifest[op.snap] = NoFile /\ art[op.snap] = disk
  BY AtWork DEF IInv, Publish, Placed, Doing
<1>2. Answers' = Answers /\ Applied' = Applied
  BY SameAnswers, SameApplied DEF Publish
<1> QED BY <1>1, <1>2 DEF Publish, Disk!Publish, Disk!Open, Answers

\* A commit that changes nothing is applied as it is prepared, any other one
\* only has its stage bound.
LEMMA PrepareMaps == ASSUME IInv, Prepare PROVE Disk!Apply(op) \/ Same
<1> USE DEF IInv
<1>1. /\ op \in Operations /\ Pending(op) /\ op.verb \in Staged /\ ~Prepared(op)
      /\ op.verb = "resize" => op.size >= disk.size
      /\ stage[op.verb] = IF KeepsDisk THEN NoFile ELSE Target(op)
      /\ op.verb = "restore" => Restorable(op.snap)
  BY AtWork DEF Prepare, Placed, Doing
<1>2. /\ receipt'[op].prepared = IF KeepsDisk THEN disk ELSE stage[op.verb]
      /\ \A o \in Operations : receipt'[o].status = receipt[o].status
      /\ \A o \in Operations : o # op => receipt'[o] = receipt[o]
  BY <1>1 DEF Prepare, TypeOK, Receipt
<1>3. Answers' = Answers
  BY <1>2, SameAnswers
<1>4. ~Applied
  BY <1>1, AppliedOf
<1>5. Target(op) # NoFile /\ disk # NoFile
  BY <1>1, TargetType, FilesDiffer DEF TypeOK
<1>6. UNCHANGED <<disk, manifest, stage>>
  BY DEF Prepare, files
<1>7. CASE KeepsDisk
  <2>1. Applied'
    <3>1. Pending(op) /\ receipt'[op].status = "pending" /\ receipt'[op].prepared # NoFile
          /\ stage'[op.verb] = NoFile
      BY <1>1, <1>2, <1>5, <1>6, <1>7 DEF Pending
    <3> QED BY <1>1, <3>1 DEF Applied, Pending, Prepared
  <2>2. op.verb = "resize" /\ disk' = [data |-> disk.data, size |-> op.size] /\ op.size >= disk.size
    BY <1>1, <1>6, <1>7 DEF KeepsDisk, TypeOK, File
  <2>3. Applied' = TRUE
    BY <2>1 DEF Applied
  <2> QED BY <1>1, <1>3, <1>4, <1>6, <2>2, <2>3 DEF Disk!Apply, Disk!Open, Answers
<1>8. CASE ~KeepsDisk
  <2>1. stage[op.verb] # NoFile
    BY <1>1, <1>5, <1>8
  <2>2. ~Applied'
    BY <1>1, <1>2, <1>6, <2>1 DEF OneOpen, Applied, Pending, Prepared
  <2>3. Applied' = Applied
    BY <1>4, <2>2 DEF Applied
  <2> QED BY <1>3, <1>6, <2>3 DEF Same
<1> QED BY <1>7, <1>8

\* The exchange is the moment at which an operation takes effect.
LEMMA SwapMaps == ASSUME IInv, Swap PROVE Disk!Apply(op)
<1> USE DEF IInv
<1>1. /\ op \in Operations /\ Pending(op) /\ op.verb \in Staged /\ Prepared(op)
      /\ disk' = Target(op)
      /\ op.verb = "restore" => manifest[op.snap] # NoFile
      /\ op.verb = "resize" => op.size > disk.size
  BY SwapsTarget DEF Restorable
<1>2. stage[op.verb] # NoFile
  BY DEF Swap, Placed, Doing
<1>3. ~Applied
  BY <1>1, <1>2, AppliedOf
<1>4. stage'[op.verb] = NoFile /\ UNCHANGED <<manifest, receipt>>
  BY <1>1 DEF Swap, TypeOK
<1>5. Applied' = TRUE
  BY <1>1, <1>4 DEF Applied, Pending, Prepared
<1>6. Answers' = Answers
  BY <1>4, SameAnswers
<1>7. op.verb = "resize" => op.size >= disk.size
  BY <1>1, OperationFields DEF TypeOK, File
<1>8. \/ op.verb = "restore" /\ disk' = [data |-> manifest[op.snap].data, size |-> disk.size]
      \/ op.verb = "resize" /\ disk' = [data |-> disk.data, size |-> op.size]
  BY <1>1 DEF Target, Staged
<1> QED BY <1>1, <1>3, <1>4, <1>5, <1>6, <1>7, <1>8 DEF Disk!Apply, Disk!Open, Answers

LEMMA DeleteMaps == ASSUME IInv, Delete PROVE Disk!Remove(op) \/ Same
<1>1. op \in Operations /\ Pending(op) /\ op.verb = "snapshot-delete"
  BY AtWork DEF IInv, Delete, Placed, Doing
<1>2. Answers' = Answers /\ Applied' = Applied
  BY SameAnswers, SameApplied DEF Delete
<1> QED BY <1>1, <1>2 DEF Delete, Disk!Remove, Disk!Open, Answers, Same

LEMMA CompleteMaps == ASSUME IInv, Complete PROVE Disk!Complete(op)
<1>1. op \in Operations /\ Pending(op) /\ work.at = "complete" /\ Placed /\ op.verb \in Verbs
  BY AtWork DEF IInv, Complete, Doing
<1>2. op.verb \in {"restore", "resize"} => Applied
  BY <1>1, AppliedOf DEF Placed, Staged
<1>3. Disk!Open(op) /\ Answers' = [Answers EXCEPT ![op] = "completed"] /\ ~Applied'
  BY <1>1, SettleMaps DEF Complete
<1>4. Applied' = FALSE
  BY <1>3 DEF Applied
<1> QED BY <1>1, <1>2, <1>3, <1>4 DEF Complete, Disk!Complete, Placed, files

\* An error fails the operation, or leaves it open with its commit.
LEMMA BreaksMaps == ASSUME IInv, Breaks PROVE Disk!AtomicNext \/ Same
<1>1. UNCHANGED <<disk, manifest>>
  BY DEF Breaks
<1>2. CASE op.verb \in Staged /\ Prepared(op)
  <2>1. UNCHANGED <<receipt, stage>>
    BY <1>2 DEF Breaks, Discard
  <2>2. Answers' = Answers /\ Applied' = Applied
    BY <2>1, SameAnswers, SameApplied
  <2> QED BY <1>1, <2>2 DEF Same
<1>3. CASE ~(op.verb \in Staged /\ Prepared(op))
  <2>1. Settle("failed") /\ work.at # "idle"
    BY <1>3 DEF Breaks
  <2>2. ~Prepared(op)
    BY <1>3, <2>1, AtWork DEF IInv, Bound
  <2> QED BY <1>1, <2>1, <2>2, FailMaps
<1> QED BY <1>2, <1>3

LEMMA TakeMaps == ASSUME IInv, Covered, Take PROVE Disk!AtomicNext \/ Same
<1>1. UNCHANGED <<disk, manifest, stage>>
  BY DEF Take, files
<1>2. CASE UNCHANGED receipt
  BY <1>1, <1>2, SameAnswers, SameApplied DEF Same
<1>3. CASE ~Valid /\ Settle("failed")
  <2>1. work.at # "idle" /\ ~Prepared(op)
    BY <1>3, PreparedIsValid DEF Take, Doing
  <2> QED BY <1>1, <1>3, <2>1, FailMaps
<1> QED BY <1>2, <1>3 DEF Take

\* The replay of a prepared commit finds its stage or its disk.
LEMMA ReplayMaps == ASSUME IInv, Replay PROVE Same
<1>1. op \in Operations /\ op.verb \in Staged /\ Prepared(op) /\ Pending(op)
  BY AtWork DEF IInv, Replay, Doing, Placed
<1>2. Committed(op)
  BY <1>1 DEF IInv, Commits
<1>3. UNCHANGED <<receipt, stage, disk, manifest>>
  BY <1>1, <1>2, OperationFields DEF IInv, TypeOK, Replay, Committed, KeepsDisk, File, files
<1> QED BY <1>3, SameAnswers, SameApplied DEF Same

\* Until it is prepared, the stage of an operation does not count.
LEMMA StageMaps == ASSUME IInv, Stage \/ Fill PROVE Same
<1>1. op \in Operations /\ Pending(op) /\ ~Prepared(op)
  BY AtWork DEF IInv, Stage, Fill, Doing, Placed
<1>2. UNCHANGED <<disk, manifest, receipt>>
  BY DEF Stage, Fill
<1>3. Applied' = Applied
  BY <1>1, <1>2, SameApplied DEF IInv, OneOpen
<1> QED BY <1>2, <1>3, SameAnswers DEF Same

LEMMA QuietMaps == ASSUME UNCHANGED <<disk, manifest, stage, receipt>> PROVE Same
  BY SameAnswers, SameApplied DEF Same

LEMMA RefineStep == ASSUME IInv, Covered, [Next]_vars PROVE Disk!AtomicNext \/ Same
<1>1. ASSUME op \in Operations,
             Disk!Publish(op) \/ Disk!Apply(op) \/ Disk!Remove(op) \/ Disk!Complete(op)
      PROVE  Disk!AtomicNext
  BY <1>1 DEF Disk!AtomicNext
<1>2. ASSUME work.at # "idle" PROVE op \in Operations
  BY <1>2, AtWork DEF IInv
<1>3. CASE \E o \in Operations : Submit(o)
  BY <1>3, SubmitMaps DEF Disk!AtomicNext
<1>4. CASE GuestWrites
  BY <1>4, GuestWritesMaps DEF Disk!AtomicNext
<1>5. CASE Publish
  BY <1>1, <1>2, <1>5, PublishMaps DEF Publish, Doing
<1>6. CASE Prepare
  BY <1>1, <1>2, <1>6, PrepareMaps DEF Prepare, Doing
<1>7. CASE Swap
  BY <1>1, <1>2, <1>7, SwapMaps DEF Swap, Doing
<1>8. CASE Delete
  BY <1>1, <1>2, <1>8, DeleteMaps DEF Delete, Doing
<1>9. CASE Complete
  BY <1>1, <1>2, <1>9, CompleteMaps DEF Complete, Doing
<1>10. CASE UNCHANGED <<disk, manifest, stage, receipt>>
  BY <1>10, QuietMaps
<1> QED
  BY <1>3, <1>4, <1>5, <1>6, <1>7, <1>8, <1>9, <1>10, TakeMaps, BreaksMaps, ReplayMaps, StageMaps
  DEF Next, Transform, Resubmit, Start, Started, PowerOff, Copy, Configure, Crash, vars, files

\* While no limit is lowered under a resize, the transforms with their
\* crashes and errors behave as operations that happen at once, or not at
\* all.
THEOREM Refines == Spec /\ []Covered => ImplementsAtomicDisk
<1>1. Init => Disk!AtomicInit
  <2> SUFFICES ASSUME Init PROVE Disk!AtomicInit OBVIOUS
  <2>1. \A o \in Operations : ~Pending(o) /\ receipt[o].status = "none"
    BY DEF Init, Pending
  <2>2. Answers = [o \in Operations |-> "none"]
    BY <2>1 DEF Answers
  <2>3. Applied = FALSE
    BY <2>1 DEF Applied
  <2> QED BY <2>2, <2>3 DEF Init, Disk!AtomicInit, Snaps
<1>2. IInv /\ Covered /\ [Next]_vars => [Disk!AtomicNext]_(Disk!vars)
  BY RefineStep DEF Disk!vars, Same
<1> QED BY <1>1, <1>2, Inductive, PTL DEF Spec, ImplementsAtomicDisk, Disk!AtomicSpec
=============================================================================
