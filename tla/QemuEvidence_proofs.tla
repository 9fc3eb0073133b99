------------------------- MODULE QemuEvidence_proofs -------------------------
(***************************************************************************)
(* Proofs about QemuEvidence for any number of launches, with crashes and  *)
(* reboots at any step, as long as no status is read beside a launch: the  *)
(* one thing that submit_storage does without the machine lock need only   *)
(* be kept out of the steps from the marker to the table.                  *)
(***************************************************************************)
EXTENDS QemuEvidence, TLAPS

\* The threads that read the status without the machine lock.
Others == Threads \ {"holder"}

\* None of them is at it while the holder launches a QEMU.
Apart ==
  \A t \in Others : At(t, "idle") \/ th["holder"].at \notin {"place", "spawn", "record"}
-----------------------------------------------------------------------------
(* The inductive invariant.  It adds to the properties what each place in  *)
(* the code has already established.                                       *)

h == th["holder"]

\* An own child that has exited is the last process that was launched.
LastChild == proc # "none" /\ proc \notin Alive => Alive = {}

\* A thread that found no child in the table waits for QMP without one.
SameTable == h.at \in {"ask", "evidence"} /\ h.child = "none" => proc = "none"

NoChild == h.at \in {"evidence", "unmark", "unsock", "place", "spawn", "record"}
             \/ (h.at = "told" /\ h.ans = "stopped") => proc = "none"

\* Wherever the code acts on a stopped status the machine is still stopped.
Proven == h.at \in {"pop", "unmark", "unsock", "place", "spawn", "change"} => Alive = {}

\* Between Popen and the table the new process is the only one.
Launched ==
  /\ h.at \in {"spawn", "record"} => marker = "launching"
  /\ h.at = "record" => h.child \in Instances /\ Alive \subseteq {h.child}

\* A surviving transform keeps every other supervisor out.
WriterAlone == writer => h.at = "idle"

\* Whoever has no lock only reads, and clears what is proven to be dead.
Reader(t) ==
  /\ th[t].at # "idle" => th[t].op = "submit"
  /\ th[t].at \notin {"place", "spawn", "record", "confirm", "change"}
  /\ th[t].at \in {"pop", "unmark", "unsock"} => Alive = {}

Readers == \A t \in Others : Reader(t)

\* What concerns the holder and the world: everything but the readers.
Main ==
  /\ TypeOK
  /\ StoppedIsProof /\ DiskIsExclusive /\ OneQemu /\ LiveLeavesMarker
  /\ LastChild /\ SameTable /\ NoChild /\ Proven /\ Launched /\ WriterAlone

IInv == Main /\ Readers
-----------------------------------------------------------------------------

\* Initially there is no process and no request.
LEMMA InitIInv == Init => IInv
<1> SUFFICES ASSUME Init PROVE IInv OBVIOUS
<1>1. Idle \in Thread BY DEF Idle, Thread, Ops, Places, Status, File
<1>2. TypeOK BY <1>1, InstancesAssumption DEF Init, TypeOK, File, Marks
<1>3. Alive = {} BY DEF Init, Alive
<1>4. h = Idle BY ThreadsAssumption DEF Init, h
<1> QED
  BY <1>2, <1>3, <1>4
  DEF Init, IInv, Main, StoppedIsProof, DiskIsExclusive, OneQemu, LiveLeavesMarker,
      LastChild, SameTable, NoChild, Proven, Launched, WriterAlone, Readers, Reader, Others,
      h, Idle, At

\* A step of the holder that launches nothing leaves the readers as they were.
LEMMA ReadersKept ==
  ASSUME Readers, Alive' \subseteq Alive, \A t \in Others : th'[t] = th[t]
  PROVE  Readers'
  BY DEF Readers, Reader

\* Every step of the thread that holds the lock keeps the invariant.
LEMMA HolderMain ==
  ASSUME Main, Begin("holder") \/ Step("holder")
  PROVE  Main'
<1> USE InstancesAssumption, ThreadsAssumption
    DEF Main, TypeOK, StoppedIsProof, DiskIsExclusive, OneQemu, LiveLeavesMarker,
        LastChild, SameTable, NoChild, Proven, Launched, WriterAlone, h, Alive, File, Marks,
        Thread, Idle, Ops, Places, Status, At, Goto, Answer
<1>1. CASE Begin("holder")
  <2>1. PICK op \in Ops : th' = [th EXCEPT !["holder"] = [Idle EXCEPT !.op = op, !.at = "look"]]
    BY <1>1 DEF Begin
  <2>2. h' = [op |-> op, at |-> "look", child |-> "none", ans |-> "unknown"]
    BY <2>1
  <2>3. th' \in [Threads -> Thread]
    BY <2>1, <2>2
  <2>4. UNCHANGED <<qemu, proc, marker, sock, writer>> /\ ~writer
    BY <1>1 DEF Begin
  <2> QED BY <2>2, <2>3, <2>4
<1>2. CASE Look("holder")     BY <1>2 DEF Look
<1>3. CASE Pop("holder")      BY <1>3 DEF Pop
<1>4. CASE Unmark("holder")   BY <1>4 DEF Unmark
<1>5. CASE Unsock("holder")
  <2>1. h \in Thread /\ h.at = "unsock" /\ Alive = {} /\ proc = "none" /\ ~writer
    BY <1>5 DEF Unsock
  <2>2. h' = [op |-> h.op, at |-> "told", child |-> h.child, ans |-> "stopped"]
    BY <1>5, <2>1 DEF Unsock
  <2>3. th' \in [Threads -> Thread]
    BY <1>5, <2>2, <2>1 DEF Unsock
  <2>4. UNCHANGED <<qemu, proc, marker, writer>> /\ sock' = "none"
    BY <1>5 DEF Unsock
  <2> QED BY <2>1, <2>2, <2>3, <2>4
<1>6. CASE Ask("holder")      BY <1>6 DEF Ask
<1>7. CASE Evidence("holder") BY <1>7 DEF Evidence, KnownExited
<1>8. CASE Told("holder")     BY <1>8 DEF Told
<1>9. CASE Place("holder")    BY <1>9 DEF Place
<1>10. CASE Spawn("holder")   BY <1>10 DEF Spawn
<1>11. CASE Record("holder")  BY <1>11 DEF Record
<1>12. CASE Confirm("holder") BY <1>12 DEF Confirm
<1>13. CASE Change("holder")  BY <1>13 DEF Change
<1> QED BY <1>1, <1>2, <1>3, <1>4, <1>5, <1>6, <1>7, <1>8, <1>9, <1>10, <1>11, <1>12, <1>13 DEF Step

\* Its steps outside a launch start no QEMU, and those of a launch find no
\* reader at work.
LEMMA HolderReaders ==
  ASSUME IInv, Apart, Begin("holder") \/ Step("holder")
  PROVE  Readers'
<1>1. \A t \in Others : th'[t] = th[t]
  BY DEF IInv, Main, TypeOK, Others, Begin, Step, Look, Pop, Unmark, Unsock, Ask, Evidence, Told,
         Place, Spawn, Record, Confirm, Change, Goto, Answer
<1>2. CASE Spawn("holder")
  <2>1. \A t \in Others : th'[t].at = "idle"
    BY <1>1, <1>2 DEF Spawn, Apart, At
  <2> QED BY <2>1 DEF Readers, Reader
<1>3. CASE UNCHANGED qemu
  BY <1>1, <1>3, ReadersKept DEF IInv, Main, Alive
<1> QED
  BY <1>2, <1>3 DEF Begin, Step, Look, Pop, Unmark, Unsock, Ask, Evidence, Told, Place, Record,
                    Confirm, Change

\* A reader has a step of a status, and does nothing with the answer.
LEMMA ReaderSteps ==
  ASSUME IInv, NEW t \in Others, Begin(t) \/ Step(t)
  PROVE  /\ th'[t].at # "idle" => th'[t].op = "submit"
         /\ th'[t].at \notin {"place", "spawn", "record", "confirm", "change"}
         /\ th'[t] \in Thread
         /\ UNCHANGED <<qemu, writer>>
         /\ \A u \in Threads : u # t => th'[u] = th[u]
<1>1. t \in Threads /\ t # "holder" /\ Reader(t) /\ th \in [Threads -> Thread] /\ proc \in File
  BY DEF IInv, Main, TypeOK, Readers, Others
<1> USE <1>1 DEF Reader, Thread, Ops, Places, Status, Goto, Answer, At, Idle
<1>2. CASE Begin(t)    BY <1>2 DEF Begin, File
<1>3. CASE Look(t)     BY <1>3 DEF Look
<1>4. CASE Pop(t)      BY <1>4 DEF Pop
<1>5. CASE Unmark(t)   BY <1>5 DEF Unmark
<1>6. CASE Unsock(t)   BY <1>6 DEF Unsock
<1>7. CASE Ask(t)      BY <1>7 DEF Ask, File
<1>8. CASE Evidence(t) BY <1>8 DEF Evidence
<1>9. CASE Told(t)     BY <1>9 DEF Told, File
<1> QED
  BY <1>2, <1>3, <1>4, <1>5, <1>6, <1>7, <1>8, <1>9 DEF Step, Place, Spawn, Record, Confirm, Change

\* It clears only when every QEMU that was ever launched has exited.
LEMMA ReaderProven ==
  ASSUME IInv, NEW t \in Others, Begin(t) \/ Step(t),
         th'[t].at \in {"pop", "unmark", "unsock"}
  PROVE  Alive = {}
<1>1. t \in Threads /\ Reader(t) /\ th \in [Threads -> Thread]
  BY DEF IInv, Main, TypeOK, Readers, Others
<1>2. CASE Look(t)
  BY <1>1, <1>2 DEF IInv, Main, LastChild, Look
<1>3. CASE Evidence(t)
  <2>1. KnownExited
    BY <1>1, <1>3 DEF Evidence, Answer, Thread
  <2> QED BY <2>1, InstancesAssumption DEF KnownExited, IInv, Main, LiveLeavesMarker, Marks
<1>4. CASE Pop(t) \/ Unmark(t)
  BY <1>1, <1>4 DEF Pop, Unmark, Reader, At
<1>5. CASE Begin(t)  BY <1>1, <1>5 DEF Begin, Idle
<1>6. CASE Unsock(t) BY <1>1, <1>6 DEF Unsock, Answer, Thread
<1>7. CASE Ask(t)
  <2>1. th' = [th EXCEPT ![t] = Idle] \/ Goto(t, "evidence") \/ \E s \in Status : Answer(t, s)
    BY <1>7 DEF Ask, Status
  <2> QED BY <1>1, <2>1 DEF Idle, Answer, Goto, Thread
<1>8. CASE Told(t)   BY <1>1, <1>8 DEF Told, Idle, Goto, Thread
<1> QED
  BY <1>1, <1>2, <1>3, <1>4, <1>5, <1>6, <1>7, <1>8
  DEF Step, Place, Spawn, Record, Confirm, Change, Reader, At

LEMMA ReaderIInv ==
  ASSUME IInv, Apart, NEW t \in Others, Begin(t) \/ Step(t)
  PROVE  IInv'
<1>1. /\ th'[t] \in Thread /\ UNCHANGED <<qemu, writer>> /\ h' = h
      /\ \A u \in Threads : u # t => th'[u] = th[u]
  BY ReaderSteps, ThreadsAssumption DEF Others, h
<1>2. Alive' = Alive
  BY <1>1 DEF Alive
<1>3. /\ proc' \in {proc, "none"} /\ sock' \in {sock, "none"} /\ marker' \in {marker, "none"}
      /\ marker' # marker => At(t, "unmark")
      /\ th' \in [Threads -> Thread]
  <2>1. th[t].at \notin {"place", "spawn", "record", "confirm", "change"}
    BY DEF IInv, Main, Readers, Reader
  <2>2. DOMAIN th' = Threads /\ th' = [u \in Threads |-> th'[u]]
    BY <2>1 DEF IInv, Main, TypeOK, Begin, Step, Look, Pop, Unmark, Unsock, Ask, Evidence, Told, Place,
                Spawn, Record, Confirm, Change, Goto, Answer, At
  <2>3. th' \in [Threads -> Thread]
    BY <1>1, <2>2 DEF IInv, Main, TypeOK
  <2> QED
    BY <2>1, <2>3 DEF Begin, Step, Look, Pop, Unmark, Unsock, Ask, Evidence, Told, Place, Spawn,
                Record, Confirm, Change, At
<1>4. TypeOK'
  BY <1>1, <1>3 DEF IInv, Main, TypeOK, File, Marks
<1>5. marker' # marker => Alive = {} /\ h.at \notin {"place", "spawn", "record"}
  BY <1>3 DEF IInv, Main, Readers, Reader, Apart, At, h
<1>6. Readers'
  <2>1. Reader(t)'
    BY <1>2, ReaderSteps, ReaderProven DEF Reader
  <2>2. ASSUME NEW u \in Others, u # t PROVE Reader(u)'
    BY <1>1, <1>2, <2>2 DEF IInv, Main, Readers, Reader, Others
  <2> QED BY <2>1, <2>2 DEF Readers
<1>7. StoppedIsProof' /\ DiskIsExclusive' /\ OneQemu' /\ LiveLeavesMarker' /\ WriterAlone'
  BY <1>1, <1>2, <1>5 DEF IInv, Main, StoppedIsProof, DiskIsExclusive, OneQemu, LiveLeavesMarker,
                          WriterAlone, At, h
<1>8. LastChild' /\ SameTable' /\ NoChild' /\ Proven' /\ Launched'
  BY <1>1, <1>2, <1>3, <1>5 DEF IInv, Main, LastChild, SameTable, NoChild, Proven, Launched
<1> QED BY <1>4, <1>6, <1>7, <1>8 DEF IInv, Main

\* So does whatever QEMU, the supervisor's environment and the host do.
LEMMA WorldIInv ==
  ASSUME IInv,
         QemuBinds \/ QemuExits \/ SupervisorDies \/ WriterEnds \/ HostReboots
  PROVE  IInv'
<1>0. Main /\ Readers BY DEF IInv, Main
<1>a. Readers'
  <2>1. CASE SupervisorDies \/ HostReboots
    BY <2>1 DEF SupervisorDies, HostReboots, NoThreads, Readers, Reader, Others, Idle
  <2>2. CASE QemuBinds \/ QemuExits \/ WriterEnds
    BY <2>2, <1>0, ReadersKept DEF QemuBinds, QemuExits, WriterEnds, Main, TypeOK, Alive
  <2> QED BY <2>1, <2>2
<1>b. Main'
  <2> USE <1>0, InstancesAssumption, ThreadsAssumption
      DEF Main, TypeOK, StoppedIsProof, DiskIsExclusive, OneQemu, LiveLeavesMarker,
          LastChild, SameTable, NoChild, Proven, Launched, WriterAlone, h, Alive, File, Marks,
          Thread, Idle, Ops, Places, Status, At
  <2>1. CASE QemuBinds      BY <2>1 DEF QemuBinds
  <2>2. CASE QemuExits      BY <2>2 DEF QemuExits
  <2>3. CASE SupervisorDies
    <3>1. h' = Idle /\ th' \in [Threads -> Thread]
      BY <2>3 DEF SupervisorDies, NoThreads
    <3>2. UNCHANGED <<qemu, marker, sock>> /\ proc' = "none" /\ writer' \in BOOLEAN
      BY <2>3 DEF SupervisorDies
    <3>3. writer' => Alive = {}
      BY <2>3 DEF SupervisorDies
    <3> QED BY <3>1, <3>2, <3>3
  <2>4. CASE WriterEnds     BY <2>4 DEF WriterEnds
  <2>5. CASE HostReboots    BY <2>5 DEF HostReboots, NoThreads
  <2> QED BY <2>1, <2>2, <2>3, <2>4, <2>5
<1> QED BY <1>a, <1>b DEF IInv, Main

\* As long as no status is read beside a launch, the invariant holds.
THEOREM Inductive == Spec /\ []Apart => []IInv
<1>1. IInv /\ Apart /\ [Next]_vars => IInv'
  <2> SUFFICES ASSUME IInv, Apart, [Next]_vars PROVE IInv' OBVIOUS
  <2>1. CASE Begin("holder") \/ Step("holder")
    BY <2>1, HolderMain, HolderReaders DEF IInv, Main
  <2>2. ASSUME NEW t \in Others, Begin(t) \/ Step(t) PROVE IInv'
    BY <2>2, ReaderIInv
  <2>3. CASE QemuBinds \/ QemuExits \/ SupervisorDies \/ WriterEnds \/ HostReboots
    BY <2>3, WorldIInv
  <2>4. CASE UNCHANGED vars
    BY <2>4 DEF vars, IInv, Main, TypeOK, StoppedIsProof, DiskIsExclusive, OneQemu, LiveLeavesMarker,
                LastChild, SameTable, NoChild, Proven, Launched, WriterAlone, Readers, Reader,
                h, Alive, At
  <2> QED BY <2>1, <2>2, <2>3, <2>4 DEF Next, Ordinary, Others
<1> QED BY <1>1, InitIInv, PTL DEF Spec

\* The machine lock alone, with no thread beside it, keeps readers apart.
LEMMA LockedIsApart == ASSUME Threads = {"holder"} PROVE Apart
  BY DEF Apart, Others

\* Whatever thread reads beside the holder, every variable keeps its type.
THEOREM TypeCorrect == Spec => []TypeOK
<1> USE InstancesAssumption
    DEF TypeOK, Alive, File, Marks, Thread, Idle, Ops, Places, Status, At, Goto, Answer
<1>1. Init => TypeOK
  BY InitIInv DEF IInv, Main
<1>2. ASSUME TypeOK, NEW t \in Threads, Begin(t) \/ Step(t) PROVE TypeOK'
  <2> USE <1>2
  <2>1. th[t] \in Thread
    OBVIOUS
  <2>2. CASE Begin(t)
    <3>1. PICK op \in Ops : th' = [th EXCEPT ![t] = [Idle EXCEPT !.op = op, !.at = "look"]]
      BY <2>2 DEF Begin
    <3> QED BY <2>2, <3>1 DEF Begin
  <2>3. CASE Look(t)      BY <2>1, <2>3 DEF Look
  <2>4. CASE Pop(t)       BY <2>1, <2>4 DEF Pop
  <2>5. CASE Unmark(t)    BY <2>1, <2>5 DEF Unmark
  <2>6. CASE Unsock(t)    BY <2>1, <2>6 DEF Unsock
  <2>7. CASE Ask(t)       BY <2>1, <2>7 DEF Ask
  <2>8. CASE Evidence(t)  BY <2>1, <2>8 DEF Evidence
  <2>9. CASE Told(t)      BY <2>1, <2>9 DEF Told
  <2>10. CASE Place(t)    BY <2>1, <2>10 DEF Place
  <2>11. CASE Spawn(t)    BY <2>1, <2>11 DEF Spawn
  <2>12. CASE Record(t)   BY <2>1, <2>12 DEF Record
  <2>13. CASE Confirm(t)  BY <2>1, <2>13 DEF Confirm
  <2>14. CASE Change(t)   BY <2>1, <2>14 DEF Change
  <2> QED BY <2>2, <2>3, <2>4, <2>5, <2>6, <2>7, <2>8, <2>9, <2>10, <2>11, <2>12, <2>13, <2>14 DEF Step
<1>3. ASSUME TypeOK, QemuBinds \/ QemuExits \/ WriterEnds PROVE TypeOK'
  BY <1>3 DEF QemuBinds, QemuExits, WriterEnds
<1>6. ASSUME TypeOK, SupervisorDies \/ HostReboots PROVE TypeOK'
  <2>1. th' \in [Threads -> Thread]
    BY <1>6 DEF SupervisorDies, HostReboots, NoThreads
  <2> QED BY <1>6, <2>1 DEF SupervisorDies, HostReboots
<1>4. TypeOK /\ UNCHANGED vars => TypeOK'
  BY DEF vars
<1>5. TypeOK /\ [Next]_vars => TypeOK'
  BY <1>2, <1>3, <1>4, <1>6 DEF Next, Ordinary
<1> QED BY <1>1, <1>5, PTL DEF Spec

\* A stopped status read under the lock is proof.
THEOREM StoppedProven == Spec /\ []Apart => []StoppedIsProof
BY Inductive, PTL DEF IInv, Main

\* A disk that is being replaced is in use by no QEMU, not even across the
\* death of the supervisor that began it.
THEOREM DiskExclusion == Spec /\ []Apart => []DiskIsExclusive
BY Inductive, PTL DEF IInv, Main

\* At most one QEMU of the machine is alive.
THEOREM SingleQemu == Spec /\ []Apart => []OneQemu
BY Inductive, PTL DEF IInv, Main

\* A live QEMU is always on record.
THEOREM MarkedWhileAlive == Spec /\ []Apart => []LiveLeavesMarker
BY Inductive, PTL DEF IInv, Main

\* Only a process that has exited loses its marker.
THEOREM MarkerDiscipline == Spec /\ []Apart => MarkerClearedOnExit
<1>1. IInv /\ [Next]_vars => [marker # "none" /\ marker' = "none" => Alive = {}]_vars
  <2> SUFFICES ASSUME IInv, Next, marker # "none", marker' = "none" PROVE Alive = {}
    BY DEF vars
  <2>1. ASSUME NEW t \in Threads, Unmark(t) PROVE Alive = {}
    BY <2>1 DEF Unmark, IInv, Main, Proven, Readers, Reader, Others, h, At
  <2>2. ASSUME NEW t \in Threads, Record(t) PROVE FALSE
    <3>1. t = "holder"
      BY <2>2 DEF Record, IInv, Main, Readers, Reader, Others, At
    <3> QED
      BY <2>2, <3>1, InstancesAssumption DEF Record, IInv, Main, Launched, h, At, Marks
  <2>3. CASE UNCHANGED marker
    BY <2>3
  <2>4. \A t \in Threads : ~Place(t)
    BY DEF Place
  <2> QED
    BY <2>1, <2>2, <2>3, <2>4
    DEF Next, Ordinary, Step, Begin, Look, Pop, Unsock, Ask, Evidence, Told, Spawn, Confirm, Change,
        QemuBinds, QemuExits, SupervisorDies, WriterEnds, HostReboots
<1> QED BY <1>1, Inductive, PTL DEF Spec, MarkerClearedOnExit
=============================================================================
