---------------------------- MODULE QemuEvidence ----------------------------
(***************************************************************************)
(* What the native runner (src/runtime/native/host.py) knows about the     *)
(* QEMU process of one machine, and what it does on the strength of it.    *)
(*                                                                         *)
(* QEMU outlives the supervisor that launched it.  A supervisor therefore  *)
(* concludes "stopped" from four pieces of evidence: the child process it  *)
(* launched itself, the QMP socket, a marker file that is written before   *)
(* every launch, and the process identity the marker holds after it.  A    *)
(* wrong conclusion puts two QEMUs, or a QEMU and a restore, on one disk.  *)
(*                                                                         *)
(* Threads of the supervisor take one step per file or table access.  The  *)
(* "holder" has the machine lock; a "submitter" is inside submit_storage,  *)
(* which reads the status with the storage guard only.                     *)
(*                                                                         *)
(* Abstractions.  A QEMU process is named by its identity (boot UUID, PID  *)
(* and start time), so a reused PID is another name.  Files are durable    *)
(* once written.  An exit is possible at any time, whether the guest, the  *)
(* user or a stop command asked for it, so a stop only reads the status.   *)
(***************************************************************************)
EXTENDS FiniteSets

CONSTANTS
  Instances,  \* the QEMU processes that may ever be launched (a bound)
  Threads,    \* {"holder"}, or {"holder", "submitter"}
  Linux       \* whether /proc tells which process a marker stands for

Marks == {"none", "launching"}

ASSUME InstancesAssumption == Instances \cap Marks = {}
ASSUME ThreadsAssumption == "holder" \in Threads /\ Threads \subseteq {"holder", "submitter"}
ASSUME LinuxAssumption == Linux \in BOOLEAN

VARIABLES
  qemu,    \* the life of every QEMU process
  proc,    \* self.processes: the child of this supervisor, lost with it
  marker,  \* running.marker in the machine's folder
  sock,    \* the QMP socket file, named by the process that bound it
  writer,  \* a disk transform that survived its supervisor and holds its lease
  th       \* the threads of the supervisor

vars == <<qemu, proc, marker, sock, writer, th>>

Alive == {i \in Instances : qemu[i] \in {"booting", "up"}}
File == Instances \cup {"none"}
Ops == {"describe", "start", "stop", "mutate", "submit"}
Status == {"stopped", "starting", "running", "unknown"}
Places == {"idle", "look", "pop", "unmark", "unsock", "ask", "evidence", "told",
           "place", "spawn", "record", "confirm", "change"}
Thread == [op : Ops, at : Places, child : File, ans : Status]
Idle == [op |-> "describe", at |-> "idle", child |-> "none", ans |-> "unknown"]

TypeOK ==
  /\ qemu \in [Instances -> {"unborn", "booting", "up", "dead"}]
  /\ proc \in File
  /\ marker \in Instances \cup Marks
  /\ sock \in File
  /\ writer \in BOOLEAN
  /\ th \in [Threads -> Thread]

Init ==
  /\ qemu = [i \in Instances |-> "unborn"]
  /\ proc = "none" /\ marker = "none" /\ sock = "none"
  /\ writer = FALSE
  /\ th = [t \in Threads |-> Idle]
-----------------------------------------------------------------------------
(* The status of a machine, read by thread t. *)

At(t, place) == th[t].at = place
Goto(t, place) == th' = [th EXCEPT ![t].at = place]
Answer(t, s) == th' = [th EXCEPT ![t].at = "told", ![t].ans = s]

\* Faulty variant of Begin: transforms do not inherit the lease, so a new
\* supervisor works beside them.
BeginBesideWriter(t) ==
  /\ At(t, "idle")
  /\ \E op \in IF t = "holder" THEN Ops \ {"submit"} ELSE {"submit"} :
       th' = [th EXCEPT ![t] = [Idle EXCEPT !.op = op, !.at = "look"]]
  /\ UNCHANGED <<qemu, proc, marker, sock, writer>>

\* A request is taken up; a supervisor runs only if it could take the lease.
Begin(t) ==
  /\ At(t, "idle")
  /\ ~writer
  /\ \E op \in IF t = "holder" THEN Ops \ {"submit"} ELSE {"submit"} :
       th' = [th EXCEPT ![t] = [Idle EXCEPT !.op = op, !.at = "look"]]
  /\ UNCHANGED <<qemu, proc, marker, sock, writer>>

\* Faulty variant of Look: a child without its QMP socket counts as exited.
LookForSocket(t) ==
  /\ At(t, "look")
  /\ th' = [th EXCEPT ![t].child = proc,
                      ![t].at = IF proc # "none" /\ sock # proc THEN "pop" ELSE "ask"]
  /\ UNCHANGED <<qemu, proc, marker, sock, writer>>

\* process.poll(): the exit of an own child is proof.
Look(t) ==
  /\ At(t, "look")
  /\ th' = [th EXCEPT ![t].child = proc,
                      ![t].at = IF proc # "none" /\ proc \notin Alive THEN "pop" ELSE "ask"]
  /\ UNCHANGED <<qemu, proc, marker, sock, writer>>

Pop(t) ==
  /\ At(t, "pop")
  /\ proc' = "none"
  /\ Goto(t, "unmark")
  /\ UNCHANGED <<qemu, marker, sock, writer>>

\* clear_running_marker removes two files, one after the other.
Unmark(t) ==
  /\ At(t, "unmark")
  /\ marker' = "none"
  /\ Goto(t, "unsock")
  /\ UNCHANGED <<qemu, proc, sock, writer>>

Unsock(t) ==
  /\ At(t, "unsock")
  /\ sock' = "none"
  /\ Answer(t, "stopped")
  /\ UNCHANGED <<qemu, proc, marker, writer>>

\* QMP query-status.  Any attempt may time out; a bad answer fails the request.
Ask(t) ==
  /\ At(t, "ask")
  /\ \/ sock \in Alive /\ \E s \in {"running", "unknown"} : Answer(t, s)
     \/ th[t].child # "none" /\ Answer(t, "starting")
     \/ th[t].child = "none" /\ Goto(t, "evidence")
     \/ sock \in Alive /\ th' = [th EXCEPT ![t] = Idle]
  /\ UNCHANGED <<qemu, proc, marker, sock, writer>>

\* Faulty variant of KnownExited: an incomplete launch receipt counts as exit.
KnownExitedIfNotAlive == Linux /\ marker \notin Alive

\* Faulty variant of KnownExited: only a process in the table is looked up.
KnownExitedOfChild == Linux /\ marker = proc /\ marker \in Instances /\ marker \notin Alive

\* known_process_exited: only a full identity can prove an exit.
KnownExited == Linux /\ marker \in Instances /\ marker \notin Alive

\* Faulty variant of Evidence: a machine without evidence is absent.
EvidenceOrAbsent(t) ==
  /\ At(t, "evidence")
  /\ \/ marker = "none" /\ Answer(t, IF sock = "none" THEN "absent" ELSE "unknown")
     \/ marker # "none" /\ KnownExited /\ Goto(t, "unmark")
     \/ marker # "none" /\ ~KnownExited /\ Answer(t, "unknown")
  /\ UNCHANGED <<qemu, proc, marker, sock, writer>>

\* No answer: the marker decides, and without one a socket that was left
\* behind keeps the machine unknown.
Evidence(t) ==
  /\ At(t, "evidence")
  /\ \/ marker = "none" /\ Answer(t, IF sock = "none" THEN "stopped" ELSE "unknown")
     \/ marker # "none" /\ KnownExited /\ Goto(t, "unmark")
     \/ marker # "none" /\ ~KnownExited /\ Answer(t, "unknown")
  /\ UNCHANGED <<qemu, proc, marker, sock, writer>>
-----------------------------------------------------------------------------
(* What is done with it. *)

\* describe, stop and submit_storage end with their answer; start and mutate
\* (restore, resize, snapshot, reseed, destroy) go on only if it is stopped,
\* and a start may still meet a limit of the host.
Told(t) ==
  /\ At(t, "told")
  /\ \/ /\ ~(th[t].op = "mutate" /\ th[t].ans = "stopped")
        /\ th' = [th EXCEPT ![t] = Idle]
     \/ th[t].op = "start" /\ th[t].ans = "stopped" /\ Goto(t, "place")
     \/ th[t].op = "mutate" /\ th[t].ans = "stopped" /\ Goto(t, "change")
  /\ UNCHANGED <<qemu, proc, marker, sock, writer>>

\* Faulty variant of Place: the intent is not saved before the launch.
PlaceWithoutMarker(t) ==
  /\ At(t, "place")
  /\ sock' = "none"
  /\ Goto(t, "spawn")
  /\ UNCHANGED <<qemu, proc, marker, writer>>

\* The intent to launch is saved before Popen.
Place(t) ==
  /\ At(t, "place")
  /\ sock' = "none"
  /\ marker' = "launching"
  /\ Goto(t, "spawn")
  /\ UNCHANGED <<qemu, proc, writer>>

\* Popen.  An error proves that there is no child; the request then fails
\* with nothing left behind.
Spawn(t) ==
  /\ At(t, "spawn")
  /\ \/ \E i \in Instances :
          /\ qemu[i] = "unborn"
          /\ qemu' = [qemu EXCEPT ![i] = "booting"]
          /\ th' = [th EXCEPT ![t].at = "record", ![t].child = i]
     \/ th' = [th EXCEPT ![t].at = "unmark", ![t].op = "describe"] /\ UNCHANGED qemu
  /\ UNCHANGED <<proc, marker, sock, writer>>

\* The child enters the table and, where /proc can be read, the marker.
Record(t) ==
  /\ At(t, "record")
  /\ proc' = th[t].child
  /\ marker' = marker \/ (Linux /\ marker' = th[t].child)
  /\ Goto(t, "confirm")
  /\ UNCHANGED <<qemu, sock, writer>>

Confirm(t) ==
  /\ At(t, "confirm")
  /\ th' = IF th[t].child \in Alive
           THEN [th EXCEPT ![t].op = "describe", ![t].at = "look"]
           ELSE [th EXCEPT ![t] = Idle]
  /\ UNCHANGED <<qemu, proc, marker, sock, writer>>

\* The disk or the identity image is replaced while the lock is held.
Change(t) ==
  /\ At(t, "change")
  /\ th' = [th EXCEPT ![t] = Idle]
  /\ UNCHANGED <<qemu, proc, marker, sock, writer>>

Step(t) ==
  \/ Look(t) \/ Pop(t) \/ Unmark(t) \/ Unsock(t) \/ Ask(t) \/ Evidence(t)
  \/ Told(t) \/ Place(t) \/ Spawn(t) \/ Record(t) \/ Confirm(t) \/ Change(t)
-----------------------------------------------------------------------------
(* QEMU and the host. *)

QemuBinds ==
  /\ \E i \in Instances :
       /\ qemu[i] = "booting"
       /\ qemu' = [qemu EXCEPT ![i] = "up"]
       /\ sock' = i
  /\ UNCHANGED <<proc, marker, writer, th>>

\* A clean exit removes the socket, a killed process leaves it behind.
QemuExits ==
  /\ \E i \in Alive :
       /\ qemu' = [qemu EXCEPT ![i] = "dead"]
       /\ sock' = sock \/ (qemu[i] = "up" /\ sock' = "none")
  /\ UNCHANGED <<proc, marker, writer, th>>

NoThreads == [t \in Threads |-> Idle]

\* The supervisor crashes, or exits because a transform timed out, and is
\* started again.  A transform under way may survive it with the lease.
SupervisorDies ==
  /\ proc' = "none"
  /\ th' = NoThreads
  /\ writer' = writer \/ (At("holder", "change") /\ writer' = TRUE)
  /\ UNCHANGED <<qemu, marker, sock>>

WriterEnds ==
  /\ writer
  /\ writer' = FALSE
  /\ UNCHANGED <<qemu, proc, marker, sock, th>>

\* The host loses power: every process is gone, every file stays.
HostReboots ==
  /\ qemu' = [i \in Instances |-> IF i \in Alive THEN "dead" ELSE qemu[i]]
  /\ proc' = "none"
  /\ writer' = FALSE
  /\ th' = NoThreads
  /\ UNCHANGED <<marker, sock>>

Ordinary ==
  \/ \E t \in Threads : Begin(t) \/ Step(t)
  \/ QemuBinds \/ QemuExits \/ WriterEnds

Next == Ordinary \/ SupervisorDies \/ HostReboots

Spec == Init /\ [][Next]_vars

\* The control plane keeps asking for the status, threads and transforms go
\* on, and the supervisor is not killed for ever.
Fairness ==
  /\ \A t \in Threads : WF_vars(Begin(t)) /\ WF_vars(Step(t))
  /\ WF_vars(WriterEnds)
  /\ <>[][SupervisorDies \/ HostReboots => Ordinary]_vars

FairSpec == Spec /\ Fairness
-----------------------------------------------------------------------------
(* Properties. *)

\* A stopped status is proof: as long as the thread that read it under the
\* machine lock has not released the lock, no QEMU of the machine is alive,
\* whatever crashed, rebooted or timed out before.
StoppedIsProof ==
  At("holder", "told") /\ th["holder"].ans = "stopped" => Alive = {}

\* A disk that is being replaced, be it by a transform that survived its
\* supervisor, is in use by no QEMU.
DiskIsExclusive == At("holder", "change") \/ writer => Alive = {}

\* Two QEMUs never run on one disk.
OneQemu == \A i, j \in Alive : i = j

\* Whatever the supervisor forgets, the folder of a machine with a live QEMU
\* says so: it holds that very process or an unfinished launch.
LiveLeavesMarker == Alive # {} => marker = "launching" \/ marker \in Alive

\* Only a process that has exited can lose its marker.
MarkerClearedOnExit == [][marker # "none" /\ marker' = "none" => Alive = {}]_vars

\* Once QEMU has exited with its identity on record, whoever keeps asking
\* learns it, also from a supervisor that never knew the process.
ExitIsNoticed == Alive = {} /\ marker \in Instances ~> marker \notin Instances \/ Alive # {}
=============================================================================
