----------------------------- MODULE AtomicDisk -----------------------------
(***************************************************************************)
(* What the storage journal of the native runner promises its clients      *)
(* about one machine's disk and snapshots: one operation at a time, which  *)
(* takes effect once or not at all, and whose answer says which.           *)
(***************************************************************************)
EXTENDS Naturals

CONSTANTS
  Operations,  \* storage operations, see NativeStorage
  Contents,    \* what a disk may hold
  None         \* no snapshot

VARIABLES
  disk,     \* content and size of the machine's disk
  catalog,  \* the snapshots that are published
  status,   \* what is known about every operation
  applied   \* whether the open operation has taken effect on the disk

vars == <<disk, catalog, status, applied>>

Open(o) == status[o] = "open"

AtomicInit ==
  /\ disk.data \in Contents
  /\ catalog = [s \in {o.snap : o \in Operations} |-> None]
  /\ status = [o \in Operations |-> "none"]
  /\ applied = FALSE

Accept(o) ==
  /\ status[o] = "none"
  /\ \A p \in Operations : ~Open(p)
  /\ status' = [status EXCEPT ![o] = "open"]
  /\ UNCHANGED <<disk, catalog, applied>>

\* A restore brings back the published content and never a smaller disk, a
\* resize keeps the content.
Apply(o) ==
  /\ Open(o) /\ ~applied
  /\ \/ o.verb = "restore" /\ catalog[o.snap] # None
        /\ disk' = [data |-> catalog[o.snap].data, size |-> disk.size]
     \/ o.verb = "resize" /\ o.size >= disk.size
        /\ disk' = [data |-> disk.data, size |-> o.size]
  /\ applied' = TRUE
  /\ UNCHANGED <<catalog, status>>

Publish(o) ==
  /\ Open(o) /\ o.verb = "snapshot" /\ catalog[o.snap] = None
  /\ catalog' = [catalog EXCEPT ![o.snap] = disk]
  /\ UNCHANGED <<disk, status, applied>>

Remove(o) ==
  /\ Open(o) /\ o.verb = "snapshot-delete"
  /\ catalog' = [catalog EXCEPT ![o.snap] = None]
  /\ UNCHANGED <<disk, status, applied>>

Complete(o) ==
  /\ Open(o)
  /\ o.verb \in {"restore", "resize"} => applied
  /\ o.verb = "snapshot" => catalog[o.snap] # None
  /\ o.verb = "snapshot-delete" => catalog[o.snap] = None
  /\ status' = [status EXCEPT ![o] = "completed"]
  /\ applied' = FALSE
  /\ UNCHANGED <<disk, catalog>>

Fail(o) ==
  /\ Open(o) /\ ~applied
  /\ status' = [status EXCEPT ![o] = "failed"]
  /\ UNCHANGED <<disk, catalog, applied>>

\* The guest writes, but never onto a disk that was just exchanged and not
\* yet answered for.
Write ==
  /\ ~applied
  /\ \E d \in Contents : disk' = [disk EXCEPT !.data = d]
  /\ UNCHANGED <<catalog, status, applied>>

AtomicNext ==
  \/ Write
  \/ \E o \in Operations :
       Accept(o) \/ Apply(o) \/ Publish(o) \/ Remove(o) \/ Complete(o) \/ Fail(o)

AtomicSpec == AtomicInit /\ [][AtomicNext]_vars
=============================================================================
