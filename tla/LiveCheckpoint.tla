--------------------------- MODULE LiveCheckpoint ---------------------------
(***************************************************************************)
(* Checkpoints of a running machine (src/runtime/native/live_checkpoint.py)*)
(*                                                                         *)
(* The coordinator, a worker of the native runner, freezes the guest's     *)
(* file system over SSH, pauses QEMU, copies the disk, resumes, thaws, and *)
(* publishes the copy once it has proof of the thaw.  Three guardians act  *)
(* beside it: a detached watchdog on the host, the helper in the guest     *)
(* when its connection ends, and the helper's own guardian at a deadline.  *)
(*                                                                         *)
(* Abstractions.  One machine and one QEMU, whose exit is final here: a    *)
(* start waits for pending receipts (HostLifecycle).  An attempt is the    *)
(* operation it serves and has a snapshot of its own.  The copy is "whole" *)
(* as long as its file system was frozen from its first to its last byte.  *)
(* The SSH control process ends when its standard input is closed, so the  *)
(* signals that end it are closings of the connection.  The guest reads    *)
(* its lease after the host computed its own, so its deadline is later.    *)
(***************************************************************************)
EXTENDS Naturals

CONSTANTS
  Last,   \* the number of checkpoints
  Faults  \* "reboot": the guest may boot anew; "linger": guardians of an
          \* earlier attempt may still run when a later one freezes; "misread":
          \* what a worker reads before it recovers may be unreadable

ASSUME LastAssumption == Last \in Nat \ {0}
ASSUME FaultsAssumption == Faults \subseteq {"reboot", "linger", "misread"}

Attempts == 1 .. Last

VARIABLES
  status,    \* receipts
  phase,     \* journals: .checkpoint-state
  abort,     \* journals: .abort
  copy,      \* the staged copy of the pending operation, and what it is worth
  published, \* manifests, with what their copy is worth
  w,         \* the worker under the machine lock
  clock,     \* 1: the host's deadline of an attempt has passed, 2: the guest's too
  watch,     \* the watchdog of an attempt
  open,      \* whether its SSH connection is open
  cmd, msg,  \* what is under way on it
  qemu,      \* running, paused or exited
  frozen,    \* the guest's root file system
  helper,    \* the guest process on the connection
  guardian,  \* its child
  state      \* /run/mola-checkpoints

receipts == <<status, phase, abort, copy, published>>
channel  == <<open, cmd, msg>>
guest    == <<frozen, helper, guardian, state>>
vars     == <<receipts, w, clock, watch, channel, qemu, guest>>

Phases == {"none", "preparing", "freezing", "pausing", "copying", "resuming",
           "released", "sealed", "aborted"}
Over == {"released", "sealed", "aborted"}
Places == {"idle", "begin", "watchdog", "open", "ready", "freeze", "frozen", "stop", "check",
           "copy", "copying", "cont", "thaw", "released", "seal", "sealed", "complete",
           "abort", "look", "proof", "fail"}
NoWork == [op |-> 0, at |-> "idle", mode |-> "run"]

TypeOK ==
  /\ status \in [Attempts -> {"none", "pending", "completed", "failed"}]
  /\ phase \in [Attempts -> Phases]
  /\ abort \in [Attempts -> BOOLEAN]
  /\ copy \in {"none", "whole", "mixed"}
  /\ published \in [Attempts -> {"none", "whole", "mixed"}]
  /\ w \in [op : Attempts \cup {0}, at : Places, mode : {"run", "undo", "recover"}]
  /\ clock \in [Attempts -> 0 .. 2]
  /\ watch \in [Attempts -> {"none", "watch", "orphan", "break", "cont", "query", "gone"}]
  /\ open \in [Attempts -> BOOLEAN]
  /\ cmd \in [Attempts -> SUBSET {"freeze", "thaw"}]
  /\ msg \in [Attempts -> SUBSET {"ready", "frozen", "released"}]
  /\ qemu \in {"running", "paused", "exited"}
  /\ frozen \in BOOLEAN
  /\ helper \in [Attempts -> {"none", "starting", "ready", "freezing", "frozen", "dying", "final", "gone"}]
  /\ guardian \in [Attempts -> {"none", "watching", "thawing", "proving", "gone"}]
  /\ state \in [Attempts -> {"none", "ready", "freezing", "frozen", "released", "lost"}]

Init ==
  /\ status = [a \in Attempts |-> "none"]
  /\ phase = [a \in Attempts |-> "none"]
  /\ abort = [a \in Attempts |-> FALSE]
  /\ copy = "none"
  /\ published = [a \in Attempts |-> "none"]
  /\ w = NoWork
  /\ clock = [a \in Attempts |-> 0]
  /\ watch = [a \in Attempts |-> "none"]
  /\ open = [a \in Attempts |-> FALSE]
  /\ cmd = [a \in Attempts |-> {}]
  /\ msg = [a \in Attempts |-> {}]
  /\ qemu = "running"
  /\ frozen = FALSE
  /\ helper = [a \in Attempts |-> "none"]
  /\ guardian = [a \in Attempts |-> "none"]
  /\ state = [a \in Attempts |-> "none"]

Pending(a) == status[a] = "pending"
NothingPending == \A a \in Attempts : ~Pending(a)
-----------------------------------------------------------------------------
(* Requests. *)

Submit(a) ==
  /\ status[a] = "none" /\ NothingPending
  /\ \A b \in 1 .. (a - 1) : status[b] # "none"
  /\ status' = [status EXCEPT ![a] = "pending"]
  /\ w' = [op |-> a, at |-> "begin", mode |-> "run"]
  /\ UNCHANGED <<phase, abort, copy, published, clock, watch, channel, qemu, guest>>

\* A repeated request launches a worker unless one is alive.
Resubmit(a) ==
  /\ Pending(a) /\ w.at = "idle"
  /\ w' = [op |-> a, at |-> "begin", mode |-> "run"]
  /\ UNCHANGED <<receipts, clock, watch, channel, qemu, guest>>
-----------------------------------------------------------------------------
(* The coordinator.  Each step ends at the next durable write, QMP command, *)
(* or word from the guest.                                                  *)

op == w.op
At(place) == w.at = place
Goto(place) == w' = [w EXCEPT !.at = place]
Phase(p) == phase' = [phase EXCEPT ![op] = p]

\* guest.close() ends the connection on every way out, and what is unread.
Close == open' = [open EXCEPT ![op] = FALSE] /\ msg' = [msg EXCEPT ![op] = {}]

\* The receipt stays pending.
LeavePending == w' = NoWork /\ Close

\* A write that fails has taken effect or has not.
Fails(p) == (Phase(p) \/ UNCHANGED phase) /\ Goto("fail")

Begin ==
  /\ At("begin")
  /\ \/ /\ phase[op] = "none" /\ qemu = "running"
        /\ Phase("preparing") /\ Goto("watchdog")
        /\ UNCHANGED abort
     \/ phase[op] = "none" /\ Fails("preparing") /\ UNCHANGED abort
     \/ phase[op] = "aborted" /\ Goto("fail") /\ UNCHANGED <<phase, abort>>
     \/ /\ phase[op] \in {"released", "sealed"} /\ ~abort[op]
        /\ w' = [op |-> op, at |-> "seal", mode |-> "recover"]
        /\ UNCHANGED <<phase, abort>>
     \/ /\ phase[op] \notin {"none", "aborted"}
        /\ phase[op] \in {"released", "sealed"} => abort[op]
        /\ abort' = [abort EXCEPT ![op] = TRUE]
        /\ w' = [op |-> op, at |-> "look", mode |-> "recover"]
        /\ UNCHANGED phase
  /\ UNCHANGED <<status, copy, published, clock, watch, channel, qemu, guest>>

StartWatchdog ==
  /\ At("watchdog")
  /\ watch' = [watch EXCEPT ![op] = "watch"]
  /\ Goto("open")
  /\ UNCHANGED <<receipts, clock, channel, qemu, guest>>

\* Guest processes of an earlier attempt that may still thaw.
Lingering == \E a \in 1 .. (op - 1) :
  helper[a] \notin {"none", "gone"} \/ guardian[a] \notin {"none", "gone"}

OpenGuest ==
  /\ At("open")
  /\ Lingering => "linger" \in Faults
  /\ open' = [open EXCEPT ![op] = TRUE]
  /\ helper' = [helper EXCEPT ![op] = "starting"]
  /\ Goto("ready")
  /\ UNCHANGED <<receipts, clock, watch, cmd, msg, qemu, frozen, guardian, state>>

\* A line of the guest is awaited, and anything else is an error.
Receive(m) == msg[op] = {m} /\ msg' = [msg EXCEPT ![op] = {}]

Ready ==
  /\ At("ready") /\ Receive("ready")
  /\ Phase("freezing") /\ Goto("freeze")
  /\ UNCHANGED <<status, abort, copy, published, clock, watch, open, cmd, qemu, guest>>

\* What is written to a helper that no longer reads is lost.
Sends(c) == cmd' = IF helper[op] \in {"starting", "ready", "freezing", "frozen"}
                   THEN [cmd EXCEPT ![op] = @ \cup {c}] ELSE cmd

SendFreeze ==
  /\ At("freeze")
  /\ Sends("freeze")
  /\ Goto("frozen")
  /\ UNCHANGED <<receipts, clock, watch, open, msg, qemu, guest>>

Frozen ==
  /\ At("frozen") /\ Receive("frozen")
  /\ Phase("pausing") /\ Goto("stop")
  /\ UNCHANGED <<status, abort, copy, published, clock, watch, open, cmd, qemu, guest>>

Stop ==
  /\ At("stop") /\ qemu # "exited"
  /\ qemu' = "paused"
  /\ Goto("check")
  /\ UNCHANGED <<receipts, clock, watch, channel, guest>>

CheckPaused ==
  /\ At("check") /\ qemu = "paused"
  /\ Phase("copying") /\ Goto("copy")
  /\ UNCHANGED <<status, abort, copy, published, clock, watch, channel, qemu, guest>>

\* assert_attempt
Valid == ~abort[op] /\ clock[op] = 0

BeginCopy ==
  /\ At("copy") /\ Valid
  /\ copy' = IF frozen THEN "whole" ELSE "mixed"
  /\ Goto("copying")
  /\ UNCHANGED <<status, phase, abort, published, clock, watch, channel, qemu, guest>>

EndCopy ==
  /\ At("copying") /\ Valid /\ qemu = "paused"
  /\ Phase("resuming") /\ Goto("cont")
  /\ UNCHANGED <<status, abort, copy, published, clock, watch, channel, qemu, guest>>

\* Faulty variant of Continue: the recovery of a crashed worker leaves the
\* resume to the watchdog.
ContinueOwn ==
  /\ At("cont") /\ qemu # "exited"
  /\ qemu' = IF w.mode = "recover" THEN qemu ELSE "running"
  /\ Goto(IF w.mode = "recover" THEN "proof" ELSE "thaw")
  /\ UNCHANGED <<receipts, clock, watch, channel, guest>>

\* No attempt pauses QEMU between the resume and the question whether it runs.
Continue ==
  /\ At("cont") /\ qemu # "exited"
  /\ qemu' = "running"
  /\ Goto(IF w.mode = "recover" THEN "proof" ELSE "thaw")
  /\ UNCHANGED <<receipts, clock, watch, channel, guest>>

SendThaw ==
  /\ At("thaw") /\ open[op]
  /\ Sends("thaw")
  /\ Goto("released")
  /\ UNCHANGED <<receipts, clock, watch, open, msg, qemu, guest>>

\* The guard and the phase are one step under the attempt lock.
Released ==
  /\ At("released") /\ Receive("released")
  /\ IF w.mode = "undo"
     THEN Phase("aborted") /\ Goto("fail") /\ Close
     ELSE Valid /\ Phase("released") /\ Goto("seal") /\ UNCHANGED open
  /\ UNCHANGED <<status, abort, copy, published, clock, watch, cmd, qemu, guest>>

Seal ==
  /\ At("seal") /\ ~abort[op] /\ phase[op] \in {"released", "sealed"}
  /\ published' = [published EXCEPT ![op] = copy]
  /\ Goto("sealed")
  /\ UNCHANGED <<status, phase, abort, copy, clock, watch, channel, qemu, guest>>

Sealed ==
  /\ At("sealed")
  /\ Phase("sealed") /\ Goto("complete") /\ Close
  /\ UNCHANGED <<status, abort, copy, published, clock, watch, cmd, qemu, guest>>

Complete ==
  /\ At("complete")
  /\ status' = [status EXCEPT ![op] = "completed"]
  /\ w' = NoWork /\ copy' = "none"
  /\ UNCHANGED <<phase, abort, published, clock, watch, channel, qemu, guest>>

Fail ==
  /\ At("fail")
  /\ status' = [status EXCEPT ![op] = "failed"]
  /\ w' = NoWork /\ copy' = "none"
  /\ UNCHANGED <<phase, abort, published, clock, watch, channel, qemu, guest>>
-----------------------------------------------------------------------------
(* What the coordinator does after an error. *)

\* Places inside the try of checkpoint.
Trying == {"watchdog", "open", "ready", "freeze", "frozen", "stop", "check", "copy", "copying",
           "cont", "thaw", "released", "seal", "sealed"}

\* The coordinator cannot go on, or its guest takes its time.
Blocked ==
  \/ w.at \in {"ready", "frozen", "released"}
  \/ w.at \in {"stop", "cont"} /\ qemu = "exited"
  \/ w.at = "check" /\ qemu # "paused"
  \/ w.at = "copy" /\ ~Valid
  \/ w.at = "copying" /\ ~(Valid /\ qemu = "paused")
  \/ w.at = "thaw" /\ ~open[op]
  \/ w.at = "seal" /\ abort[op]
  \/ w.at = "proof" /\ ~(qemu = "running" /\ state[op] = "released")

Trouble ==
  /\ \/ w.mode = "run" /\ w.at \in Trying
        /\ w' = [op |-> op, at |-> "abort", mode |-> "undo"] /\ UNCHANGED <<open, msg>>
     \/ w.mode = "undo" /\ w.at \in Trying /\ LeavePending
     \/ w.mode = "recover" /\ w.at \in {"cont", "proof"} /\ LeavePending
     \/ w.at = "look" /\ phase[op] # "preparing" /\ LeavePending
     \/ w.at \in {"begin", "fail"} /\ LeavePending
     \/ w.mode = "recover" /\ w.at \in {"seal", "sealed"} /\ Goto("fail") /\ UNCHANGED <<open, msg>>
     \/ w.at = "complete" /\ Goto("fail") /\ UNCHANGED <<open, msg>>
  /\ UNCHANGED <<receipts, clock, watch, cmd, qemu, guest>>

\* What is read before the guarded part of recover is unreadable: the receipt
\* or metadata once more, the journal.  Its error is no CheckpointRecoveryPending.
Misread ==
  /\ "misread" \in Faults /\ At("begin") /\ phase[op] \notin {"none", "aborted"}
  /\ Goto("fail")
  /\ UNCHANGED <<receipts, clock, watch, channel, qemu, guest>>

\* The attempt is invalidated, if the journal can be written, and the guest
\* released over the open connection, if there is one.
Abort ==
  /\ At("abort")
  /\ \/ abort' = [abort EXCEPT ![op] = TRUE]
     \/ UNCHANGED abort
  /\ IF helper[op] = "none" THEN LeavePending ELSE Goto("cont") /\ UNCHANGED <<open, msg>>
  /\ UNCHANGED <<status, phase, copy, published, clock, watch, cmd, qemu, guest>>

\* Faulty variant of Look: an attempt that may have frozen the guest is
\* taken for one that has not.
LookEarly ==
  /\ At("look")
  /\ IF phase[op] \in {"preparing", "freezing"} \/ qemu = "exited"
     THEN Fails("aborted") ELSE Goto("cont") /\ UNCHANGED phase
  /\ UNCHANGED <<status, abort, copy, published, clock, watch, channel, qemu, guest>>

\* An attempt that cannot have frozen the guest, or whose guest is gone.
Look ==
  /\ At("look")
  /\ IF phase[op] = "preparing" \/ qemu = "exited"
     THEN Fails("aborted") ELSE Goto("cont") /\ UNCHANGED phase
  /\ UNCHANGED <<status, abort, copy, published, clock, watch, channel, qemu, guest>>

\* read_released
Proof ==
  /\ At("proof") /\ qemu = "running" /\ state[op] = "released"
  /\ Fails("aborted")
  /\ UNCHANGED <<status, abort, copy, published, clock, watch, channel, qemu, guest>>

\* The supervisor dies, which closes the connection; the next one relaunches
\* what is pending.
Crash ==
  /\ watch' = [a \in Attempts |-> IF watch[a] = "watch" THEN "orphan" ELSE watch[a]]
  /\ open' = [a \in Attempts |-> FALSE]
  /\ \/ \E a \in Attempts : Pending(a) /\ w' = [op |-> a, at |-> "begin", mode |-> "run"]
     \/ NothingPending /\ w' = NoWork
  /\ msg' = [a \in Attempts |-> {}]
  /\ UNCHANGED <<receipts, clock, cmd, qemu, guest>>

Coordinate == Begin \/ StartWatchdog \/ OpenGuest \/ Ready \/ SendFreeze \/ Frozen \/ Stop
                \/ CheckPaused \/ BeginCopy \/ EndCopy \/ Continue \/ SendThaw
                \/ Released \/ Seal \/ Sealed \/ Complete \/ Fail \/ Abort \/ Look \/ Proof
-----------------------------------------------------------------------------
(* The watchdog of an attempt. *)

Watchdog(a, from, to) == watch[a] \in from /\ watch' = [watch EXCEPT ![a] = to]
Alive == {"watch", "orphan"}

WatchdogBreaks(a) ==
  /\ \/ phase[a] \in Over /\ Watchdog(a, Alive, "gone")
     \/ phase[a] \notin Over /\ clock[a] > 0 /\ Watchdog(a, Alive, "break")
     \/ phase[a] \notin Over /\ Watchdog(a, {"orphan"}, "break")
  /\ UNCHANGED <<receipts, w, clock, channel, qemu, guest>>

\* Invalidation precedes the resume, unless it cannot be written.
WatchdogAborts(a) ==
  /\ \/ phase[a] \in Over /\ Watchdog(a, {"break"}, "gone") /\ UNCHANGED abort
     \/ phase[a] \notin Over /\ Watchdog(a, {"break"}, "cont")
          /\ abort' \in {abort, [abort EXCEPT ![a] = TRUE]}
  /\ UNCHANGED <<status, phase, copy, published, w, clock, channel, qemu, guest>>

WatchdogContinues(a) ==
  /\ qemu # "exited" /\ Watchdog(a, {"cont"}, "query")
  /\ qemu' = "running"
  /\ UNCHANGED <<receipts, w, clock, channel, guest>>

WatchdogQueries(a) ==
  /\ qemu = "paused" /\ Watchdog(a, {"query"}, "cont")
  /\ UNCHANGED <<receipts, w, clock, channel, qemu, guest>>

\* It ends the SSH connection once QEMU runs, or has exited.
WatchdogCloses(a) ==
  /\ \/ qemu = "running" /\ Watchdog(a, {"query"}, "gone")
     \/ qemu = "exited" /\ Watchdog(a, {"cont", "query"}, "gone")
  /\ open' = [open EXCEPT ![a] = FALSE]
  /\ UNCHANGED <<receipts, w, clock, cmd, msg, qemu, guest>>

\* An error while it waits ends the watchdog.
WatchdogDies(a) ==
  /\ Watchdog(a, Alive, "gone")
  /\ UNCHANGED <<receipts, w, clock, channel, qemu, guest>>

Watching(a) == \/ WatchdogBreaks(a) \/ WatchdogAborts(a) \/ WatchdogContinues(a)
               \/ WatchdogQueries(a) \/ WatchdogCloses(a)
-----------------------------------------------------------------------------
(* The guest: the helper and its guardian, which stand still while QEMU is  *)
(* paused.                                                                  *)

host == <<receipts, w, clock, watch, open, qemu>>

\* A helper that ends reads nothing more.
Becomes(a, h) == helper' = [helper EXCEPT ![a] = h]
Ends(a, h) == Becomes(a, h) /\ cmd' = [cmd EXCEPT ![a] = {}]
Marks(a, s) == state' = [state EXCEPT ![a] = s]
Says(a, m) == msg' = IF open[a] THEN [msg EXCEPT ![a] = @ \cup {m}] ELSE msg

\* The connection is made, or is not; a helper that finds it closed again
\* dies of its first word and leaves the guardian behind.
HelperStarts(a) ==
  /\ qemu = "running" /\ helper[a] = "starting"
  /\ \/ Ends(a, "gone") /\ UNCHANGED <<guardian, state, msg>>
     \/ /\ guardian' = [guardian EXCEPT ![a] = "watching"] /\ Marks(a, "ready")
        /\ IF open[a] THEN Becomes(a, "ready") /\ Says(a, "ready") /\ UNCHANGED cmd
                      ELSE Ends(a, "gone") /\ UNCHANGED msg
  /\ UNCHANGED <<host, frozen>>

HelperFreezes(a) ==
  /\ qemu = "running" /\ helper[a] = "ready" /\ "freeze" \in cmd[a]
  /\ IF clock[a] = 2
     THEN Ends(a, "final") /\ UNCHANGED state
     ELSE /\ Becomes(a, "freezing") /\ Marks(a, "freezing")
          /\ cmd' = [cmd EXCEPT ![a] = @ \ {"freeze"}]
  /\ UNCHANGED <<host, msg, frozen, guardian>>

\* Faulty variant of HelperFrozen: a freeze that fails is answered like one
\* that succeeds, as the helper does with a thaw.
HelperFrozenAnyway(a) ==
  /\ qemu = "running" /\ helper[a] \in {"freezing", "dying"}
  /\ frozen' \in {frozen, TRUE}
  /\ IF helper[a] = "freezing"
     THEN Becomes(a, "frozen") /\ Marks(a, "frozen") /\ Says(a, "frozen") /\ UNCHANGED cmd
     ELSE Ends(a, "gone") /\ UNCHANGED <<state, msg>>
  /\ UNCHANGED <<host, guardian>>

\* FIFREEZE returns, perhaps in a helper that is being killed.
HelperFrozen(a) ==
  /\ qemu = "running"
  /\ \/ /\ helper[a] = "freezing" /\ ~frozen
        /\ frozen' = TRUE /\ Becomes(a, "frozen") /\ Marks(a, "frozen") /\ Says(a, "frozen")
        /\ UNCHANGED cmd
     \/ /\ helper[a] = "freezing"
        /\ Ends(a, "final") /\ UNCHANGED <<frozen, state, msg>>
     \/ /\ helper[a] = "dying" /\ frozen' \in {frozen, TRUE}
        /\ Ends(a, "gone") /\ UNCHANGED <<state, msg>>
  /\ UNCHANGED <<host, guardian>>

\* The answer to a thaw follows the proof of it, which may fail.
HelperThaws(a) ==
  /\ qemu = "running" /\ helper[a] \in {"ready", "frozen"} /\ cmd[a] = {"thaw"}
  /\ frozen' = FALSE /\ Ends(a, "final")
  /\ \/ Marks(a, "released") /\ Says(a, "released")
     \/ UNCHANGED <<state, msg>>
  /\ UNCHANGED <<host, guardian>>

HelperHangsUp(a) ==
  /\ qemu = "running" /\ helper[a] \in {"ready", "frozen"} /\ ~open[a]
  /\ Ends(a, "final")
  /\ UNCHANGED <<host, msg, frozen, guardian, state>>

\* However it ends, the helper thaws once more.
HelperEnds(a) ==
  /\ qemu = "running" /\ helper[a] = "final"
  /\ frozen' = FALSE /\ Becomes(a, "gone")
  /\ Marks(a, "released") \/ UNCHANGED state
  /\ UNCHANGED <<host, cmd, msg, guardian>>

Guardian(a, from, to) ==
  qemu = "running" /\ guardian[a] = from /\ guardian' = [guardian EXCEPT ![a] = to]

\* After the deadline the helper is killed, which a pending freeze delays.
GuardianWakes(a) ==
  /\ \/ state[a] = "released" /\ Guardian(a, "watching", "gone") /\ UNCHANGED <<helper, cmd>>
     \/ /\ state[a] # "released" /\ clock[a] = 2 /\ Guardian(a, "watching", "thawing")
        /\ Ends(a, IF helper[a] \in {"freezing", "dying"} THEN "dying" ELSE "gone")
  /\ UNCHANGED <<host, msg, frozen, state>>

GuardianThaws(a) ==
  /\ Guardian(a, "thawing", "proving")
  /\ frozen' = FALSE
  /\ UNCHANGED <<host, cmd, msg, helper, state>>

\* Only a freezer that has exited can no longer freeze.
GuardianProves(a) ==
  /\ IF helper[a] = "gone"
     THEN Guardian(a, "proving", "gone") /\ frozen' = FALSE /\ Marks(a, "released")
     ELSE Guardian(a, "proving", "watching") /\ UNCHANGED <<frozen, state>>
  /\ UNCHANGED <<host, cmd, msg, helper>>

\* Faulty variant of GuardianFails: a guardian that cannot prove the release
\* ends like one that can.
GuardianGivesUp(a) ==
  /\ Guardian(a, "proving", "gone")
  /\ frozen' \in {frozen, FALSE}
  /\ UNCHANGED <<host, cmd, msg, helper, state>>

\* The release cannot be proved, or not be written down.
GuardianFails(a) ==
  /\ Guardian(a, "proving", "watching")
  /\ frozen' \in {frozen, FALSE}
  /\ UNCHANGED <<host, cmd, msg, helper, state>>

\* The guest changes its disk.
GuestWrites ==
  /\ qemu = "running" /\ ~frozen /\ w.at = "copying"
  /\ copy' = "mixed"
  /\ UNCHANGED <<status, phase, abort, published, w, clock, watch, channel, qemu, guest>>

\* Nothing of the guest's processes and of /run survives.
GuestEnds ==
  /\ frozen' = FALSE
  /\ helper' = [a \in Attempts |-> IF helper[a] = "none" THEN "none" ELSE "gone"]
  /\ guardian' = [a \in Attempts |-> IF guardian[a] = "none" THEN "none" ELSE "gone"]
  /\ state' = [a \in Attempts |-> IF state[a] = "none" THEN "none" ELSE "lost"]
  /\ cmd' = [a \in Attempts |-> {}]
  /\ UNCHANGED <<receipts, w, clock, watch, open, msg>>

GuestReboots == "reboot" \in Faults /\ qemu = "running" /\ GuestEnds /\ UNCHANGED qemu

QemuExits == qemu # "exited" /\ qemu' = "exited" /\ GuestEnds

\* A deadline passes.
Tick(a) ==
  /\ phase[a] # "none" /\ clock[a] < 2
  /\ \/ guardian[a] = "watching"
     \/ clock[a] = 0 /\ (Pending(a) \/ watch[a] \in Alive)
  /\ clock' = [clock EXCEPT ![a] = @ + 1]
  /\ UNCHANGED <<receipts, w, watch, channel, qemu, guest>>

Helping(a) == \/ HelperStarts(a) \/ HelperFreezes(a) \/ HelperFrozen(a) \/ HelperThaws(a)
              \/ HelperHangsUp(a) \/ HelperEnds(a)
Guarding(a) == GuardianWakes(a) \/ GuardianThaws(a) \/ GuardianProves(a)
-----------------------------------------------------------------------------
Next ==
  \/ \E a \in Attempts : \/ Submit(a) \/ Resubmit(a) \/ Watching(a) \/ WatchdogDies(a)
                         \/ Helping(a) \/ Guarding(a) \/ GuardianFails(a) \/ Tick(a)
  \/ Coordinate \/ Trouble \/ Misread \/ Crash \/ GuestWrites \/ GuestReboots \/ QemuExits

Spec == Init /\ [][Next]_vars
-----------------------------------------------------------------------------
(* Fairness.  Requests are repeated, threads and processes go on, time      *)
(* passes, and faults are not endless.                                      *)

Fault == \/ Trouble /\ ~Blocked
         \/ Misread \/ Crash \/ GuestReboots
         \/ \E a \in Attempts : WatchdogDies(a) \/ GuardianFails(a)

Ordinary ==
  \/ Coordinate
  \/ \E a \in Attempts : Resubmit(a) \/ Watching(a) \/ Helping(a) \/ Guarding(a) \/ Tick(a)

Fairness ==
  /\ WF_vars(Coordinate \/ (Trouble /\ Blocked))
  /\ WF_vars(\E a \in Attempts : Resubmit(a))
  /\ WF_vars(\E a \in Attempts : Watching(a))
  /\ WF_vars(\E a \in Attempts : Helping(a))
  /\ WF_vars(\E a \in Attempts : Guarding(a))
  /\ WF_vars(\E a \in Attempts : Tick(a))
  /\ <>[][Fault => Ordinary]_vars

FairSpec == Spec /\ Fairness
-----------------------------------------------------------------------------
(* Properties. *)

\* A checkpoint that is published holds the file system of one moment.
PublishedIsWhole == \A a \in Attempts : published[a] # "mixed"

\* A frozen guest has a guardian in it that will thaw it, whoever else ended
\* and whatever the host answered.
FrozenIsOwed ==
  frozen => \E a \in Attempts : guardian[a] \in {"watching", "thawing", "proving"}

\* Once a checkpoint is answered, whatever became of it, the guest runs and
\* its file system is thawed, and nothing freezes it later.
SettledIsReleased == NothingPending => qemu # "paused" /\ ~frozen

\* A failure was answered although the journal does not say that the attempt is over.
Misanswered(a) == status[a] = "failed" /\ phase[a] \notin Over \cup {"none"}

\* The guest is not left paused or frozen, and every checkpoint is answered,
\* unless the guest booted anew under it: then nobody can prove the thaw
\* while this QEMU runs.  Only an answer that was given because the journal
\* could not be read may leave QEMU paused, with nobody to resume it.
Recovers ==
  []<>(\/ /\ qemu # "paused" /\ ~frozen
          /\ \A a \in Attempts : Pending(a) => state[a] = "lost"
       \/ qemu = "paused" /\ \E a \in Attempts : Misanswered(a))
=============================================================================
