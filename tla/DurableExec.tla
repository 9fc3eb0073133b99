---------------------------- MODULE DurableExec ----------------------------
(***************************************************************************)
(* One durable exec: src/src/durable-exec.js on the host,                  *)
(* src/runtime/durable_exec.py in the guest.                               *)
(*                                                                         *)
(* The host handles one request of a machine at a time.  It accepts the    *)
(* operation on disk, calls the guest over SSH, and keeps the terminal     *)
(* receipt it gets.  A call it gave up on may still run in the guest.      *)
(* There each call takes the lock of the receipt; a detached systemd unit  *)
(* runs the command.  The guest may reboot, or its disk may be put back.   *)
(*                                                                         *)
(* Abstractions.  One operation, bound to boot 1: the code relates no two. *)
(* Requests with another payload or binding are refused before any effect. *)
(* A receipt is created once in a boot, so its attempt is not distinguished. *)
(* Output is left out; a nonzero exit is "bad", deadlines included.        *)
(***************************************************************************)
EXTENDS Naturals

CONSTANTS
  Calls,   \* slots for SSH calls that are under way at once
  MaxBoot  \* bound on the guest's boots

ASSUME CallsAssumption == 0 \notin Calls
ASSUME MaxBootAssumption == MaxBoot \in Nat \ {0}

VARIABLES
  record,   \* the host's journal entry: none, accepted or refused
  verdict,  \* its .terminal file
  current,  \* the registry still names this generation and boot
  host,     \* the request being handled
  boot,     \* the guest's kernel boot
  receipt,  \* the guest's receipt
  backup,   \* the receipt in a snapshot of the guest's disk
  aged,     \* whether 15 s passed since the receipt was accepted
  unit,     \* the systemd unit of the attempt
  lock,     \* the call that holds the lock of the receipt over more than a step
  call,     \* calls of the guest
  runs,     \* history: how often the command was started
  exit      \* history: how it ended

journal == <<record, verdict, current>>
guest   == <<boot, receipt, backup, aged>>
command == <<unit, runs, exit>>
vars    == <<journal, host, guest, command, lock, call>>

Terminal == {"completed", "failed"}
Verdicts == Terminal \cup {"none"}
NoReceipt == [status |-> "none", boot |-> 0, scope |-> FALSE, cancel |-> FALSE, result |-> "none"]
Receipts == [status : Terminal \cup {"none", "queued", "running", "finishing", "outcome_unknown"},
             boot : 0 .. MaxBoot, scope : BOOLEAN, cancel : BOOLEAN,
             result : {"none", "ok", "bad", "cancelled"}]
Modes == {"submit", "status", "cancel"}
Handlers == [at : {"idle", "target", "capability", "call"}, mode : Modes, call : Calls \cup {0}]
GuestCalls == [at : {"free", "sent", "saved", "marked", "stop", "check", "answered"},
               mode : Modes, reply : Verdicts]
Idle == [at |-> "idle", mode |-> "status", call |-> 0]
Free == [at |-> "free", mode |-> "status", reply |-> "none"]

TypeOK ==
  /\ record \in {"none", "accepted", "refused"}
  /\ verdict \in Verdicts
  /\ current \in BOOLEAN
  /\ host \in Handlers
  /\ boot \in 1 .. MaxBoot
  /\ receipt \in Receipts /\ backup \in Receipts
  /\ aged \in BOOLEAN
  /\ unit \in {"none", "starting", "fenced", "command", "ended", "stopping", "gone"}
  /\ lock \in Calls \cup {0}
  /\ call \in [Calls -> GuestCalls]
  /\ runs \in Nat /\ exit \in {"none", "ok", "bad"}

Init ==
  /\ record = "none" /\ verdict = "none" /\ current = TRUE
  /\ host = Idle
  /\ boot = 1 /\ receipt = NoReceipt /\ backup = NoReceipt /\ aged = FALSE
  /\ unit = "none" /\ lock = 0
  /\ call = [c \in Calls |-> Free]
  /\ runs = 0 /\ exit = "none"
-----------------------------------------------------------------------------
(* The host.  Each step ends at an await.                                   *)

\* A status, a cancel or a repeated submit asks the guest unless there is a
\* verdict; only an operation that is not in the journal is submitted.
Request(mode) ==
  /\ host = Idle /\ verdict = "none"
  /\ mode # "submit" => record # "none"
  /\ host' = [at |-> "target", call |-> 0,
              mode |-> IF mode = "submit" /\ record # "none" THEN "status" ELSE mode]
  /\ UNCHANGED <<journal, guest, command, lock, call>>

Send(mode) == \E c \in Calls :
  /\ call[c] = Free
  /\ call' = [call EXCEPT ![c] = [at |-> "sent", mode |-> mode, reply |-> "none"]]
  /\ host' = [at |-> "call", mode |-> mode, call |-> c]

TargetKnown ==
  /\ host.at = "target" /\ current
  /\ IF host.mode = "submit"
     THEN host' = [host EXCEPT !.at = "capability"] /\ UNCHANGED call
     ELSE Send(host.mode)
  /\ UNCHANGED <<journal, guest, command, lock>>

\* Another generation or boot, or a guest that is not ready: unknown, or 409.
TargetUnknown ==
  /\ host.at = "target"
  /\ host' = Idle
  /\ UNCHANGED <<journal, guest, command, lock, call>>

\* The guest can run it: accepted on disk before it is submitted.
Accept ==
  /\ host.at = "capability" /\ current
  /\ record' = "accepted"
  /\ Send("submit")
  /\ UNCHANGED <<verdict, current, guest, command, lock>>

\* The generation changed during the await: 409, and nothing is saved.
Outdated ==
  /\ host.at = "capability" /\ ~current
  /\ host' = Idle
  /\ UNCHANGED <<journal, guest, command, lock, call>>

\* It cannot, or its answer was lost: proof that nothing was submitted.  (The
\* terminal receipt is saved twice, and either copy is read as the verdict.)
Refuse ==
  /\ host.at = "capability"
  /\ record' = "refused" /\ verdict' = "failed" /\ host' = Idle
  /\ UNCHANGED <<current, guest, command, lock, call>>

\* The first terminal receipt is kept; any other answer changes nothing.
Answered == \E c \in Calls :
  /\ host.call = c /\ call[c].at = "answered"
  /\ verdict' = IF verdict = "none" THEN call[c].reply ELSE verdict
  /\ host' = Idle /\ call' = [call EXCEPT ![c] = Free]
  /\ UNCHANGED <<record, current, guest, command, lock>>

\* 45 s without an answer: the SSH client is killed, and the answer is
\* "unknown"; the call in the guest goes on.
GiveUp ==
  /\ host.at = "call"
  /\ host' = Idle
  /\ UNCHANGED <<journal, guest, command, lock, call>>

HostCrashes ==
  /\ host # Idle
  /\ host' = Idle
  /\ UNCHANGED <<journal, guest, command, lock, call>>

\* A start, a heartbeat or a deletion.
Superseded ==
  /\ current /\ current' = FALSE
  /\ UNCHANGED <<record, verdict, host, guest, command, lock, call>>

Handle == TargetKnown \/ TargetUnknown \/ Accept \/ Outdated \/ Refuse \/ Answered
-----------------------------------------------------------------------------
(* Receipts.                                                                *)

\* The worker is a process of this boot.
Working == unit \in {"fenced", "command", "ended"}

\* Faulty variant of ScopeGone: the worker's death is enough.
WorkerGone(r, seen) == seen /\ r.boot = boot /\ r.scope /\ ~Working

\* scope_gone: this boot, the worker dead, and its scope empty.  What cannot
\* be observed is not proof.
ScopeGone(r, seen) == seen /\ r.boot = boot /\ r.scope /\ unit = "gone"

\* Faulty variant of CancelProved: a lost worker is not recovered.
CancelProvedRunning(r, seen) == r.cancel /\ r.status = "running" /\ ScopeGone(r, seen)

\* A cancellation was asked for and its scope is empty.
CancelProved(r, seen) == r.cancel /\ r.status \in {"running", "outcome_unknown"} /\ ScopeGone(r, seen)

\* Faulty variant of Cancelled: a status the receipts do not have.
CancelledStatus(r) == [r EXCEPT !.status = "cancelled", !.result = "cancelled"]

Cancelled(r) == [r EXCEPT !.status = "failed", !.result = "cancelled"]

Unknown(r) == [r EXCEPT !.status = "outcome_unknown"]

Reconciled(r, seen) ==
  IF r.status \in Terminal THEN r
  ELSE IF r.status = "finishing" /\ ScopeGone(r, seen)
    THEN [r EXCEPT !.status = IF r.result = "ok" THEN "completed" ELSE "failed"]
  ELSE IF CancelProved(r, seen) THEN Cancelled(r)
  ELSE IF \/ r.boot # boot
          \/ r.status = "queued" /\ aged
          \/ r.status = "running" /\ seen /\ ~Working
    THEN Unknown(r)
  ELSE r

\* What public() shows of a receipt that is not terminal is left out.
Shown(r) == IF r.status \in Terminal THEN r.status ELSE "none"
-----------------------------------------------------------------------------
(* Calls in the guest.                                                      *)

At(c, at, mode) == call[c].at = at /\ call[c].mode = mode

\* One that nobody waits for any more leaves its answer unread.
Reply(c, r) ==
  call' = [call EXCEPT ![c] = IF host.call = c THEN [@ EXCEPT !.at = "answered", !.reply = Shown(r)]
                                               ELSE Free]

Goto(c, at) == call' = [call EXCEPT ![c].at = at]

\* exec_status, which also ends a cancel, and a submit that finds a receipt.
\* Without a receipt the answer is 404.
Status(c, seen) ==
  /\ At(c, "sent", "status") \/ At(c, "check", "cancel")
     \/ (At(c, "sent", "submit") /\ receipt # NoReceipt)
  /\ lock = 0
  /\ receipt' = IF receipt = NoReceipt THEN receipt ELSE Reconciled(receipt, seen)
  /\ Reply(c, receipt')
  /\ UNCHANGED <<journal, host, boot, backup, aged, command, lock>>

\* The receipt is durable before the launch.
Submit(c) ==
  /\ At(c, "sent", "submit") /\ lock = 0
  /\ receipt = NoReceipt /\ boot = 1
  /\ receipt' = [NoReceipt EXCEPT !.status = "queued", !.boot = boot]
  /\ lock' = c /\ Goto(c, "saved")
  /\ UNCHANGED <<journal, host, boot, backup, aged, command>>

\* Another boot, or scopes are not supported after all.
SubmitRefused(c) ==
  /\ At(c, "sent", "submit") /\ lock = 0 /\ receipt = NoReceipt
  /\ Reply(c, receipt)
  /\ UNCHANGED <<journal, host, guest, command, lock>>

Launch(c) ==
  /\ call[c].at = "saved"
  /\ unit' = "starting"
  /\ lock' = 0 /\ Reply(c, receipt)
  /\ UNCHANGED <<journal, host, guest, runs, exit>>

\* systemd-run cannot be started, or its input cannot be prepared.
LaunchFails(c) ==
  /\ call[c].at = "saved"
  /\ receipt' \in {receipt, Unknown(receipt)}
  /\ lock' = 0 /\ Reply(c, receipt')
  /\ UNCHANGED <<journal, host, boot, backup, aged, command>>

\* exec_cancel first saves the fence, ...
Mark(c) ==
  /\ At(c, "sent", "cancel") /\ lock = 0
  /\ IF receipt = NoReceipt \/ receipt.status \in Terminal
     THEN Reply(c, receipt) /\ UNCHANGED <<receipt, lock>>
     ELSE /\ receipt' = [receipt EXCEPT !.cancel = TRUE]
          /\ lock' = c /\ Goto(c, "marked")
  /\ UNCHANGED <<journal, host, boot, backup, aged, command>>

\* ... then decides what is proved already.  "sure": the worker and its
\* control group could be read and are the receipt's.
Decide(c, seen, sure) ==
  /\ call[c].at = "marked"
  /\ LET r == Reconciled(receipt, seen)
         blind == r.boot # boot \/ (r.status # "queued" /\ ~(r.scope /\ sure))
     IN /\ receipt' = IF r.status \in Terminal THEN r
                      ELSE IF blind THEN Unknown(r)
                      ELSE IF r.status = "queued" THEN Cancelled(r)
                      ELSE r
        /\ IF r.status \notin Terminal /\ ~blind /\ r.status # "queued"
           THEN Goto(c, "stop")
           ELSE Reply(c, receipt')
  /\ lock' = 0
  /\ UNCHANGED <<journal, host, boot, backup, aged, command>>

Killed(u) == CASE u \in {"command", "ended"} -> "stopping"
               [] u \in {"starting", "fenced"} -> "gone"
               [] OTHER -> u

\* A command that is killed has no exit of its own.
KillUnit ==
  /\ unit' = Killed(unit)
  /\ exit' = IF unit = "command" THEN "bad" ELSE exit

\* systemctl stop, without the lock.  It may fail or take too long.
Stop(c) ==
  /\ call[c].at = "stop"
  /\ KillUnit \/ UNCHANGED <<unit, exit>>
  /\ Goto(c, "check")
  /\ UNCHANGED <<journal, host, guest, runs, lock>>

\* The SSH connection fails before the guest acts, or its process is killed.
CallDies(c) ==
  /\ call[c].at \notin {"free", "answered"}
  /\ Reply(c, NoReceipt)
  /\ lock' = IF lock = c THEN 0 ELSE lock
  /\ UNCHANGED <<journal, host, guest, command>>

\* An answer nobody reads.
Unread(c) ==
  /\ call[c].at = "answered" /\ host.call # c
  /\ call' = [call EXCEPT ![c] = Free]
  /\ UNCHANGED <<journal, host, guest, command, lock>>

Serve(c) ==
  \/ \E seen \in BOOLEAN : Status(c, seen)
  \/ Submit(c) \/ SubmitRefused(c) \/ Launch(c) \/ Mark(c)
  \/ \E seen, sure \in BOOLEAN : Decide(c, seen, sure)
  \/ Stop(c) \/ Unread(c)
-----------------------------------------------------------------------------
(* The unit.                                                                *)

\* Faulty variant of MayLaunch: any receipt of this boot will do.
MayLaunchAgain == receipt # NoReceipt /\ receipt.boot = boot /\ boot = 1 /\ ~aged

\* The launch fence, under the lock of the receipt.
MayLaunch == receipt.status = "queued" /\ ~receipt.cancel /\ receipt.boot = boot /\ boot = 1 /\ ~aged

Fence ==
  /\ unit = "starting" /\ lock = 0
  /\ IF MayLaunch
     THEN /\ receipt' = [receipt EXCEPT !.status = "running", !.scope = TRUE]
          /\ unit' = "fenced"
     ELSE unit' = "gone" /\ UNCHANGED receipt
  /\ UNCHANGED <<journal, host, boot, backup, aged, runs, exit, lock, call>>

Run ==
  /\ unit = "fenced"
  /\ unit' = "command" /\ runs' = runs + 1
  /\ UNCHANGED <<journal, host, guest, exit, lock, call>>

CommandEnds ==
  /\ unit = "command"
  /\ unit' = "ended" /\ exit' \in {"ok", "bad"}
  /\ UNCHANGED <<journal, host, guest, runs, lock, call>>

\* The worker saves the result unless the receipt moved on, and exits.
Finish ==
  /\ unit = "ended" /\ lock = 0
  /\ receipt' = IF receipt.status = "running"
                THEN [receipt EXCEPT !.status = "finishing", !.result = exit] ELSE receipt
  /\ unit' = "stopping"
  /\ UNCHANGED <<journal, host, boot, backup, aged, runs, exit, lock, call>>

\* systemd ends what the command left in the background.
ScopeEmpties ==
  /\ unit = "stopping"
  /\ unit' = "gone"
  /\ UNCHANGED <<journal, host, guest, runs, exit, lock, call>>

\* Killed, or at the end of RuntimeMaxSec.
WorkerDies ==
  /\ unit \in {"starting", "fenced", "command", "ended"}
  /\ KillUnit
  /\ UNCHANGED <<journal, host, guest, runs, lock, call>>

Unit == Fence \/ Run \/ CommandEnds \/ Finish \/ ScopeEmpties
-----------------------------------------------------------------------------
(* The guest.                                                               *)

Age ==
  /\ receipt # NoReceipt /\ ~aged
  /\ aged' = TRUE
  /\ UNCHANGED <<journal, host, boot, receipt, backup, command, lock, call>>

Snapshot ==
  /\ backup # receipt
  /\ backup' = receipt
  /\ UNCHANGED <<journal, host, boot, receipt, aged, command, lock, call>>

\* A new kernel on the same disk, or on the disk of the snapshot.  A call that
\* is still waited for may connect to the new boot.
Reboot ==
  /\ boot < MaxBoot
  /\ boot' = boot + 1 /\ receipt' \in {receipt, backup}
  /\ unit' = IF unit = "none" THEN "none" ELSE "gone"
  /\ exit' = IF unit = "command" THEN "bad" ELSE exit
  /\ lock' = 0
  /\ call' = [c \in Calls |->
                IF host.call # c THEN Free
                ELSE IF call[c].at \in {"sent", "answered"} THEN call[c]
                ELSE [call[c] EXCEPT !.at = "answered", !.reply = "none"]]
  /\ UNCHANGED <<journal, host, backup, aged, runs>>
-----------------------------------------------------------------------------
Next ==
  \/ \E mode \in Modes : Request(mode)
  \/ Handle \/ GiveUp \/ HostCrashes \/ Superseded
  \/ \E c \in Calls : Serve(c) \/ LaunchFails(c) \/ CallDies(c)
  \/ Unit \/ WorkerDies \/ Age \/ Snapshot \/ Reboot

Spec == Init /\ [][Next]_vars
-----------------------------------------------------------------------------
(* Fairness.  The control plane polls, the handler, the calls and the unit  *)
(* go on, commands end at their deadline, the kernel gives a lock to who    *)
(* waits for it, and faults are not endless.                                *)

Fault ==
  \/ TargetUnknown \/ Refuse \/ GiveUp \/ HostCrashes \/ WorkerDies
  \/ \E c \in Calls :
       \/ LaunchFails(c) \/ CallDies(c) \/ SubmitRefused(c)
       \/ Status(c, FALSE) \/ \E seen, sure \in BOOLEAN : ~(seen /\ sure) /\ Decide(c, seen, sure)

Ordinary ==
  \/ TargetKnown \/ Accept \/ Outdated \/ Answered \/ Unit
  \/ TargetUnknown /\ ~current
  \/ \E c \in Calls : Status(c, TRUE) \/ Decide(c, TRUE, TRUE)

Fairness ==
  /\ WF_vars(Request("status"))
  /\ WF_vars(Handle)
  /\ WF_vars(\E c \in Calls : Serve(c))
  /\ WF_vars(Unit) /\ SF_vars(Fence \/ Finish)
  /\ WF_vars(Age)
  /\ <>[][Fault => Ordinary]_vars

FairSpec == Spec /\ Fairness
-----------------------------------------------------------------------------
(* Properties.                                                              *)

\* A terminal receipt, in the guest or on the host, is proof: no process of
\* the command is left, and the unit will not start one.
TerminalIsProof ==
  verdict # "none" \/ receipt.status \in Terminal => unit \in {"none", "starting", "gone"}

\* The journal is ahead of the guest: a receipt, a call or a unit only exists
\* for an operation that was accepted, and never for one that was refused.
AcceptedFirst ==
  receipt # NoReceipt \/ unit # "none" \/ (\E c \in Calls : call[c] # Free) => record = "accepted"

life == IF runs = 0 THEN "new"
        ELSE IF unit \in {"command", "ended", "stopping"} THEN "alive" ELSE "over"

Once == INSTANCE ExecOnce WITH exit <- IF life = "over" THEN exit ELSE "none"

\* The command starts at most once over lost answers, late calls, crashes,
\* reboots and disks put back, and a verdict is final and true.
ImplementsExecOnce == Once!Spec

\* A cancellation whose worker is known leads to a verdict, unless the guest
\* leaves the boot.
CancelConcludes ==
  receipt.cancel /\ receipt.scope ~> verdict # "none" \/ boot # 1 \/ ~current
=============================================================================
