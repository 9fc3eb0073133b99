--------------------------- MODULE HostLifecycle ---------------------------
(***************************************************************************)
(* The durable lifecycle journal of the private Host API                   *)
(* (src/src/host-api.js, src/src/host-storage.js) for one managed machine, *)
(* together with the native runner it commands                             *)
(* (src/runtime/native/host.py).                                           *)
(*                                                                         *)
(* The control plane sends commands, each carrying an operation id and a   *)
(* boot generation, and repeats, reorders or delays them as it likes.  The *)
(* core takes a per-machine lock, saves the intent, calls the native       *)
(* runner one or more times, and saves the result.  Whatever interrupts    *)
(* the handler (an error, a timeout, a crash of the core) leaves the       *)
(* intent pending; the same command is then retried.                       *)
(*                                                                         *)
(* Abstractions.  Names, resource sizes and images are left out, but for   *)
(* the creates the runner will never accept (Unfit); a command is its      *)
(* verb, operation id, generation and one flag, and two different commands *)
(* with the same verb and id stand for one operation id used with two      *)
(* payloads.  A registration token is named by the command that minted *)
(* it and a disk by the create command that cloned it.  Boot identity,     *)
(* heartbeats and readiness are the business of BootEvidence, the contents *)
(* of disks of NativeStorage.                                              *)
(***************************************************************************)
EXTENDS Integers, FiniteSets

CONSTANTS
  Commands,  \* every request the control plane may send, at any time
  Unfit,     \* the creates the control plane's limits admit and the runner's, or the image's, do not
  Faults,    \* "late": an abandoned native call may still run; "torn": rmtree may stop half way
  None

LifecycleVerbs == {"create", "start", "shutdown", "force-stop", "destroy"}
StorageVerbs == {"snapshot", "checkpoint", "restore", "snapshot-delete",
                 "snapshot-import", "snapshot-seal", "fence", "resize"}

\* flag: recreate of a create, delete_disk of a destroy, fork of a restore.
Command == [verb : LifecycleVerbs \cup StorageVerbs, id : STRING,
            gen : Nat \ {0}, flag : BOOLEAN]

ASSUME CommandsAssumption == Commands \subseteq Command
ASSUME UnfitAssumption == Unfit \subseteq {c \in Commands : c.verb = "create"}
ASSUME FaultsAssumption == Faults \subseteq {"late", "torn"}
ASSUME NoneAssumption == None \notin Commands

VARIABLES
  rec,       \* the registry record of the machine (machines.json)
  journal,   \* record.cloud.operations: what is saved about each command
  call,      \* the request that holds the per-machine lock, and how far it got
  vm,        \* the native runner's folder, disk and QEMU process
  receipts,  \* the native storage journal of the current disk incarnation
  late,      \* native calls the core stopped waiting for, which may still run
  poll       \* a GET of the machine whose runtime read is in flight

vars == <<rec, journal, call, vm, receipts, late, poll>>
-----------------------------------------------------------------------------
(* State spaces. *)

\* "committed" is a storage operation whose runtime_result is saved but not
\* its result; "ok" and "refused" are saved results, replayed for ever.
Outcome == {"none", "pending", "committed", "ok", "refused"}
Settled(c) == journal[c] \in {"ok", "refused"}
Pending(c) == journal[c] \in {"pending", "committed"}

Token == Commands \cup {None}
Rec == [state : {"none", "live", "deleted"}, gen : Nat, inc : Nat,
        fenced : BOOLEAN, desired : {"running", "stopped"}, token : Token]

Sight == {"stopped", "starting", "running", "unknown", "absent"}
Stage == {"admit", "look", "reseed", "exec", "settle", "wait", "finish"}
NoCall == [cmd |-> None, at |-> "finish", seen |-> "unknown"]
Call == [cmd : Token, at : Stage, seen : Sight]

\* disk None: no folder.  torn: a folder whose machine.json is gone.
VM == [disk : Token, torn : BOOLEAN, retained : BOOLEAN, fenced : BOOLEAN,
       run : {"stopped", "running", "quitting"}, seed : Token, sgen : Nat]

NativeOp == {"create", "start", "shutdown", "force-stop", "destroy", "reseed", "submit"}
NativeCall == [op : NativeOp, cmd : Commands, token : Token, inc : Nat]
Reply == {"ok", "gone", "limit", "unfit", "error"}

Revision == [gen |-> rec.gen, state |-> rec.state,
             known |-> {c \in Commands : journal[c] # "none"},
             settled |-> {c \in Commands : Settled(c)}]
NoPoll == [rev |-> None, seen |-> "unknown"]

TypeOK ==
  /\ rec \in Rec
  /\ journal \in [Commands -> Outcome]
  /\ call \in Call
  /\ vm \in VM
  /\ receipts \in [Commands -> {"none", "pending", "completed", "failed"}]
  /\ late \subseteq NativeCall
  /\ poll.seen \in Sight

Init ==
  /\ rec = [state |-> "none", gen |-> 0, inc |-> 0, fenced |-> FALSE,
            desired |-> "stopped", token |-> None]
  /\ journal = [c \in Commands |-> "none"]
  /\ call = NoCall
  /\ vm = [disk |-> None, torn |-> FALSE, retained |-> FALSE, fenced |-> FALSE,
           run |-> "stopped", seed |-> None, sgen |-> 0]
  /\ receipts = [c \in Commands |-> "none"]
  /\ late = {}
  /\ poll = NoPoll
-----------------------------------------------------------------------------
(* The native runner.  Each of its calls holds the machine lock and the    *)
(* runner lock, so it takes effect in one step and answers r.              *)

Absent == vm.disk = None \/ vm.torn
StoragePending == \E c \in Commands : receipts[c] = "pending"

\* What a describe may answer: a busy machine lock or an unanswered QMP
\* socket make any machine look "unknown".
Sights ==
  IF Absent THEN {"absent"}
  ELSE {"unknown"} \cup CASE vm.run = "stopped"  -> {"stopped"}
                          [] vm.run = "running"  -> {"running", "starting"}
                          [] vm.run = "quitting" -> {"starting"}

NativeSame == UNCHANGED <<vm, receipts>>

\* More memory than max_memory_mb, or a disk smaller than its image, is
\* refused on every attempt.
NativeCreate(n, r) ==
  \/ vm.disk = n.cmd /\ ~vm.torn /\ r = "ok" /\ NativeSame
  \/ (vm.disk \notin {None, n.cmd} \/ vm.torn \/ (vm.retained /\ n.cmd \notin Unfit))
     /\ r = "error" /\ NativeSame
  \/ vm.disk = None /\ n.cmd \in Unfit /\ r = "unfit" /\ NativeSame
  \/ /\ vm.disk = None /\ n.cmd \notin Unfit
     /\ ~vm.retained
     /\ r = "ok"
     /\ vm' = [disk |-> n.cmd, torn |-> FALSE, retained |-> FALSE, fenced |-> FALSE,
               run |-> "stopped", seed |-> n.token, sgen |-> n.inc]
     /\ receipts' = [c \in Commands |-> "none"]

\* A QEMU that is on its way out still answers "starting", which start
\* takes for a machine that is already up.
NativeStart(r) ==
  \/ Absent /\ r = "gone" /\ NativeSame
  \/ ~Absent /\ vm.fenced /\ r = "error" /\ NativeSame
  \/ /\ ~Absent /\ ~vm.fenced /\ vm.run # "stopped"
     /\ r = "ok" \/ (r = "error" /\ vm.run = "quitting")
     /\ NativeSame
  \/ /\ ~Absent /\ ~vm.fenced /\ vm.run = "stopped"
     /\ \/ r = "ok" /\ vm' = [vm EXCEPT !.run = "running"]
        \/ r \in {"limit", "error"} /\ vm' = vm
     /\ UNCHANGED receipts

NativeStop(force, r) ==
  \/ Absent /\ r = "gone" /\ NativeSame
  \/ ~Absent /\ vm.run = "stopped" /\ r = "ok" /\ NativeSame
  \/ ~Absent /\ vm.run = "quitting" /\ r \in {"ok", "error"} /\ NativeSame
  \/ /\ ~Absent /\ vm.run = "running" /\ r = "ok"
     /\ vm' = IF force THEN [vm EXCEPT !.run = "quitting"] ELSE vm
     /\ UNCHANGED receipts

NativeDestroy(deleteDisk, r) ==
  /\ \/ /\ vm.disk = None /\ r = "ok"
        /\ vm' = [vm EXCEPT !.retained = @ /\ ~deleteDisk]
     \/ vm.disk # None /\ vm.torn /\ r = "gone" /\ vm' = vm
     \/ ~Absent /\ vm.run # "stopped" /\ r = "error" /\ vm' = vm
     \/ /\ ~Absent /\ vm.run = "stopped" /\ r = "ok"
        /\ vm' = [vm EXCEPT !.disk = None, !.retained = @ \/ ~deleteDisk,
                            !.fenced = FALSE, !.seed = None]
     \/ /\ "torn" \in Faults /\ ~Absent /\ vm.run = "stopped" /\ r = "error"
        /\ vm' = [vm EXCEPT !.torn = TRUE]
  /\ UNCHANGED receipts

NativeReseed(n, r) ==
  \/ Absent /\ r = "gone" /\ NativeSame
  \/ ~Absent /\ vm.run # "stopped" /\ r = "error" /\ NativeSame
  \/ /\ ~Absent /\ vm.run = "stopped" /\ r = "ok"
     /\ vm' = [vm EXCEPT !.seed = n.token]
     /\ UNCHANGED receipts

SameKey(c, d) == c.verb = d.verb /\ c.id = d.id
NeedsStopped(c) == c.verb \in {"snapshot", "restore", "resize"}

\* submit_storage takes the storage guard only; the work itself is left to a
\* worker.  storage_generation is at least the generation of every receipt.
NativeSubmit(n, r) ==
  LET c == n.cmd
      fresh == \A d \in Commands : SameKey(c, d) => receipts[d] = "none"
  IN  \/ Absent /\ r = "gone" /\ NativeSame
      \/ ~Absent /\ receipts[c] # "none" /\ r = "ok" /\ NativeSame
      \/ /\ ~Absent /\ receipts[c] = "none"
         /\ ~fresh \/ c.gen < vm.sgen \/ StoragePending \/ (NeedsStopped(c) /\ vm.run # "stopped")
         /\ r = "error" /\ NativeSame
      \/ /\ ~Absent /\ fresh /\ c.gen >= vm.sgen /\ ~StoragePending
         /\ NeedsStopped(c) => vm.run = "stopped"
         /\ r = "ok"
         /\ receipts' = [receipts EXCEPT ![c] = "pending"]
         /\ vm' = [vm EXCEPT !.sgen = c.gen]

\* Handler.dispatch: nothing but storage submission passes a pending receipt.
Dispatch(n, r) ==
  \/ n.op = "submit" /\ NativeSubmit(n, r)
  \/ n.op # "submit" /\ ~Absent /\ StoragePending /\ r = "error" /\ NativeSame
  \/ /\ n.op # "submit" /\ (Absent \/ ~StoragePending)
     /\ \/ n.op = "create" /\ NativeCreate(n, r)
        \/ n.op = "start" /\ NativeStart(r)
        \/ n.op \in {"shutdown", "force-stop"} /\ NativeStop(n.op = "force-stop", r)
        \/ n.op = "destroy" /\ NativeDestroy(n.cmd.flag, r)
        \/ n.op = "reseed" /\ NativeReseed(n, r)

\* run_storage_worker, under the machine lock, for an accepted receipt.
StorageFence(c) ==
  /\ c.verb = "fence" /\ receipts[c] = "pending" /\ ~vm.fenced
  /\ vm' = [vm EXCEPT !.fenced = TRUE,
                      !.run = IF @ = "running" THEN "quitting" ELSE @]
  /\ UNCHANGED <<rec, journal, call, receipts, late, poll>>

\* Faulty variant of StorageCompletes: a fence does not wait for QEMU to exit.
StorageCompletesEarly(c) ==
  /\ receipts[c] = "pending"
  /\ c.verb = "fence" => vm.fenced
  /\ receipts' = [receipts EXCEPT ![c] = "completed"]
  /\ UNCHANGED <<rec, journal, call, vm, late, poll>>

StorageCompletes(c) ==
  /\ receipts[c] = "pending"
  /\ c.verb = "fence" => vm.fenced
  /\ c.verb = "fence" \/ NeedsStopped(c) => vm.run = "stopped"
  /\ c.verb = "checkpoint" => vm.run = "running"
  /\ receipts' = [receipts EXCEPT ![c] = "completed"]
  /\ UNCHANGED <<rec, journal, call, vm, late, poll>>

\* A fence that cannot reach QEMU fails after its mark is already saved.
StorageFails(c) ==
  /\ receipts[c] = "pending"
  /\ receipts' = [receipts EXCEPT ![c] = "failed"]
  /\ \/ vm' = vm
     \/ c.verb = "fence" /\ vm' = [vm EXCEPT !.fenced = TRUE]
  /\ UNCHANGED <<rec, journal, call, late, poll>>

GuestPowersOff ==
  /\ vm.run = "running"
  /\ vm' = [vm EXCEPT !.run = "quitting"]
  /\ UNCHANGED <<rec, journal, call, receipts, late, poll>>

QemuExits ==
  /\ vm.run = "quitting"
  /\ vm' = [vm EXCEPT !.run = "stopped"]
  /\ UNCHANGED <<rec, journal, call, receipts, late, poll>>

Native ==
  \/ \E c \in Commands : StorageFence(c) \/ StorageCompletes(c) \/ StorageFails(c)
  \/ GuestPowersOff \/ QemuExits
-----------------------------------------------------------------------------
(* Admission: what mutate and storageOperation demand of a new command.    *)

NothingPending == \A c \in Commands : ~Pending(c)
KeyUsed(c) == \E d \in Commands : SameKey(c, d) /\ journal[d] # "none"

\* A generation identifies one boot: any earlier intent of the generation
\* but its create and the preparation of a fork rules a new start out.
PriorIntent(c) ==
  \E d \in Commands :
    /\ journal[d] # "none" /\ d.gen = c.gen
    /\ d.verb \notin {"create", "snapshot-delete"}
    /\ ~(d.verb = "restore" /\ d.flag)

RemovedDisk ==
  \E d \in Commands :
    d.verb = "destroy" /\ d.flag /\ d.gen = rec.gen /\ journal[d] = "ok"

\* The id is free, or its last incarnation is confirmed gone with its disk.
MayCreate(c) ==
  \/ rec.state = "none"
  \/ rec.state = "deleted" /\ c.flag /\ RemovedDisk /\ c.gen > rec.gen

NotRetired(c) == c.gen >= rec.inc


Admissible(c) ==
  /\ NotRetired(c)
  /\ ~KeyUsed(c)
  /\ IF c.verb = "create" THEN MayCreate(c)
     ELSE rec.state = "live" /\ c.gen >= rec.gen
  /\ NothingPending
  /\ c.verb = "start" => ~rec.fenced /\ (c.gen = rec.gen => ~PriorIntent(c))
  /\ c.verb = "checkpoint" => c.gen = rec.gen

\* The runtime state some verbs must see before they are journaled.
Looks(c) == c.verb \in {"create", "checkpoint"} \/ NeedsStopped(c)
Wanted(c) == CASE c.verb = "create"     -> "absent"
               [] c.verb = "checkpoint" -> "running"
               [] OTHER                 -> "stopped"

\* Faulty variant of FirstStage: a restore whose receipt was already saved
\* is finished without its reseed.
FirstStageWithoutReseed(c) ==
  CASE c.verb = "start"   -> "look"
    [] c.verb = "destroy" -> "settle"
    [] c.verb \in StorageVerbs /\ journal[c] = "committed" -> "finish"
    [] OTHER -> "exec"

FirstStage(c) ==
  CASE c.verb = "start"   -> "look"
    [] c.verb = "destroy" -> "settle"
    [] c.verb \in StorageVerbs /\ journal[c] = "committed" ->
         IF c.verb = "restore" THEN "reseed" ELSE "finish"
    [] OTHER -> "exec"

\* Faulty variant of Desire: the verb is saved in place of the state.
DesireVerb(c, d) == IF c.verb \in {"shutdown", "force-stop", "destroy"} THEN c.verb ELSE d

\* registry.update(id, { desired_state: 'stopped' }) opens every attempt.
Desire(c, d) == IF c.verb \in {"shutdown", "force-stop", "destroy"} THEN "stopped" ELSE d

\* Faulty variant of Marked: only the native runner remembers a fence.
MarkedNatively(c) == rec.fenced

\* The record is fenced from the moment the fence is accepted.
Marked(c) == rec.fenced \/ c.verb = "fence"

Accepted(c) ==
  IF c.verb = "create"
  THEN [state |-> "live", gen |-> c.gen, inc |-> IF rec.state = "deleted" THEN c.gen ELSE 0,
        fenced |-> FALSE, desired |-> "stopped", token |-> c]
  ELSE [rec EXCEPT !.gen = c.gen,
                   !.fenced = Marked(c),
                   !.desired = IF c.verb \in {"fence", "restore"} THEN "stopped" ELSE Desire(c, @),
                   !.token = IF c.verb = "restore" THEN c ELSE @]

Accept(c) ==
  /\ journal' = [journal EXCEPT ![c] = "pending"]
  /\ rec' = Accepted(c)
  /\ call' = [cmd |-> c, at |-> FirstStage(c), seen |-> "unknown"]
  /\ UNCHANGED <<vm, receipts, late, poll>>

\* The lock is taken and the checks that read the registry have passed.
Receive(c) ==
  /\ call = NoCall
  /\ Admissible(c)
  /\ IF Looks(c)
     THEN /\ \E s \in Sights : call' = [cmd |-> c, at |-> "admit", seen |-> s]
          /\ UNCHANGED <<rec, journal, vm, receipts, late, poll>>
     ELSE Accept(c)

\* The awaited reads came back; the machine may have moved since.
Admit ==
  /\ call.at = "admit"
  /\ call.seen = Wanted(call.cmd)
  /\ Accept(call.cmd)

Refused ==
  /\ call.at = "admit"
  /\ call.seen # Wanted(call.cmd)
  /\ call' = NoCall
  /\ UNCHANGED <<rec, journal, vm, receipts, late, poll>>

\* A retry of a pending operation with the same payload.
Retriable(c) ==
  /\ rec.state = "live" /\ NotRetired(c) /\ c.gen = rec.gen
  /\ c.verb = "start" => ~rec.fenced

Retry(c) ==
  /\ call = NoCall
  /\ Pending(c)
  /\ Retriable(c)
  /\ rec' = [rec EXCEPT !.desired = Desire(c, @)]
  /\ call' = [cmd |-> c, at |-> FirstStage(c), seen |-> "unknown"]
  /\ UNCHANGED <<journal, vm, receipts, late, poll>>
-----------------------------------------------------------------------------
(* Execution of the journaled command that holds the lock. *)

cmd == call.cmd
Goto(at) == call' = [call EXCEPT !.at = at]

\* The result is saved and the lock released.
Settle(outcome, r) ==
  /\ journal' = [journal EXCEPT ![cmd] = outcome]
  /\ rec' = r
  /\ call' = NoCall

\* Faulty variant of Look: the intent to run is not saved.
LookWithoutDesire ==
  /\ call.at = "look"
  /\ Goto("exec")
  /\ UNCHANGED <<rec, journal, vm, receipts, late, poll>>

\* start reads the runtime, writes its intent, and reseeds a stopped machine
\* that has a display.
Look ==
  /\ call.at = "look"
  /\ \E s \in Sights \ {"unknown", "absent"} :
       \/ Goto("exec")
       \/ s = "stopped" /\ Goto("reseed")
  /\ rec' = [rec EXCEPT !.desired = "running"]
  /\ UNCHANGED <<journal, vm, receipts, late, poll>>

\* The native call a stage makes.
Calls == call.at \in {"reseed", "settle", "exec"}
NativeOf == [op |-> CASE call.at = "reseed" -> "reseed"
                      [] call.at = "settle" -> "force-stop"
                      [] call.at = "exec" /\ cmd.verb \in StorageVerbs -> "submit"
                      [] OTHER -> cmd.verb,
             cmd |-> cmd, token |-> rec.token, inc |-> rec.inc]

\* A restore whose receipt says failed still reseeds, then saves the failure.
RestoreOutcome == IF journal[cmd] = "committed" THEN "ok" ELSE "refused"

Destroyed == [rec EXCEPT !.state = "deleted", !.token = None]

\* Faulty variant of Confirms: a 404 confirms a destroy.
ConfirmsAnyAbsence(r) == r \in {"ok", "gone"}

\* A stop that finds no machine is as good as done; nothing else is.
Confirms(r) == r = "ok" \/ (r = "gone" /\ call.at = "settle")

\* The native call ran and its answer arrived.
Answered ==
  /\ Calls
  /\ \E r \in Reply :
       /\ Dispatch(NativeOf, r)
       /\ \/ /\ Confirms(r) /\ call.at = "reseed"
             /\ IF cmd.verb = "start" THEN Goto("exec") /\ UNCHANGED <<rec, journal>>
                                      ELSE Settle(RestoreOutcome, rec)
          \/ /\ Confirms(r) /\ call.at = "settle"
             /\ Goto("wait") /\ UNCHANGED <<rec, journal>>
          \/ /\ Confirms(r) /\ call.at = "exec" /\ cmd.verb = "destroy"
             /\ Settle("ok", Destroyed)
          \/ /\ Confirms(r) /\ call.at = "exec" /\ cmd.verb # "destroy"
             /\ Goto(IF cmd.verb \in StorageVerbs THEN "wait" ELSE "finish")
             /\ UNCHANGED <<rec, journal>>
          \/ /\ r = "limit" /\ call.at = "exec"
             /\ Settle("refused", [rec EXCEPT !.desired = "stopped"])
          \/ /\ r \in {"gone", "unfit"} /\ ~Confirms(r)
             /\ call' = NoCall /\ UNCHANGED <<rec, journal>>
  /\ UNCHANGED <<late, poll>>

\* settle polls until the machine is stopped or gone.
SettleSees ==
  /\ call.at = "wait" /\ cmd.verb = "destroy"
  /\ \E s \in Sights : s \in {"stopped", "absent"}
  /\ Goto("exec")
  /\ UNCHANGED <<rec, journal, vm, receipts, late, poll>>

\* The native receipt is read: pending is answered with 202, a terminal one
\* is saved, before the guest is reseeded if a restore had rotated its token.
ReadReceipt ==
  /\ call.at = "wait" /\ cmd.verb \in StorageVerbs
  /\ \/ receipts[cmd] = "pending" /\ call' = NoCall /\ UNCHANGED <<rec, journal>>
     \/ /\ receipts[cmd] = "failed"
        /\ IF cmd.verb = "restore" THEN Goto("reseed") /\ UNCHANGED <<rec, journal>>
                                   ELSE Settle("refused", rec)
     \/ /\ receipts[cmd] = "completed"
        /\ journal' = [journal EXCEPT ![cmd] = "committed"]
        /\ Goto(IF cmd.verb = "restore" THEN "reseed" ELSE "finish")
        /\ UNCHANGED rec
  /\ UNCHANGED <<vm, receipts, late, poll>>

\* describe swallows its own errors, so nothing can prevent the result.
Finish ==
  /\ call.at = "finish" /\ call # NoCall
  /\ Settle("ok", rec)
  /\ UNCHANGED <<vm, receipts, late, poll>>

\* Faulty variant of Interrupted: a failed attempt takes its intent back.
InterruptedUndone ==
  /\ call # NoCall
  /\ call' = NoCall
  /\ journal' = [c \in Commands |-> IF c = cmd /\ Pending(c) THEN "none" ELSE journal[c]]
  /\ UNCHANGED <<rec, vm, receipts, late, poll>>

\* An error, a timeout or a crash of the core: the lock is free again and
\* the intent, if it was journaled, stays pending.
Interrupted ==
  /\ call # NoCall
  /\ call' = NoCall
  /\ UNCHANGED <<rec, journal, vm, receipts, late, poll>>

\* As above, but the native call has run, or runs some time later.
ReplyLost ==
  /\ Calls
  /\ \E r \in Reply : Dispatch(NativeOf, r)
  /\ call' = NoCall
  /\ UNCHANGED <<rec, journal, late, poll>>

Abandon ==
  /\ "late" \in Faults
  /\ Calls
  /\ late' = late \cup {NativeOf}
  /\ call' = NoCall
  /\ UNCHANGED <<rec, journal, vm, receipts, poll>>

LateCallRuns ==
  /\ \E n \in late, r \in Reply : Dispatch(n, r) /\ late' = late \ {n}
  /\ UNCHANGED <<rec, journal, call, poll>>

\* The native supervisor restarts; QEMU and the receipts outlive it.
NativeRestarts ==
  /\ late # {}
  /\ late' = {}
  /\ UNCHANGED <<rec, journal, call, vm, receipts, poll>>

\* GET /machines/{id}: a read outside the lock, compared on return.
StartPoll ==
  /\ poll = NoPoll
  /\ rec.state = "live"
  /\ \E s \in Sights : poll' = [rev |-> Revision, seen |-> s]
  /\ UNCHANGED <<rec, journal, call, vm, receipts, late>>

EndPoll ==
  /\ poll # NoPoll
  /\ poll' = NoPoll
  /\ UNCHANGED <<rec, journal, call, vm, receipts, late>>

Advance == Admit \/ Refused \/ Look \/ Answered \/ SettleSees \/ ReadReceipt \/ Finish
Disturbance == Interrupted \/ ReplyLost \/ Abandon

Next ==
  \/ \E c \in Commands : Receive(c) \/ Retry(c)
  \/ Advance \/ Disturbance
  \/ Native \/ LateCallRuns \/ NativeRestarts
  \/ StartPoll \/ EndPoll

Spec == Init /\ [][Next]_vars
-----------------------------------------------------------------------------
(* Fairness.  The control plane keeps retrying what is pending, the core's *)
(* handlers and the native workers go on, QEMU exits once told to, and     *)
(* calls are not interrupted for ever.                                     *)

Fairness ==
  /\ WF_vars(\E c \in Commands : Retry(c))
  /\ WF_vars(Advance)
  /\ WF_vars(QemuExits)
  /\ WF_vars(\E c \in Commands : StorageFence(c) \/ StorageCompletes(c) \/ StorageFails(c))
  /\ <>[][Disturbance => Advance]_vars

FairSpec == Spec /\ Fairness
-----------------------------------------------------------------------------
(* Properties. *)

\* What the control plane must be able to rely on to recover: at most one
\* operation is unfinished, and the very same request is still accepted as
\* its retry, however it was interleaved with fences and new incarnations.
PendingIsRetriable ==
  \A c \in Commands : Pending(c) => Retriable(c) /\ \A d \in Commands : Pending(d) => d = c

\* Faulty variant of ReportsStopped: the revision is not compared.
ReportsUncompared ==
  /\ poll # NoPoll
  /\ rec.state = "live"
  /\ poll.seen = "stopped"
  /\ NothingPending

\* hostDescription and describe: a stopped report needs a stopped reading, no
\* pending operation and an unchanged revision.
ReportsStopped ==
  /\ poll # NoPoll
  /\ rec.state = "live"
  /\ poll.seen = "stopped"
  /\ poll.rev = Revision
  /\ NothingPending

\* A report of stopped is release evidence: when it goes out, the machine is
\* stopped, although the reading behind it is older than the report.
ReleaseEvidence == ReportsStopped => vm.run = "stopped"

\* A fence that was answered with success holds: whatever starts are then
\* replayed, retried or still under way from before, even as native calls the
\* core gave up on, a machine that is not being destroyed never runs again.
FenceHolds ==
  \A c \in Commands :
    /\ c.verb = "fence" /\ journal[c] = "ok" /\ rec.state = "live"
    /\ \A d \in Commands : d.verb = "destroy" => journal[d] = "none"
    => vm.run = "stopped" /\ vm.fenced

\* Only a new incarnation lifts a fence, and it starts without one: the
\* native mark follows the record whenever no fence or destroy is under way.
FenceFollowsIncarnation ==
  rec.state = "live" /\ NothingPending =>
    /\ vm.fenced => rec.fenced
    /\ \A c \in Commands :
         c.verb = "fence" /\ journal[c] = "ok" /\ c.gen >= rec.inc => vm.fenced /\ vm.run = "stopped"

\* A destroyed machine stays gone: no request that is still under way brings
\* its folder or its process back.
DestroyedStaysGone == rec.state = "deleted" => vm.disk = None /\ vm.run = "stopped"

\* Whenever nothing is pending the machine exists and its identity disk holds
\* the registration token the registry expects, so it can enrol on its next
\* boot: a lost or failed reseed never outlives its operation.
IdentityReconciled ==
  rec.state = "live" /\ NothingPending
    => vm.disk # None /\ vm.seed = rec.token

\* A saved result is final, and it is only ever replaced by itself, even
\* across a new incarnation of the machine.
ResultsAreFinal == [][\A c \in Commands : Settled(c) => journal'[c] = journal[c]]_vars

\* QEMU is launched only on behalf of the start that is pending at that
\* moment, never while the record wants the machine stopped.
LaunchIsWanted ==
  [][vm.run = "stopped" /\ vm'.run = "running"
       => rec.desired = "running" /\ \E c \in Commands : c.verb = "start" /\ Pending(c)]_vars


\* What mutate says of the runner's known refusals (host-api.js:384-391): they
\* settle the journal entry and let later lifecycle work proceed.
RefusalsMakeWay == \A c \in Unfit : Pending(c) ~> NothingPending

-----------------------------------------------------------------------------
(* The journal implements OperationJournal: seen through it, retries, lost *)
(* replies, crashes and interleaved native work disappear.                 *)

OutcomeOf(o) == IF o \in {"pending", "committed"} THEN "open" ELSE o

Journal == INSTANCE OperationJournal WITH
  outcome <- [c \in Commands |-> OutcomeOf(journal[c])],
  generation <- rec.gen,
  machine <- rec.state

ImplementsJournal == Journal!JournalSpec
=============================================================================
