------------------------------ MODULE GuestApps ------------------------------
(***************************************************************************)
(* Installations and portable software of a guest: install_worker, apps    *)
(* and software in src/runtime/guest_tools.py.                             *)
(*                                                                         *)
(* A tool call accepts an installation on disk, under the caller's         *)
(* operation id, and launches a detached worker.  The workers of a guest   *)
(* take turns through a lease.  A portable program is staged by a worker   *)
(* and activated by a later call, through a policy file and a symbolic     *)
(* link.  Calls and workers die at every step; the guest reboots.          *)
(*                                                                         *)
(* Abstractions.  An operation stands for its payload: it sets an app of   *)
(* its own name up, or stages the version of its name of the one portable  *)
(* program.  Progress between the lease and the outcome is one status.     *)
(* app_status and app_list change nothing; what app_launch starts is no    *)
(* part of this state.  Calls of a computer run one after another          *)
(* (tool-locks.js), but one the host gave up on goes on beside the next.   *)
(***************************************************************************)
EXTENDS Naturals, FiniteSets

CONSTANTS
  Setups,   \* operations that install packages or run a setup script
  Versions, \* operations that stage a version of the portable program
  Calls,    \* slots for tool calls that run at once
  Limit     \* on the jobs that are not settled, 4 in the code

None == "none"
Portable == "portable"
Ops == Setups \cup Versions

ASSUME NamesAssumption == {None, Portable} \cap Ops = {} /\ Setups \cap Versions = {}
ASSUME LimitAssumption == Limit \in Nat \ {0}

VARIABLES
  job,     \* installs/<operation id>.json
  worker,  \* the process a call launched for an operation
  lease,   \* install.lock
  apps,    \* apps.json
  staged,  \* releases/<version>: nothing, without its release.json, or whole
  policy,  \* the program's entry of software.json
  link,    \* the symbolic link "current"
  call,    \* the tool calls under way
  running, \* the installers that run, by the worker that started them
  setups   \* history: how often the setup of an operation was started

jobs     == <<job, worker, lease, staged, setups, running>>
software == <<policy, link>>
vars     == <<jobs, apps, software, call>>

Workers == Ops \X Calls
NoWorker == <<None, None>>
Version == Versions \cup {None}
Registries == SUBSET (Setups \cup {Portable})

\* pending_activation is next and last, its version and previous.
Policies == [current : Version, previous : Version, pin : Version, next : Version, last : Version]
Unmanaged == [current |-> None, previous |-> None, pin |-> None, next |-> None, last |-> None]

\* A process has read apps.json, a call also the policy.
WorkerStates == [at : {"gone", "starting", "waiting", "leased", "setup", "copied", "done",
                       "failing", "completed", "register"}, seen : Registries]
CallStates == [at : {"idle", "accept", "launch", "pend", "switch", "read", "register", "save"},
               op : Ops \cup {None}, policy : Policies, seen : Registries]
Gone == [at |-> "gone", seen |-> {}]
Idle == [at |-> "idle", op |-> None, policy |-> Unmanaged, seen |-> {}]

TypeOK ==
  /\ job \in [Ops -> {"none", "queued", "waiting", "working", "completed", "failed"}]
  /\ worker \in [Workers -> WorkerStates]
  /\ lease \in Workers \cup {NoWorker}
  /\ apps \in Registries
  /\ staged \in [Versions -> {"none", "partial", "whole"}]
  /\ policy \in Policies /\ link \in Version
  /\ call \in [Calls -> CallStates]
  /\ running \subseteq Workers
  /\ setups \in [Ops -> Nat]

Init ==
  /\ job = [o \in Ops |-> "none"]
  /\ worker = [w \in Workers |-> Gone] /\ lease = NoWorker
  /\ apps = {}
  /\ staged = [v \in Versions |-> "none"]
  /\ policy = Unmanaged /\ link = None
  /\ call = [c \in Calls |-> Idle]
  /\ running = {} /\ setups = [o \in Ops |-> 0]
-----------------------------------------------------------------------------
(* Policies.                                                                *)

\* Every software call first completes an activation whose link was switched.
Reconciled(p) ==
  IF p.next # None /\ p.next = link
  THEN [p EXCEPT !.current = p.next, !.previous = p.last, !.next = None, !.last = None]
  ELSE p

Step(c, at) == call' = [call EXCEPT ![c].at = at]

Return(c) == call' = [call EXCEPT ![c] = Idle]
-----------------------------------------------------------------------------
(* app_install and software_stage.                                          *)

Active == {o \in Ops : job[o] \notin {"none", "completed", "failed"}}

\* Faulty variant of AppInstall: a job whose worker is gone is accepted again.
AppInstallAgain(c, o) ==
  /\ call[c] = Idle
  /\ job[o] = "none" \/ (job[o] = "working" /\ \A d \in Calls : worker[<<o, d>>] = Gone)
  /\ Cardinality(Active) < Limit
  /\ call' = [call EXCEPT ![c] = [Idle EXCEPT !.at = "accept", !.op = o]]
  /\ UNCHANGED <<policy, jobs, apps, link>>

\* A known operation answers its status; a new one needs a place in the queue.
AppInstall(c, o) ==
  /\ call[c] = Idle
  /\ job[o] = "none" /\ Cardinality(Active) < Limit
  /\ call' = [call EXCEPT ![c] = [Idle EXCEPT !.at = "accept", !.op = o]]
  /\ policy' \in {policy} \cup IF o \in Versions THEN {Reconciled(policy)} ELSE {}
  /\ UNCHANGED <<jobs, apps, link>>

\* Faulty variant of Save: a status the workers do not know.
SavePending(c) ==
  /\ call[c].at = "accept"
  /\ job' = [job EXCEPT ![call[c].op] = "pending"]
  /\ Step(c, "launch")
  /\ UNCHANGED <<worker, lease, staged, setups, running, apps, software>>

\* The accepted identity is durable before the launch.
Save(c) ==
  /\ call[c].at = "accept"
  /\ job' = [job EXCEPT ![call[c].op] = "queued"]
  /\ Step(c, "launch")
  /\ UNCHANGED <<worker, lease, staged, setups, running, apps, software>>

Launch(c) ==
  /\ call[c].at = "launch"
  /\ worker' = [worker EXCEPT ![<<call[c].op, c>>] = [Gone EXCEPT !.at = "starting"]]
  /\ Return(c)
  /\ UNCHANGED <<job, lease, staged, setups, running, apps, software>>

\* Killed, or an error.
CallDies(c) ==
  /\ call[c] # Idle /\ Return(c)
  /\ UNCHANGED <<jobs, apps, software>>
-----------------------------------------------------------------------------
(* install_worker.  w is <<operation, call that launched it>>.              *)

At(w, at) == worker[w].at = at
Goto(w, at) == worker' = [worker EXCEPT ![w].at = at]
Progress(w, status) == job' = [job EXCEPT ![w[1]] = status]

\* Faulty variant of Leaves: the lease outlives its process.
LeavesLease(w) == worker' = [worker EXCEPT ![w] = Gone] /\ UNCHANGED lease

\* The kernel drops the lock of a process that ends.
Leaves(w) ==
  /\ worker' = [worker EXCEPT ![w] = Gone]
  /\ lease' = IF lease = w THEN NoWorker ELSE lease

WorkerStarts(w) ==
  /\ At(w, "starting") /\ Goto(w, "waiting") /\ Progress(w, "waiting")
  /\ UNCHANGED <<lease, staged, setups, running, apps, software, call>>

Acquire(w) ==
  /\ At(w, "waiting") /\ lease = NoWorker
  /\ lease' = w /\ Goto(w, "leased") /\ Progress(w, "working")
  /\ UNCHANGED <<staged, setups, running, apps, software, call>>

\* timeout_seconds passed, or the artifact is not what was asked for.
GivesUp(w) ==
  /\ At(w, "waiting") \/ At(w, "leased")
  /\ Goto(w, "failing")
  /\ UNCHANGED <<job, lease, staged, setups, running, apps, software, call>>

\* A package manager or the script runs, in a session of its own and without
\* the lease, ...
Setup(w) ==
  /\ At(w, "leased") /\ w[1] \in Setups
  /\ setups' = [setups EXCEPT ![w[1]] = @ + 1] /\ running' = running \cup {w}
  /\ Goto(w, "setup")
  /\ UNCHANGED <<job, lease, staged, apps, software, call>>

\* ... until it ends, well, with an error or without its executable, or is
\* killed at the deadline.  One that sudo started is root's and cannot be.
SetupEnds(w) ==
  /\ At(w, "setup")
  /\ \/ running' = running \ {w} /\ (Goto(w, "done") \/ Goto(w, "failing"))
     \/ running' = running /\ Goto(w, "failing")
  /\ UNCHANGED <<job, lease, staged, setups, apps, software, call>>

\* An installer whose worker is dead, or has given it up.
InstallerEnds(w) ==
  /\ w \in running /\ ~At(w, "setup")
  /\ running' = running \ {w}
  /\ UNCHANGED <<job, worker, lease, staged, setups, apps, software, call>>

\* A version is staged once, into a folder of its own, ...
Stage(w) ==
  /\ At(w, "leased") /\ w[1] \in Versions
  /\ IF staged[w[1]] # "none" THEN Goto(w, "failing") /\ UNCHANGED <<staged, setups>>
     ELSE /\ staged' = [staged EXCEPT ![w[1]] = "partial"]
          /\ setups' = [setups EXCEPT ![w[1]] = @ + 1]
          /\ Goto(w, "copied")
  /\ UNCHANGED <<job, lease, running, apps, software, call>>

\* ... which is usable with its release.json.
Release(w) ==
  /\ At(w, "copied") /\ Goto(w, "done")
  /\ staged' = [staged EXCEPT ![w[1]] = "whole"]
  /\ UNCHANGED <<job, lease, setups, running, apps, software, call>>

\* Completion is saved, and only then registered.
Complete(w) ==
  /\ At(w, "done") /\ Progress(w, "completed")
  /\ IF w[1] \in Versions THEN Leaves(w) ELSE Goto(w, "completed") /\ UNCHANGED lease
  /\ UNCHANGED <<staged, setups, running, apps, software, call>>

ReadApps(w) ==
  /\ At(w, "completed")
  /\ worker' = [worker EXCEPT ![w] = [at |-> "register", seen |-> apps]]
  /\ UNCHANGED <<job, lease, staged, setups, running, apps, software, call>>

Register(w) ==
  /\ At(w, "register") /\ Leaves(w)
  /\ apps' = worker[w].seen \cup {w[1]}
  /\ UNCHANGED <<job, staged, setups, running, software, call>>

\* Any error is saved as a failure, one of the registration too.
RegisterFails(w) ==
  /\ At(w, "completed") \/ At(w, "register")
  /\ Goto(w, "failing")
  /\ UNCHANGED <<job, lease, staged, setups, running, apps, software, call>>

Fails(w) ==
  /\ At(w, "failing") /\ Leaves(w) /\ Progress(w, "failed")
  /\ UNCHANGED <<staged, setups, running, apps, software, call>>

WorkerDies(w) ==
  /\ ~At(w, "gone") /\ Leaves(w)
  /\ UNCHANGED <<job, staged, setups, running, apps, software, call>>

Work(w) ==
  \/ WorkerStarts(w) \/ Acquire(w) \/ Setup(w) \/ SetupEnds(w) \/ Stage(w) \/ Release(w)
  \/ Complete(w) \/ ReadApps(w) \/ Register(w) \/ Fails(w)
-----------------------------------------------------------------------------
(* software.                                                                *)

Begin(c, at, p, v) ==
  /\ call[c] = Idle
  /\ policy' = Reconciled(policy)
  /\ call' = [call EXCEPT ![c] = [at |-> at, op |-> v, policy |-> p, seen |-> {}]]
  /\ UNCHANGED <<jobs, apps, link>>

SoftwareState(c) == Begin(c, "save", Reconciled(policy), None)

SoftwarePin(c) == \E v \in Version : Begin(c, "save", [Reconciled(policy) EXCEPT !.pin = v], None)

\* software_rollback is the activation of the previous version.  The release
\* passes its checksum and its --version probe before anything changes.
SoftwareActivate(c) == \E v \in Versions :
  /\ Reconciled(policy).pin \in {None, v} /\ staged[v] = "whole"
  /\ Begin(c, "pend", Reconciled(policy), v)

Pended(p, v) == [p EXCEPT !.next = v, !.last = p.current]

\* Faulty variant of Pend: the link is switched first.
PendNothing(c) ==
  /\ call[c].at = "pend" /\ Step(c, "switch")
  /\ UNCHANGED <<jobs, apps, software>>

\* The intended activation is durable before the link is switched.
Pend(c) ==
  /\ call[c].at = "pend" /\ Step(c, "switch")
  /\ policy' = Pended(call[c].policy, call[c].op)
  /\ UNCHANGED <<jobs, apps, link>>

Switch(c) ==
  /\ call[c].at = "switch"
  /\ link' = call[c].op
  /\ LET p == call[c].policy
     IN call' = [call EXCEPT ![c].at = "read",
                   ![c].policy = [p EXCEPT !.previous = p.current, !.current = call[c].op,
                                           !.next = None, !.last = None]]
  /\ UNCHANGED <<jobs, apps, policy>>

ReadRegistry(c) ==
  /\ call[c].at = "read"
  /\ call' = [call EXCEPT ![c].at = "register", ![c].seen = apps]
  /\ UNCHANGED <<jobs, apps, software>>

RegisterPortable(c) ==
  /\ call[c].at = "register" /\ Step(c, "save")
  /\ apps' = call[c].seen \cup {Portable}
  /\ UNCHANGED <<jobs, software>>

SavePolicy(c) ==
  /\ call[c].at = "save" /\ Return(c)
  /\ policy' = call[c].policy
  /\ UNCHANGED <<jobs, apps, link>>

Software(c) ==
  \/ SoftwareState(c) \/ SoftwarePin(c) \/ SoftwareActivate(c)
  \/ Pend(c) \/ Switch(c) \/ ReadRegistry(c) \/ RegisterPortable(c) \/ SavePolicy(c)
-----------------------------------------------------------------------------
Reboot ==
  /\ worker' = [w \in Workers |-> Gone] /\ lease' = NoWorker
  /\ running' = {} /\ call' = [c \in Calls |-> Idle]
  /\ UNCHANGED <<job, staged, setups, apps, software>>

Next ==
  \/ \E c \in Calls : (\E o \in Ops : AppInstall(c, o)) \/ Save(c) \/ Launch(c) \/ CallDies(c) \/ Software(c)
  \/ \E w \in Workers : Work(w) \/ GivesUp(w) \/ RegisterFails(w) \/ WorkerDies(w)
                       \/ InstallerEnds(w)
  \/ Reboot

Spec == Init /\ [][Next]_vars

\* A worker goes on: downloads and setups end at the deadline of the job.  That
\* a worker which waits gives up at its own is not assumed.
Fairness == \A w \in Workers : WF_vars(Work(w))

FairSpec == Spec /\ Fairness
-----------------------------------------------------------------------------
(* Properties.                                                              *)

\* Setting an operation up is never repeated, whatever became of its first
\* call, its worker or the guest.
SetupOnce == \A o \in Ops : setups[o] <= 1

\* What the policy says is active, once an interrupted activation has been
\* completed, is what the link names; and it is staged.
ActivationIsKnown ==
  /\ Reconciled(policy).current = link
  /\ link # None => staged[link] = "whole"

\* A worker that waits for the lease gets its turn and ends, without its own
\* deadline: the holder finishes, fails or dies, and leaves the lease.
WaitersEnd == \A w \in Workers : worker[w].at = "waiting" ~> worker[w].at = "gone"
=============================================================================
