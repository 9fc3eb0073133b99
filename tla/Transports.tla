----------------------------- MODULE Transports -----------------------------
(***************************************************************************)
(* How the core decides that a machine is ready (hostDescription and the   *)
(* start of src/src/host-api.js, the heartbeat of src/src/guest.js), and   *)
(* what it opens on the strength of it: desktops (desktop.js), SSH shells  *)
(* (ssh.js), and the action sessions and tunnels of data-plane.js.         *)
(*                                                                         *)
(* A transport begins as a single-use ticket bound to the generation and   *)
(* the boot it was minted for.  Redeeming it asks the native runner again, *)
(* under the machine lock, and a lifecycle command revokes what is out     *)
(* while it has the lock.  Around every await the guest may reboot, power  *)
(* off or send a heartbeat, and other requests may be let in.              *)
(*                                                                         *)
(* Abstractions.  One machine, created before, whose every start has a     *)
(* generation of its own (the first may share the create's).  A boot_id is *)
(* the number of the boot; the 60 s of a heartbeat, the expiry of a ticket *)
(* and the three capabilities are choices.  A heartbeat may be late but    *)
(* does not arrive after one of a later boot: the guest has one in flight  *)
(* at a time.  A shutdown and a force-stop are "stop"; deletion, storage   *)
(* commands, Cua, the journal's replies and late native calls are not      *)
(* modelled here (see HostLifecycle).  Requests wait for the lock in any   *)
(* order, not in turn.                                                     *)
(* What follows an answered await runs before any other event (Node drains *)
(* the promise queue), except the work that waits for the released lock.   *)
(***************************************************************************)
EXTENDS Naturals

CONSTANTS
  Desktops,  \* requests for a desktop
  Shells,    \* requests for an SSH shell
  Sockets,   \* requests for an action session or a tunnel
  MaxGen,    \* bound on the generations, one for each start
  MaxLaunch, \* bound on the launches of QEMU
  MaxBoot    \* bound on the boots of the guest

Clients == Desktops \cup Shells \cup Sockets
Stages == {"free", "look", "native", "tell"}

ASSUME ClientsAssumption ==
  /\ Clients \cap Stages = {}
  /\ Desktops \cap Shells = {} /\ Sockets \cap (Desktops \cup Shells) = {}
ASSUME BoundsAssumption == MaxGen \in Nat /\ MaxLaunch \in Nat /\ MaxBoot \in Nat

VARIABLES
  rec,     \* the registry's record of the machine
  op,      \* its pending operation
  lock,    \* the machine lock: a command's stage, or the request that has it
  seen,    \* the status the native runner answered to the holder
  vm,      \* QEMU and the guest
  tr,      \* the transports
  last,    \* the boot of the last heartbeat that arrived
  retired  \* history: boots up to this one had been heard of and were over when
           \* a start was prepared

vars == <<rec, op, lock, seen, vm, tr, last, retired>>

Gens == 0 .. MaxGen
Launches == 0 .. MaxLaunch
Boots == 0 .. MaxBoot

NoOp == [verb |-> "none", prepared |-> FALSE]

\* crossed is a history: a lifecycle command came after the ticket was minted.
NoTransport == [at |-> "none", gen |-> 0, boot |-> 0, launch |-> 0,
                revoked |-> FALSE, crossed |-> FALSE]
Waiting == {"pending", "asking"}
Locked == {"minting", "delivering", "checking", "testing"}
Answered == {"valid", "passed"}
Places == {"none", "ticket", "open"} \cup Waiting \cup Locked \cup Answered
TransportStates == [at : Places, gen : Gens, boot : Boots, launch : Launches,
                    revoked : BOOLEAN, crossed : BOOLEAN]

Records == [gen : Gens, boot : Boots, previous : SUBSET (Boots \ {0}), fresh : BOOLEAN,
            desired : {"running", "stopped"}]
Machines == [power : {"on", "off"}, launch : Launches, guest : Boots, boots : Boots]

TypeOK ==
  /\ rec \in Records
  /\ op \in [verb : {"none", "start", "stop"}, prepared : BOOLEAN]
  /\ lock \in Stages \cup Clients
  /\ seen \in {"running", "stopped", "unknown"}
  /\ vm \in Machines
  /\ tr \in [Clients -> TransportStates]
  /\ last \in Boots /\ retired \in Boots

On == vm.power = "on"

Init ==
  /\ rec = [gen |-> 0, boot |-> 0, previous |-> {}, fresh |-> FALSE, desired |-> "stopped"]
  /\ op = NoOp /\ lock = "free" /\ seen = "unknown"
  /\ vm = [power |-> "off", launch |-> 0, guest |-> 0, boots |-> 0]
  /\ tr = [t \in Clients |-> NoTransport]
  /\ last = 0 /\ retired = 0
-----------------------------------------------------------------------------
(* Readiness.                                                               *)

\* runtime.describe: the status, which may be old when it is used.
Describe == seen' \in {IF On THEN "running" ELSE "stopped", "unknown"}

\* hostDescription: a pending operation keeps the status from being running.
Ready ==
  /\ op = NoOp /\ seen = "running" /\ rec.desired = "running"
  /\ rec.boot # 0 /\ rec.boot \notin rec.previous
  /\ rec.fresh

\* No answered await is still to be followed.
Drained == \A t \in Clients : tr[t].at \notin Answered

At(t, at) == tr[t].at = at
Goto(t, at) == tr' = [tr EXCEPT ![t].at = at]
Drop(t) == tr' = [tr EXCEPT ![t] = NoTransport]

\* A heartbeat is recorded without the machine lock, whoever sent it.
Heartbeat(b) ==
  /\ Drained
  /\ b # 0 /\ last <= b /\ b <= vm.boots
  /\ \E usable \in BOOLEAN : rec' = [rec EXCEPT !.boot = b, !.fresh = usable]
  /\ last' = b
  /\ UNCHANGED <<op, lock, seen, vm, tr, retired>>

\* A minute without a heartbeat.
Age ==
  /\ Drained /\ rec.fresh
  /\ rec' = [rec EXCEPT !.fresh = FALSE]
  /\ UNCHANGED <<op, lock, seen, vm, tr, last, retired>>

\* The guest says that it is shutting down.
ShutdownAck ==
  /\ Drained /\ vm.guest # 0
  /\ rec' = [rec EXCEPT !.desired = "stopped"]
  /\ UNCHANGED <<op, lock, seen, vm, tr, last, retired>>

\* The guest boots: for the first time in this QEMU, or again.
Boot ==
  /\ On /\ vm.boots < MaxBoot
  /\ vm' = [vm EXCEPT !.guest = vm.boots + 1, !.boots = @ + 1]
  /\ UNCHANGED <<rec, op, lock, seen, tr, last, retired>>

PowerOff ==
  /\ On
  /\ vm' = [vm EXCEPT !.power = "off", !.guest = 0]
  /\ UNCHANGED <<rec, op, lock, seen, tr, last, retired>>
-----------------------------------------------------------------------------
(* Lifecycle commands.                                                      *)

\* Faulty variant of Registered: any transport is registered once it is open.
RegisteredOpen(t) == tr[t].at \in {"open", "asking", "passed"}

\* What revokeDesktop, revokeSsh and revokeDataPlane find: a desktop or a
\* shell from its redemption on, a socket only once it is open.
Registered(t) == t \notin Sockets \/ tr[t].at \in {"open", "asking", "passed"}

Revoked(t) ==
  IF tr[t].at \in {"none", "ticket", "open"} THEN NoTransport
  ELSE [tr[t] EXCEPT !.crossed = TRUE, !.revoked = @ \/ Registered(t)]

\* mutate: a new command or the retry of the pending one is journaled and
\* revokes; a start asks for the status next.
Accept(verb, g) ==
  /\ lock = "free"
  /\ \/ op = NoOp /\ g >= rec.gen /\ (verb = "start" => g > rec.gen)
     \/ op.verb = verb /\ g = rec.gen
  /\ rec' = [rec EXCEPT !.gen = g, !.desired = IF verb = "stop" THEN "stopped" ELSE @]
  /\ op' = IF op = NoOp THEN [verb |-> verb, prepared |-> FALSE] ELSE op
  /\ lock' = IF verb = "start" THEN "look" ELSE "native"
  /\ IF verb = "start" THEN Describe ELSE UNCHANGED seen
  /\ tr' = [t \in Clients |-> Revoked(t)]
  /\ UNCHANGED <<vm, last, retired>>

\* Faulty variant of Retire: a machine that was never heard of is not left out.
RetireUnfiltered == rec.previous \cup {rec.boot}

Retire == rec.previous \cup ({rec.boot} \ {0})

\* A start that finds the machine stopped forgets the last boot, once.
Prepare ==
  /\ lock = "look" /\ Drained
  /\ IF seen = "unknown" THEN lock' = "free" /\ UNCHANGED <<rec, op, retired>>
     ELSE /\ lock' = "native"
          /\ IF seen = "stopped" /\ ~op.prepared
             THEN /\ rec' = [rec EXCEPT !.previous = Retire, !.boot = 0, !.fresh = FALSE,
                                        !.desired = "running"]
                  /\ op' = [op EXCEPT !.prepared = TRUE]
                  /\ retired' = last
             ELSE rec' = [rec EXCEPT !.desired = "running"] /\ UNCHANGED <<op, retired>>
  /\ UNCHANGED <<seen, vm, tr, last>>

\* startMachine.  A reply may be lost, a refused launch is known.
Launch ==
  /\ lock = "native" /\ op.verb = "start" /\ Drained
  /\ \/ /\ IF On THEN UNCHANGED vm
           ELSE /\ vm.launch < MaxLaunch
                /\ vm' = [vm EXCEPT !.power = "on", !.launch = @ + 1]
        /\ lock' \in {"tell", "free"}
        /\ UNCHANGED <<rec, op>>
     \/ lock' = "free" /\ UNCHANGED <<rec, op, vm>>
     \/ /\ ~On /\ lock' = "free" /\ op' = NoOp
        /\ rec' = [rec EXCEPT !.desired = "stopped"]
        /\ UNCHANGED vm
  /\ UNCHANGED <<seen, tr, last, retired>>

\* shutdown or forceStop.
Halt ==
  /\ lock = "native" /\ op.verb = "stop" /\ Drained
  /\ \/ /\ vm' = [vm EXCEPT !.power = "off", !.guest = 0]
        /\ lock' \in {"tell", "free"}
     \/ lock' = "free" /\ UNCHANGED vm
  /\ UNCHANGED <<rec, op, seen, tr, last, retired>>

\* The result is journaled with a description of the machine.
Tell ==
  /\ lock = "tell" /\ Drained
  /\ op' = NoOp /\ lock' = "free"
  /\ UNCHANGED <<rec, seen, vm, tr, last, retired>>
-----------------------------------------------------------------------------
(* Transports.                                                              *)

Request(t) ==
  /\ lock = "free" /\ At(t, "none")
  /\ lock' = t /\ Describe
  /\ tr' = [tr EXCEPT ![t].at = "minting", ![t].launch = vm.launch]
  /\ UNCHANGED <<rec, op, vm, last, retired>>

\* A shell is minted for a running machine, any other for a ready one.
Mintable(t) ==
  IF t \in Shells THEN seen = "running" /\ rec.boot # 0 /\ rec.desired = "running"
  ELSE Ready

Mint(t) ==
  /\ At(t, "minting") /\ Drained
  /\ IF Mintable(t)
     THEN /\ tr' = [tr EXCEPT ![t].at = IF t \in Shells THEN "delivering" ELSE "ticket",
                              ![t].gen = rec.gen, ![t].boot = rec.boot]
          /\ lock' = IF t \in Shells THEN t ELSE "free"
     ELSE Drop(t) /\ lock' = "free"
  /\ UNCHANGED <<rec, op, seen, vm, last, retired>>

\* handleSsh: the key reaches the guest before the ticket is minted.
Deliver(t) ==
  /\ At(t, "delivering") /\ Drained
  /\ Goto(t, "ticket") \/ Drop(t)
  /\ lock' = "free"
  /\ UNCHANGED <<rec, op, seen, vm, last, retired>>

\* A ticket is used once.
Redeem(t) ==
  /\ At(t, "ticket") /\ Drained
  /\ Goto(t, "pending")
  /\ UNCHANGED <<rec, op, lock, seen, vm, last, retired>>

\* A ticket expires, a client or a connection goes away.
Close(t) ==
  /\ tr[t].at \in {"ticket", "pending", "open"} /\ Drained
  /\ Drop(t)
  /\ UNCHANGED <<rec, op, lock, seen, vm, last, retired>>

\* An open session is asked for an action.
Act(t) ==
  /\ t \in Sockets /\ At(t, "open") /\ Drained
  /\ Goto(t, "asking")
  /\ UNCHANGED <<rec, op, lock, seen, vm, last, retired>>

\* allowed: a revoked session is not validated any more.
Check(t) ==
  /\ lock = "free" /\ tr[t].at \in Waiting
  /\ IF At(t, "asking") /\ tr[t].revoked THEN Drop(t) /\ UNCHANGED <<lock, seen>>
     ELSE /\ Goto(t, IF At(t, "asking") THEN "testing" ELSE "checking")
          /\ lock' = t /\ Describe
  /\ UNCHANGED <<rec, op, vm, last, retired>>

\* Faulty variant of Valid: readiness alone.
ValidIfReady(t) == Ready

\* validateDesktop.
Valid(t) == tr[t].gen = rec.gen /\ tr[t].boot = rec.boot /\ Ready

Answer(t) ==
  /\ tr[t].at \in {"checking", "testing"} /\ Drained
  /\ CASE Valid(t) -> Goto(t, IF At(t, "testing") THEN "passed" ELSE "valid")
       [] ~Valid(t) /\ At(t, "testing") -> Goto(t, "open")
       [] OTHER -> Drop(t)
  /\ lock' = "free"
  /\ UNCHANGED <<rec, op, seen, vm, last, retired>>

\* The transport is opened and dials its target, unless it was revoked (or
\* has expired) by now.
Enter(t) ==
  /\ At(t, "valid")
  /\ \/ ~tr[t].revoked /\ Goto(t, "open")
     \/ Drop(t)
  /\ UNCHANGED <<rec, op, lock, seen, vm, last, retired>>

\* The action runs; the socket may be closed meanwhile.
Perform(t) ==
  /\ At(t, "passed")
  /\ IF tr[t].revoked THEN Drop(t) ELSE Goto(t, "open")
  /\ UNCHANGED <<rec, op, lock, seen, vm, last, retired>>

\* The core dies and starts again: transports and locks are in its memory.
Restart ==
  /\ lock' = "free" /\ seen' = "unknown"
  /\ tr' = [t \in Clients |-> NoTransport]
  /\ UNCHANGED <<rec, op, vm, last, retired>>

Next ==
  \/ \E b \in Boots : Heartbeat(b)
  \/ Age \/ ShutdownAck \/ Boot \/ PowerOff \/ Restart
  \/ \E verb \in {"start", "stop"}, g \in Gens : Accept(verb, g)
  \/ Prepare \/ Launch \/ Halt \/ Tell
  \/ \E t \in Clients :
       \/ Request(t) \/ Mint(t) \/ Deliver(t) \/ Redeem(t) \/ Close(t)
       \/ Act(t) \/ Check(t) \/ Answer(t) \/ Enter(t) \/ Perform(t)

Spec == Init /\ [][Next]_vars
-----------------------------------------------------------------------------
\* A lifecycle command closes the desktops and shells it finds, those among
\* them that still wait for their validation: what is open is younger.
RevokedIsClosed ==
  \A t \in Desktops \cup Shells : At(t, "open") => ~tr[t].crossed

\* A transport that is opened, and an action that is let through, reaches the
\* QEMU its ticket was minted for (or none), and neither a boot after which
\* the core has heard of another one, nor one that was over when a start was
\* prepared: a late heartbeat makes no machine ready.
Reaches(t) ==
  /\ On => tr[t].launch = vm.launch
  /\ tr[t].boot = last /\ tr[t].boot > retired

ReachesItsBoot ==
  [][\A t \in Clients :
       (At(t, "valid") /\ tr'[t].at = "open") \/ (At(t, "passed") /\ tr'[t].at # "passed")
         => Reaches(t)]_vars
=============================================================================
