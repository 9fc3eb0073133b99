------------------------- MODULE Transports_proofs -------------------------
(***************************************************************************)
(* Proofs about Transports for any requests and bounds.                    *)
(***************************************************************************)
EXTENDS Transports, TLAPS

Commanded == lock \in {"look", "native", "tell"}

-----------------------------------------------------------------------------
(* The inductive invariant.                                                 *)

\* The record holds the last boot heard of, or has retired it.
RecordInv ==
  /\ rec.boot \in {0, last}
  /\ last # 0 /\ rec.boot = 0 => last \in rec.previous
  /\ retired <= last /\ (retired # 0 => retired \in rec.previous)

\* A transport that still counts: no command has taken it back.
Counts(t) == t \in Sockets \/ ~tr[t].revoked

Bound(t) == tr[t].at \notin {"none", "minting"}

\* A transport is at its QEMU.
Here(t) == On => tr[t].launch = vm.launch

\* What a transport holds and what was revoked.
Kept(t) ==
  /\ tr[t].at \in Locked => lock = t
  /\ tr[t].at \in {"asking", "testing", "passed"} => t \in Sockets
  /\ t \notin Sockets /\ tr[t].crossed => tr[t].revoked
  /\ t \notin Sockets /\ At(t, "open") => ~tr[t].revoked
  /\ t \notin Sockets /\ Commanded /\ ~At(t, "none") => tr[t].revoked

\* A transport bound to the current generation is at the QEMU it was minted
\* for: a start has a generation of its own, and a shell that was minted
\* during one is revoked by its retry.
Bounded(t) ==
  /\ At(t, "minting") => Here(t)
  /\ Bound(t) => tr[t].gen <= rec.gen
  /\ Bound(t) /\ t \notin Shells /\ op.verb = "start" => tr[t].gen < rec.gen
  /\ Bound(t) /\ tr[t].gen = rec.gen /\ (t \in Shells => ~tr[t].revoked) => Here(t)

\* What was answered holds until it is followed.
Followed(t) == tr[t].at \in Answered /\ Counts(t) => Reaches(t)

IInv == TypeOK /\ RecordInv /\ \A t \in Clients : Kept(t) /\ Bounded(t) /\ Followed(t)
-----------------------------------------------------------------------------
(* What a step of one transport changes.                                    *)

Fine(t) == Kept(t) /\ Bounded(t) /\ Followed(t)

\* A transport that ends.
LEMMA DropFacts ==
  ASSUME TypeOK, NEW t \in Clients, Drop(t)
  PROVE  /\ tr' \in [Clients -> TransportStates]
         /\ tr'[t] = NoTransport
         /\ \A u \in Clients : u # t => tr'[u] = tr[u]
<1>1. NoTransport \in TransportStates
  BY BoundsAssumption DEF NoTransport, TransportStates, Places, Gens, Boots, Launches
<1> QED BY <1>1 DEF TypeOK, Drop

\* A transport that moves to another place.
LEMMA GotoFacts ==
  ASSUME TypeOK, NEW t \in Clients, NEW at \in Places, Goto(t, at)
  PROVE  /\ tr' \in [Clients -> TransportStates]
         /\ tr'[t].at = at
         /\ tr'[t].gen = tr[t].gen /\ tr'[t].boot = tr[t].boot /\ tr'[t].launch = tr[t].launch
         /\ tr'[t].revoked = tr[t].revoked /\ tr'[t].crossed = tr[t].crossed
         /\ \A u \in Clients : u # t => tr'[u] = tr[u]
BY DEF TypeOK, Goto, TransportStates

\* What a request and minting write into a transport.
LEMMA RequestedFields ==
  ASSUME NEW r \in TransportStates, NEW at, NEW l
  PROVE  [r EXCEPT !.at = at, !.launch = l]
           = [at |-> at, gen |-> r.gen, boot |-> r.boot, launch |-> l,
              revoked |-> r.revoked, crossed |-> r.crossed]
<1> DEFINE r1 == [r EXCEPT !.at = at]
           r2 == [r1 EXCEPT !.launch = l]
<1>0. r2 = [r EXCEPT !.at = at, !.launch = l]
  OBVIOUS
<1> HIDE DEF r1, r2
<1>1. r1 = [at |-> at, gen |-> r.gen, boot |-> r.boot, launch |-> r.launch,
            revoked |-> r.revoked, crossed |-> r.crossed]
  BY DEF r1, TransportStates
<1>2. r2 = [at |-> at, gen |-> r.gen, boot |-> r.boot, launch |-> l,
            revoked |-> r.revoked, crossed |-> r.crossed]
  BY <1>1 DEF r2
<1> QED BY <1>0, <1>2

LEMMA MintedFields ==
  ASSUME NEW r \in TransportStates, NEW at, NEW g, NEW b
  PROVE  [r EXCEPT !.at = at, !.gen = g, !.boot = b]
           = [at |-> at, gen |-> g, boot |-> b, launch |-> r.launch,
              revoked |-> r.revoked, crossed |-> r.crossed]
<1> DEFINE r1 == [r EXCEPT !.at = at]
           r3 == [r1 EXCEPT !.gen = g]
           r4 == [r3 EXCEPT !.boot = b]
<1>0. r4 = [r EXCEPT !.at = at, !.gen = g, !.boot = b]
  OBVIOUS
<1> HIDE DEF r1, r3, r4
<1>1. r1 = [at |-> at, gen |-> r.gen, boot |-> r.boot, launch |-> r.launch,
            revoked |-> r.revoked, crossed |-> r.crossed]
  BY DEF r1, TransportStates
<1>3. r3 = [at |-> at, gen |-> g, boot |-> r.boot, launch |-> r.launch,
            revoked |-> r.revoked, crossed |-> r.crossed]
  BY <1>1 DEF r3
<1>4. r4 = [at |-> at, gen |-> g, boot |-> b, launch |-> r.launch,
            revoked |-> r.revoked, crossed |-> r.crossed]
  BY <1>3 DEF r4
<1> QED BY <1>0, <1>4

\* A transport that is not there is fine.
LEMMA NoneIsFine ==
  ASSUME NEW t \in Clients, tr'[t] = NoTransport
  PROVE  Fine(t)'
BY DEF Fine, Kept, Bounded, Followed, Counts, Bound, Here, On, At, NoTransport, Locked, Answered

\* A step of t under the lock, or one that leaves the lock alone, does not
\* concern the other transports.
LEMMA OneTransport ==
  ASSUME IInv, NEW t \in Clients,
         UNCHANGED <<rec, op, vm, last, retired>>,
         tr' \in [Clients -> TransportStates],
         \A u \in Clients : u # t => tr'[u] = tr[u],
         \/ lock' = lock
         \/ lock \in {"free", t} /\ lock' \in {"free", t},
         seen' \in {"running", "stopped", "unknown"},
         Fine(t)'
  PROVE  IInv'
<1>1. lock' \in Stages \cup Clients
  BY DEF IInv, TypeOK, Stages
<1>2. TypeOK' /\ RecordInv'
  BY <1>1 DEF IInv, TypeOK, RecordInv
<1>3. ASSUME NEW u \in Clients, u # t PROVE Fine(u)'
  <2>1. tr'[u] = tr[u] /\ Kept(u) /\ Bounded(u) /\ Followed(u)
    BY <1>3 DEF IInv
  <2>2. Kept(u)'
    BY <1>3, <2>1, ClientsAssumption DEF Kept, Commanded, At, Stages
  <2>3. Bounded(u)' /\ Followed(u)'
    BY <2>1 DEF Bounded, Followed, Counts, Bound, Here, On, Reaches, At
  <2> QED BY <2>2, <2>3 DEF Fine
<1> QED BY <1>2, <1>3 DEF IInv, Fine
-----------------------------------------------------------------------------
(* The transports.                                                          *)

\* A request takes the lock and is minted, refused or delivers its key.
LEMMA MintIInv ==
  ASSUME IInv, NEW t \in Clients, Request(t) \/ Mint(t) \/ Deliver(t)
  PROVE  IInv'
<1>0. TypeOK /\ Kept(t) /\ Bounded(t) /\ Followed(t)
  BY DEF IInv
<1>1. CASE Request(t)
  <2>1. /\ UNCHANGED <<rec, op, vm, last, retired>> /\ lock = "free" /\ lock' = t
        /\ seen' \in {"running", "stopped", "unknown"}
    BY <1>1 DEF Request, Describe
  <2>2. tr' = [tr EXCEPT ![t] = [tr[t] EXCEPT !.at = "minting", !.launch = vm.launch]]
    BY <1>0, <1>1 DEF Request, TypeOK
  <2>3. tr[t] \in TransportStates /\ vm.launch \in Launches
    BY <1>0 DEF TypeOK, Machines
  <2>4. [tr[t] EXCEPT !.at = "minting", !.launch = vm.launch]
          = [at |-> "minting", gen |-> tr[t].gen, boot |-> tr[t].boot, launch |-> vm.launch,
             revoked |-> tr[t].revoked, crossed |-> tr[t].crossed]
    BY <2>3, RequestedFields
  <2>5. /\ tr' \in [Clients -> TransportStates]
        /\ \A u \in Clients : u # t => tr'[u] = tr[u]
        /\ tr'[t].at = "minting" /\ tr'[t].launch = vm.launch
        /\ tr'[t].crossed = tr[t].crossed /\ tr'[t].revoked = tr[t].revoked
    BY <1>0, <2>2, <2>3, <2>4 DEF TypeOK, TransportStates, Places, Locked
  <2>6. Fine(t)'
    BY <1>0, <2>1, <2>5, ClientsAssumption
       DEF Fine, Kept, Bounded, Followed, Bound, Here, On, Commanded, At, Locked, Answered, Stages
  <2> QED BY <2>1, <2>5, <2>6, OneTransport
<1>2. CASE Mint(t)
  <2>1. /\ UNCHANGED <<rec, op, vm, last, retired, seen>> /\ lock = t /\ lock' \in {"free", t}
        /\ At(t, "minting")
    BY <1>0, <1>2 DEF Mint, Kept, At, Locked
  <2>2. CASE ~Mintable(t)
    BY <1>0, <1>2, <2>1, <2>2, DropFacts, NoneIsFine, OneTransport DEF Mint, TypeOK
  <2>3. CASE Mintable(t)
    <3> DEFINE at == IF t \in Shells THEN "delivering" ELSE "ticket"
    <3>0. at \in {"delivering", "ticket"} /\ (at = "delivering" <=> t \in Shells)
      OBVIOUS
    <3>1. tr' = [tr EXCEPT ![t] = [tr[t] EXCEPT !.at = at, !.gen = rec.gen, !.boot = rec.boot]]
      BY <1>0, <1>2, <2>3 DEF Mint, TypeOK
    <3> HIDE DEF at
    <3>2. tr[t] \in TransportStates /\ rec.gen \in Gens /\ rec.boot \in Boots
      BY <1>0 DEF TypeOK, Records
    <3>3. [tr[t] EXCEPT !.at = at, !.gen = rec.gen, !.boot = rec.boot]
            = [at |-> at, gen |-> rec.gen, boot |-> rec.boot, launch |-> tr[t].launch,
               revoked |-> tr[t].revoked, crossed |-> tr[t].crossed]
      BY <3>2, MintedFields
    <3>4. /\ tr' \in [Clients -> TransportStates]
          /\ \A u \in Clients : u # t => tr'[u] = tr[u]
          /\ tr'[t].at = at /\ tr'[t].gen = rec.gen /\ tr'[t].launch = tr[t].launch
          /\ tr'[t].crossed = tr[t].crossed /\ tr'[t].revoked = tr[t].revoked
      BY <1>0, <3>0, <3>1, <3>2, <3>3 DEF TypeOK, TransportStates, Places, Locked
    <3>5. Kept(t)'
      BY <1>0, <1>2, <2>1, <2>3, <3>0, <3>4, ClientsAssumption
         DEF Mint, Kept, Commanded, At, Locked, Stages
    <3>6. Bounded(t)'
      BY <1>0, <2>1, <2>3, <3>0, <3>4
         DEF Bounded, Bound, Here, On, At, Mintable, Ready, NoOp, TypeOK, Records, Gens, Locked
    <3>7. Followed(t)'
      BY <3>0, <3>4 DEF Followed, Answered
    <3> QED BY <2>1, <1>0, <3>4, <3>5, <3>6, <3>7, OneTransport DEF Fine, TypeOK
  <2> QED BY <2>2, <2>3
<1>3. CASE Deliver(t)
  <2>1. /\ UNCHANGED <<rec, op, vm, last, retired, seen>> /\ lock = t /\ lock' = "free"
        /\ At(t, "delivering")
    BY <1>0, <1>3 DEF Deliver, Kept, At, Locked
  <2>2. CASE Drop(t)
    BY <1>0, <2>1, <2>2, DropFacts, NoneIsFine, OneTransport DEF TypeOK
  <2>3. CASE Goto(t, "ticket")
    <3>1. "ticket" \in Places
      BY DEF Places
    <3>2. Fine(t)'
      BY <1>0, <2>1, <2>3, <3>1, GotoFacts
         DEF Fine, Kept, Bounded, Followed, Bound, Here, On, Commanded, At, Locked, Answered
    <3> QED BY <1>0, <2>1, <2>3, <3>1, <3>2, GotoFacts, OneTransport DEF TypeOK
  <2> QED BY <1>3, <2>2, <2>3 DEF Deliver
<1> QED BY <1>1, <1>2, <1>3

\* A ticket is redeemed, a transport ends, a session is asked for an action.
LEMMA ClientIInv ==
  ASSUME IInv, NEW t \in Clients, Redeem(t) \/ Close(t) \/ Act(t)
  PROVE  IInv'
<1>0. /\ TypeOK /\ Kept(t) /\ Bounded(t) /\ Followed(t)
      /\ UNCHANGED <<rec, op, lock, vm, last, retired, seen>>
  BY DEF IInv, Redeem, Close, Act
<1>1. CASE Close(t)
  BY <1>0, <1>1, DropFacts, NoneIsFine, OneTransport DEF Close, TypeOK
<1>2. ASSUME NEW at \in {"pending", "asking"}, Goto(t, at), at = "asking" => t \in Sockets,
             tr[t].at \in {"ticket", "open"}
      PROVE  IInv'
  <2>1. at \in Places
    BY DEF Places, Waiting
  <2>2. Fine(t)'
    BY <1>0, <1>2, <2>1, GotoFacts
       DEF Fine, Kept, Bounded, Followed, Bound, Here, On, Commanded, At, Locked, Answered
  <2> QED BY <1>0, <1>2, <2>1, <2>2, GotoFacts, OneTransport DEF TypeOK
<1> QED BY <1>1, <1>2 DEF Redeem, Act, At

\* A transport is validated under the lock.
LEMMA CheckIInv ==
  ASSUME IInv, NEW t \in Clients, Check(t) \/ Answer(t)
  PROVE  IInv'
<1>0. /\ TypeOK /\ Kept(t) /\ Bounded(t) /\ Followed(t) /\ RecordInv
      /\ UNCHANGED <<rec, op, vm, last, retired>>
  BY DEF IInv, Check, Answer
<1>1. CASE Check(t)
  <2>1. CASE At(t, "asking") /\ tr[t].revoked
    BY <1>0, <1>1, <2>1, DropFacts, NoneIsFine, OneTransport DEF Check, TypeOK
  <2>2. CASE ~(At(t, "asking") /\ tr[t].revoked)
    <3> DEFINE at == IF At(t, "asking") THEN "testing" ELSE "checking"
    <3>1. /\ Goto(t, at) /\ lock = "free" /\ lock' = t /\ tr[t].at \in Waiting
          /\ seen' \in {"running", "stopped", "unknown"} /\ at \in Places
      BY <1>1, <2>2 DEF Check, Describe, Places, Locked
    <3>2. Kept(t)'
      BY <1>0, <3>1, GotoFacts, ClientsAssumption DEF Kept, Commanded, At, Locked, Stages
    <3>3. Bounded(t)' /\ Followed(t)'
      BY <1>0, <3>1, GotoFacts DEF Bounded, Followed, Bound, Here, On, At, Waiting, Answered
    <3> QED BY <1>0, <3>1, <3>2, <3>3, GotoFacts, OneTransport DEF Fine
  <2> QED BY <2>1, <2>2
<1>2. CASE Answer(t)
  <2>1. lock = t /\ lock' = "free" /\ tr[t].at \in {"checking", "testing"} /\ seen' = seen
    BY <1>0, <1>2 DEF Answer, Kept, Locked
  <2>2. CASE Drop(t)
    BY <1>0, <2>1, <2>2, DropFacts, NoneIsFine, OneTransport DEF TypeOK
  <2>3. CASE Goto(t, "open") /\ At(t, "testing")
    <3>1. "open" \in Places
      BY DEF Places
    <3>2. Fine(t)'
      BY <1>0, <2>1, <2>3, <3>1, GotoFacts
         DEF Fine, Kept, Bounded, Followed, Bound, Here, On, Commanded, At, Locked, Answered
    <3> QED BY <1>0, <2>1, <2>3, <3>1, <3>2, GotoFacts, OneTransport DEF TypeOK
  <2>4. ASSUME Valid(t), NEW at \in Answered, Goto(t, at), at = "passed" => At(t, "testing")
        PROVE  IInv'
    <3>1. at \in Places
      BY DEF Places
    <3>2. Kept(t)'
      BY <1>0, <2>1, <2>4, <3>1, GotoFacts DEF Kept, Commanded, At, Locked, Answered
    <3>3. Bounded(t)'
      BY <1>0, <2>1, <2>4, <3>1, GotoFacts DEF Bounded, Bound, Here, On, At, Answered
    <3>4. tr[t].boot = last /\ tr[t].boot > retired
      BY <1>0, <2>4 DEF Valid, Ready, RecordInv, TypeOK, Records, Boots
    <3>5. Counts(t) => Here(t)
      BY <1>0, <2>1, <2>4, ClientsAssumption DEF Counts, Valid, Bounded, Bound
    <3>6. Followed(t)'
      BY <1>0, <2>4, <3>1, <3>4, <3>5, GotoFacts DEF Followed, Counts, Here, On, Reaches
    <3> QED BY <1>0, <2>1, <2>4, <3>1, <3>2, <3>3, <3>6, GotoFacts, OneTransport DEF Fine, TypeOK
  <2> QED BY <1>2, <2>2, <2>3, <2>4 DEF Answer, Answered
<1> QED BY <1>1, <1>2

\* What was answered is followed.
LEMMA FollowIInv ==
  ASSUME IInv, NEW t \in Clients, Enter(t) \/ Perform(t)
  PROVE  IInv'
<1>0. /\ TypeOK /\ Kept(t) /\ Bounded(t) /\ Followed(t) /\ tr[t].at \in Answered
      /\ UNCHANGED <<rec, op, lock, vm, last, retired, seen>>
  BY DEF IInv, Enter, Perform, At, Answered
<1>1. CASE Drop(t)
  BY <1>0, <1>1, DropFacts, NoneIsFine, OneTransport DEF TypeOK
<1>2. CASE Goto(t, "open") /\ ~tr[t].revoked
  <2>1. "open" \in Places
    BY DEF Places
  <2>2. Fine(t)'
    BY <1>0, <1>2, <2>1, GotoFacts
       DEF Fine, Kept, Bounded, Followed, Bound, Here, On, Commanded, At, Locked, Answered
  <2> QED BY <1>0, <1>2, <2>1, <2>2, GotoFacts, OneTransport DEF TypeOK
<1> QED BY <1>1, <1>2 DEF Enter, Perform
-----------------------------------------------------------------------------
(* The machine.                                                             *)

\* What a boot, a power-off and a launch make of a machine.
LEMMA MachineFields ==
  ASSUME NEW v \in Machines
  PROVE  /\ [v EXCEPT !.guest = v.boots + 1, !.boots = @ + 1]
              = [power |-> v.power, launch |-> v.launch, guest |-> v.boots + 1, boots |-> v.boots + 1]
         /\ [v EXCEPT !.power = "off", !.guest = 0]
              = [power |-> "off", launch |-> v.launch, guest |-> 0, boots |-> v.boots]
         /\ [v EXCEPT !.power = "on", !.launch = @ + 1]
              = [power |-> "on", launch |-> v.launch + 1, guest |-> v.guest, boots |-> v.boots]
<1> DEFINE v1 == [v EXCEPT !.guest = v.boots + 1]
           v2 == [v EXCEPT !.power = "off"]
           v3 == [v EXCEPT !.power = "on"]
<1>1. /\ v1 = [power |-> v.power, launch |-> v.launch, guest |-> v.boots + 1, boots |-> v.boots]
      /\ v2 = [power |-> "off", launch |-> v.launch, guest |-> v.guest, boots |-> v.boots]
      /\ v3 = [power |-> "on", launch |-> v.launch, guest |-> v.guest, boots |-> v.boots]
  BY DEF Machines
<1>2. /\ [v EXCEPT !.guest = v.boots + 1, !.boots = @ + 1] = [v1 EXCEPT !.boots = v1.boots + 1]
      /\ [v EXCEPT !.power = "off", !.guest = 0] = [v2 EXCEPT !.guest = 0]
      /\ [v EXCEPT !.power = "on", !.launch = @ + 1] = [v3 EXCEPT !.launch = v3.launch + 1]
  OBVIOUS
<1> HIDE DEF v1, v2, v3
<1>3. [v1 EXCEPT !.boots = v1.boots + 1]
        = [power |-> v.power, launch |-> v.launch, guest |-> v.boots + 1, boots |-> v.boots + 1]
  BY <1>1
<1>4. [v2 EXCEPT !.guest = 0]
        = [power |-> "off", launch |-> v.launch, guest |-> 0, boots |-> v.boots]
  BY <1>1
<1>5. [v3 EXCEPT !.launch = v3.launch + 1]
        = [power |-> "on", launch |-> v.launch + 1, guest |-> v.guest, boots |-> v.boots]
  BY <1>1
<1> QED BY <1>2, <1>3, <1>4, <1>5

\* A step that changes neither the transports nor what they are bound to.
LEMMA MachineStep ==
  ASSUME IInv, UNCHANGED <<tr, last, retired>>,
         rec'.gen = rec.gen, TypeOK', RecordInv',
         \A t \in Clients : tr[t].at \in Locked => lock' = lock,
         Commanded' => Commanded,
         op'.verb = "start" => op.verb = "start",
         On' => On /\ vm'.launch = vm.launch
  PROVE  IInv'
<1>1. ASSUME NEW t \in Clients PROVE Kept(t)' /\ Bounded(t)' /\ Followed(t)'
  <2>1. Kept(t) /\ Bounded(t) /\ Followed(t)
    BY DEF IInv
  <2>2. Kept(t)'
    BY <2>1 DEF Kept, At
  <2>3. Bounded(t)' /\ Followed(t)'
    BY <2>1 DEF Bounded, Followed, Counts, Bound, Here, On, Reaches, At
  <2> QED BY <2>2, <2>3
<1> QED BY <1>1 DEF IInv

\* A step of the machine alone, none that starts it.
LEMMA MachineOnly ==
  ASSUME IInv, UNCHANGED <<rec, op, lock, seen, tr, last, retired>>,
         vm' \in Machines, On' => On /\ vm'.launch = vm.launch
  PROVE  IInv'
<1>1. TypeOK' /\ RecordInv'
  BY DEF IInv, TypeOK, RecordInv
<1> QED BY <1>1, MachineStep DEF Commanded

\* A heartbeat is followed by nothing that was answered before.
LEMMA HeartbeatIInv ==
  ASSUME IInv, NEW b \in Boots, Heartbeat(b)
  PROVE  IInv'
<1>0. TypeOK /\ RecordInv
  BY DEF IInv
<1>1. /\ UNCHANGED <<op, lock, seen, vm, tr, retired>> /\ last' = b /\ b # 0 /\ last <= b
      /\ Drained
  BY DEF Heartbeat
<1>2. PICK usable \in BOOLEAN : rec' = [rec EXCEPT !.boot = b, !.fresh = usable]
  BY DEF Heartbeat
<1>3. /\ rec' \in Records
      /\ rec'.gen = rec.gen /\ rec'.boot = b /\ rec'.previous = rec.previous
  BY <1>0, <1>2 DEF TypeOK, Records
<1>4. TypeOK'
  BY <1>0, <1>1, <1>3 DEF TypeOK
<1>5. RecordInv'
  BY <1>0, <1>1, <1>3, BoundsAssumption DEF TypeOK, Records, RecordInv, Boots
<1>6. ASSUME NEW t \in Clients PROVE Kept(t)' /\ Bounded(t)' /\ Followed(t)'
  <2>1. Kept(t) /\ Bounded(t) /\ Followed(t)
    BY DEF IInv
  <2>2. Kept(t)' /\ Bounded(t)'
    BY <1>1, <1>3, <2>1 DEF Kept, Commanded, Bounded, Bound, Here, On, At
  <2>3. Followed(t)'
    BY <1>1 DEF Followed, Drained
  <2> QED BY <2>2, <2>3
<1> QED BY <1>4, <1>5, <1>6 DEF IInv

\* The guest, the clock and the end of a command.
LEMMA OthersIInv ==
  ASSUME IInv, Age \/ ShutdownAck \/ Boot \/ PowerOff \/ Halt \/ Tell
  PROVE  IInv'
<1>0. TypeOK /\ RecordInv /\ \A t \in Clients : Kept(t)
  BY DEF IInv
<1>1. CASE Age \/ ShutdownAck
  <2>1. /\ rec' \in Records
        /\ rec'.gen = rec.gen /\ rec'.boot = rec.boot /\ rec'.previous = rec.previous
        /\ UNCHANGED <<op, lock, seen, vm, tr, last, retired>>
    BY <1>0, <1>1 DEF Age, ShutdownAck, TypeOK, Records
  <2>2. TypeOK' /\ RecordInv'
    BY <1>0, <2>1 DEF TypeOK, RecordInv
  <2> QED BY <2>1, <2>2, MachineStep DEF Commanded, On
<1>2. CASE Boot \/ PowerOff
  <2>0. UNCHANGED <<rec, op, lock, seen, tr, last, retired>>
    BY <1>2 DEF Boot, PowerOff
  <2>1. vm \in Machines
    BY <1>0 DEF TypeOK
  <2>2. CASE Boot
    <3>1. vm' = [power |-> vm.power, launch |-> vm.launch,
                 guest |-> vm.boots + 1, boots |-> vm.boots + 1]
      BY <2>1, <2>2, MachineFields DEF Boot
    <3> QED BY <2>0, <2>1, <2>2, <3>1, MachineOnly, BoundsAssumption DEF Boot, Machines, Boots, On
  <2>3. CASE PowerOff
    <3>1. vm' = [power |-> "off", launch |-> vm.launch, guest |-> 0, boots |-> vm.boots]
      BY <2>1, <2>3, MachineFields DEF PowerOff
    <3> QED BY <2>0, <2>1, <3>1, MachineOnly, BoundsAssumption DEF Machines, Boots, On
  <2> QED BY <1>2, <2>2, <2>3
<1>3. CASE Halt \/ Tell
  <2>0. /\ UNCHANGED <<rec, seen, tr, last, retired>>
        /\ lock \in {"native", "tell"} /\ lock' \in {"tell", "free"}
        /\ op' \in {op, NoOp} /\ vm \in Machines
    BY <1>0, <1>3 DEF Halt, Tell, TypeOK
  <2>1. vm' \in Machines /\ (On' => On /\ vm'.launch = vm.launch)
    <3>1. CASE vm' = vm
      BY <2>0, <3>1 DEF On
    <3>2. CASE vm' = [vm EXCEPT !.power = "off", !.guest = 0]
      <4>1. vm' = [power |-> "off", launch |-> vm.launch, guest |-> 0, boots |-> vm.boots]
        BY <2>0, <3>2, MachineFields
      <4> QED BY <2>0, <4>1, BoundsAssumption DEF Machines, Boots, On
    <3> QED BY <1>3, <3>1, <3>2 DEF Halt, Tell
  <2>2. TypeOK' /\ RecordInv'
    <3>1. NoOp \in [verb : {"none", "start", "stop"}, prepared : BOOLEAN]
      BY DEF NoOp
    <3> QED BY <1>0, <2>0, <2>1, <3>1 DEF TypeOK, RecordInv, Stages
  <2>3. \A t \in Clients : tr[t].at \notin Locked
    BY <1>0, <2>0, ClientsAssumption DEF Kept, Stages
  <2> QED BY <2>0, <2>1, <2>2, <2>3, MachineStep DEF Commanded, NoOp
<1> QED BY <1>1, <1>2, <1>3
-----------------------------------------------------------------------------
(* The commands.                                                            *)

\* Nobody else is under the lock while a command has it or while it is free.
LEMMA NobodyLocked ==
  ASSUME TypeOK, \A t \in Clients : Kept(t), lock \in Stages
  PROVE  \A t \in Clients : tr[t].at \notin Locked
BY ClientsAssumption DEF Kept

\* What revoking makes of a transport.
LEMMA RevokedFacts ==
  ASSUME TypeOK, NEW t \in Clients
  PROVE  /\ Revoked(t) \in TransportStates
         /\ \/ Revoked(t) = NoTransport
            \/ /\ tr[t].at \notin {"none", "ticket", "open"}
               /\ Revoked(t).at = tr[t].at
               /\ Revoked(t).gen = tr[t].gen /\ Revoked(t).boot = tr[t].boot
               /\ Revoked(t).launch = tr[t].launch
               /\ tr[t].revoked => Revoked(t).revoked
               /\ t \notin Sockets => Revoked(t).revoked
<1>1. NoTransport \in TransportStates
  BY BoundsAssumption DEF NoTransport, TransportStates, Places, Gens, Boots, Launches
<1>2. CASE tr[t].at \in {"none", "ticket", "open"}
  BY <1>1, <1>2 DEF Revoked
<1>3. CASE tr[t].at \notin {"none", "ticket", "open"}
  <2>1. Revoked(t) = [tr[t] EXCEPT !.crossed = TRUE, !.revoked = tr[t].revoked \/ Registered(t)]
    BY <1>3 DEF Revoked, TypeOK, TransportStates
  <2>2. tr[t] \in TransportStates
    BY DEF TypeOK
  <2>3. /\ Revoked(t).at = tr[t].at
        /\ Revoked(t).gen = tr[t].gen /\ Revoked(t).boot = tr[t].boot
        /\ Revoked(t).launch = tr[t].launch
        /\ Revoked(t) \in TransportStates
    BY <2>1, <2>2 DEF TransportStates
  <2>4. Revoked(t).revoked = (tr[t].revoked \/ Registered(t))
    BY <2>1, <2>2 DEF TransportStates
  <2>5. t \notin Sockets => Registered(t)
    BY DEF Registered
  <2> QED BY <1>3, <2>3, <2>4, <2>5
<1> QED BY <1>2, <1>3

\* A new command has a generation of its own if it starts the machine.
LEMMA AcceptIInv ==
  ASSUME IInv, NEW verb \in {"start", "stop"}, NEW g \in Gens, Accept(verb, g)
  PROVE  IInv'
<1>0. TypeOK /\ RecordInv /\ \A t \in Clients : Kept(t) /\ Bounded(t) /\ Followed(t)
  BY DEF IInv
<1>1. /\ lock = "free" /\ lock' \in {"look", "native"} /\ UNCHANGED <<vm, last, retired>>
      /\ seen' \in {"running", "stopped", "unknown"}
      /\ tr' = [t \in Clients |-> Revoked(t)]
  BY <1>0 DEF Accept, Describe, TypeOK
<1>2. /\ rec' \in Records
      /\ rec'.gen = g /\ rec'.boot = rec.boot /\ rec'.previous = rec.previous
  BY <1>0 DEF Accept, TypeOK, Records
<1>3. /\ op' \in [verb : {"none", "start", "stop"}, prepared : BOOLEAN]
      /\ rec.gen <= g
      /\ op'.verb = "start" => op.verb = "start" \/ rec.gen < g
  BY <1>0 DEF Accept, NoOp, TypeOK, Records, Gens
<1>4. \A t \in Clients : tr[t].at \notin Locked
  BY <1>0, <1>1, NobodyLocked DEF Stages
<1>5. \A t \in Clients : tr'[t] = Revoked(t) /\ tr'[t] \in TransportStates
  BY <1>0, <1>1, RevokedFacts
<1>6. TypeOK'
  BY <1>0, <1>1, <1>2, <1>3, <1>5 DEF TypeOK, Stages
<1>7. RecordInv'
  BY <1>0, <1>1, <1>2 DEF RecordInv
<1>8. ASSUME NEW t \in Clients PROVE Fine(t)'
  <2>1. CASE tr'[t] = NoTransport
    BY <2>1, NoneIsFine
  <2>2. CASE tr'[t] # NoTransport
    <3>1. /\ tr[t].at \notin {"none", "ticket", "open"} /\ tr[t].at \notin Locked
          /\ tr'[t].at = tr[t].at
          /\ tr'[t].gen = tr[t].gen /\ tr'[t].boot = tr[t].boot /\ tr'[t].launch = tr[t].launch
          /\ tr[t].revoked => tr'[t].revoked
          /\ t \notin Sockets => tr'[t].revoked
      BY <1>0, <1>4, <1>5, <2>2, RevokedFacts
    <3>2. Kept(t)'
      BY <1>0, <3>1 DEF Kept, At
    <3>3. Followed(t)'
      BY <1>0, <1>1, <3>1 DEF Followed, Counts, Reaches, On
    <3>4. Here(t)' <=> Here(t)
      BY <1>1, <3>1 DEF Here, On
    <3>5. Bounded(t)'
      <4>1. Bound(t) /\ ~At(t, "minting")
        BY <3>1 DEF Bound, At, Locked
      <4>2. tr[t].gen \in Nat /\ rec.gen \in Nat /\ g \in Nat
        BY <1>0 DEF TypeOK, TransportStates, Records, Gens
      <4>3. t \in Shells => t \notin Sockets
        BY ClientsAssumption
      <4> QED BY <1>0, <1>2, <1>3, <3>1, <3>4, <4>1, <4>2, <4>3 DEF Bounded, Bound, At
    <3> QED BY <3>2, <3>3, <3>5 DEF Fine
  <2> QED BY <2>1, <2>2
<1> QED BY <1>6, <1>7, <1>8 DEF IInv, Fine

\* A start that goes on to the machine or gives up: nothing that was answered
\* is still to be followed, and its generation has no transport that counts.
LEMMA StartIInv ==
  ASSUME IInv, Prepare \/ Launch
  PROVE  IInv'
<1>0. TypeOK /\ RecordInv /\ \A t \in Clients : Kept(t) /\ Bounded(t) /\ Followed(t)
  BY DEF IInv
<1>1. /\ Drained /\ lock \in {"look", "native"} /\ lock' \in {"free", "native", "tell"}
      /\ UNCHANGED <<seen, tr, last>>
  BY DEF Prepare, Launch
<1>2. /\ op' \in [verb : {"none", "start", "stop"}, prepared : BOOLEAN]
      /\ op'.verb = "start" => op.verb = "start"
  <2>1. CASE op' = op
    BY <1>0, <2>1 DEF TypeOK
  <2>2. CASE op' = NoOp
    BY <2>2 DEF NoOp
  <2>3. CASE op' = [op EXCEPT !.prepared = TRUE]
    BY <1>0, <2>3 DEF TypeOK
  <2> QED BY <2>1, <2>2, <2>3 DEF Prepare, Launch
<1>3. rec' \in Records /\ rec'.gen = rec.gen /\ retired' \in Boots /\ RecordInv'
  <2>1. CASE rec' = rec /\ retired' = retired
    BY <1>0, <1>1, <2>1 DEF TypeOK, RecordInv
  <2>2. CASE /\ \/ rec' = [rec EXCEPT !.desired = "running"]
                \/ rec' = [rec EXCEPT !.desired = "stopped"]
             /\ retired' = retired
    BY <1>0, <1>1, <2>2 DEF TypeOK, RecordInv, Records
  <2>3. CASE /\ rec' = [rec EXCEPT !.previous = Retire, !.boot = 0, !.fresh = FALSE,
                                   !.desired = "running"]
             /\ retired' = last
    <3>1. rec \in Records /\ last \in Boots /\ rec.boot \in Boots /\ rec.previous \subseteq Boots \ {0}
      BY <1>0 DEF TypeOK, Records
    <3>2. Retire \in SUBSET (Boots \ {0}) /\ 0 \in Boots
      BY <3>1, BoundsAssumption DEF Retire, Boots
    <3>3. /\ rec'.gen = rec.gen /\ rec'.boot = 0 /\ rec'.previous = Retire
      BY <2>3, <3>1 DEF Records
    <3>4. rec' \in Records
      BY <2>3, <3>1, <3>2 DEF Records
    <3>5. last # 0 => last \in Retire
      BY <1>0 DEF RecordInv, Retire
    <3> QED BY <1>1, <2>3, <3>1, <3>3, <3>4, <3>5 DEF RecordInv, Boots
  <2> QED BY <2>1, <2>2, <2>3 DEF Prepare, Launch
<1>4. /\ vm' \in Machines
      /\ vm' = vm \/ (op.verb = "start" /\ lock = "native")
  <2>1. CASE vm' = vm
    BY <1>0, <2>1 DEF TypeOK
  <2>2. CASE /\ vm.launch < MaxLaunch /\ op.verb = "start" /\ lock = "native"
             /\ vm' = [vm EXCEPT !.power = "on", !.launch = @ + 1]
    <3>1. vm \in Machines
      BY <1>0 DEF TypeOK
    <3>2. vm' = [power |-> "on", launch |-> vm.launch + 1, guest |-> vm.guest, boots |-> vm.boots]
      BY <2>2, <3>1, MachineFields
    <3> QED BY <2>2, <3>1, <3>2, BoundsAssumption DEF Machines, Launches
  <2> QED BY <2>1, <2>2 DEF Prepare, Launch
<1>5. TypeOK'
  BY <1>0, <1>1, <1>2, <1>3, <1>4 DEF TypeOK, Stages
<1>6. \A t \in Clients : tr[t].at \notin Locked
  BY <1>0, <1>1, NobodyLocked DEF Stages
<1>7. ASSUME NEW t \in Clients PROVE Fine(t)'
  <2>1. Kept(t)'
    BY <1>0, <1>1, <1>6 DEF Kept, Commanded, At
  <2>2. Followed(t)'
    BY <1>1 DEF Followed, Drained
  <2>3. ~At(t, "minting")
    BY <1>6 DEF At, Locked
  <2>4. CASE vm' = vm
    BY <1>0, <1>1, <1>2, <1>3, <2>1, <2>2, <2>3, <2>4 DEF Fine, Bounded, Bound, Here, On, At
  <2>5. CASE op.verb = "start" /\ lock = "native"
    <3>1. tr[t].gen \in Nat /\ rec.gen \in Nat
      BY <1>0 DEF TypeOK, TransportStates, Records, Gens
    <3>2. Bound(t) /\ t \in Shells => tr[t].revoked
      BY <1>0, <2>5, ClientsAssumption DEF Kept, Commanded, Bound, At
    <3>3. Bound(t) /\ t \notin Shells => tr[t].gen < rec.gen
      BY <1>0, <2>5 DEF Bounded
    <3> QED BY <1>0, <1>1, <1>2, <1>3, <2>1, <2>2, <2>3, <3>1, <3>2, <3>3
            DEF Fine, Bounded, Bound, At
  <2> QED BY <1>4, <2>4, <2>5
<1> QED BY <1>3, <1>5, <1>7 DEF IInv, Fine

\* The core starts with no transports.
LEMMA RestartIInv == ASSUME IInv, Restart PROVE IInv'
<1>1. NoTransport \in TransportStates
  BY BoundsAssumption DEF NoTransport, TransportStates, Places, Gens, Boots, Launches
<1>2. TypeOK' /\ RecordInv'
  BY <1>1 DEF IInv, Restart, TypeOK, RecordInv, Stages
<1>3. \A t \in Clients : Fine(t)'
  BY NoneIsFine DEF Restart
<1> QED BY <1>2, <1>3 DEF IInv, Fine

LEMMA InitIInv == Init => IInv
<1> SUFFICES ASSUME Init PROVE IInv
  OBVIOUS
<1>1. NoTransport \in TransportStates
  BY BoundsAssumption DEF NoTransport, TransportStates, Places, Gens, Boots, Launches
<1>2. TypeOK
  BY <1>1, BoundsAssumption
     DEF Init, TypeOK, NoOp, Stages, Records, Machines, Gens, Boots, Launches
<1>3. RecordInv
  BY DEF Init, RecordInv
<1>4. \A t \in Clients : Kept(t) /\ Bounded(t) /\ Followed(t)
  BY DEF Init, Kept, Bounded, Followed, Bound, Commanded, At, NoTransport, Locked, Answered
<1> QED BY <1>2, <1>3, <1>4 DEF IInv

LEMMA StutterIInv == ASSUME IInv, UNCHANGED vars PROVE IInv'
BY DEF IInv, vars, TypeOK, RecordInv, Kept, Bounded, Followed, Counts, Bound, Here, Reaches,
       Commanded, At, On

\* Only a transport that was not revoked is opened.
LEMMA OpensUnrevoked ==
  ASSUME TypeOK, Next, NEW t \in Clients, At(t, "valid"), tr'[t].at = "open"
  PROVE  ~tr[t].revoked
<1>1. tr'[t] # tr[t] /\ tr' # tr /\ t \in DOMAIN tr
  BY DEF At, TypeOK
<1>2. CASE \E verb \in {"start", "stop"}, g \in Gens : Accept(verb, g)
  BY <1>2, RevokedFacts DEF Accept, At, NoTransport
<1>3. CASE Restart
  BY <1>3 DEF Restart, NoTransport
<1>4. ASSUME NEW u \in Clients,
             \/ Request(u) \/ Mint(u) \/ Deliver(u) \/ Redeem(u) \/ Close(u)
             \/ Act(u) \/ Check(u) \/ Answer(u) \/ Enter(u) \/ Perform(u)
      PROVE  ~tr[t].revoked
  <2>1. u # t => tr'[t] = tr[t]
    BY <1>4 DEF Request, Mint, Deliver, Redeem, Close, Act, Check, Answer, Enter, Perform,
                Goto, Drop, TypeOK
  <2>2. u = t => Enter(t)
    BY <1>4 DEF Request, Mint, Deliver, Redeem, Close, Act, Check, Answer, Enter, Perform,
                At, Waiting
  <2>3. Drop(t) => tr'[t].at = "none"
    BY DEF Drop, NoTransport, TypeOK
  <2> QED BY <1>1, <2>1, <2>2, <2>3 DEF Enter
<1> QED BY <1>1, <1>2, <1>3, <1>4
        DEF Next, Heartbeat, Age, ShutdownAck, Boot, PowerOff, Prepare, Launch, Halt, Tell
-----------------------------------------------------------------------------
(* The results.                                                             *)

\* The invariant holds in every reachable state.
THEOREM Inductive == Spec => []IInv
<1>1. IInv /\ [Next]_vars => IInv'
  <2> SUFFICES ASSUME IInv, [Next]_vars PROVE IInv'
    OBVIOUS
  <2>1. CASE \E b \in Boots : Heartbeat(b)
    BY <2>1, HeartbeatIInv
  <2>2. CASE Age \/ ShutdownAck \/ Boot \/ PowerOff \/ Halt \/ Tell
    BY <2>2, OthersIInv
  <2>3. CASE \E verb \in {"start", "stop"}, g \in Gens : Accept(verb, g)
    BY <2>3, AcceptIInv
  <2>4. CASE Prepare \/ Launch
    BY <2>4, StartIInv
  <2>5. CASE Restart
    BY <2>5, RestartIInv
  <2>6. ASSUME NEW t \in Clients,
               \/ Request(t) \/ Mint(t) \/ Deliver(t) \/ Redeem(t) \/ Close(t)
               \/ Act(t) \/ Check(t) \/ Answer(t) \/ Enter(t) \/ Perform(t)
        PROVE  IInv'
    BY <2>6, MintIInv, ClientIInv, CheckIInv, FollowIInv
  <2>7. CASE UNCHANGED vars
    BY <2>7, StutterIInv
  <2> QED BY <2>1, <2>2, <2>3, <2>4, <2>5, <2>6, <2>7 DEF Next
<1> QED BY <1>1, InitIInv, PTL DEF Spec

\* Every variable keeps its type.
THEOREM TypeCorrect == Spec => []TypeOK
<1>1. IInv => TypeOK
  BY DEF IInv
<1> QED BY <1>1, Inductive, PTL

\* A desktop or a shell that a lifecycle command found is not open afterwards,
\* wherever it was in its validation.
THEOREM RevokedStaysClosed == Spec => []RevokedIsClosed
<1>1. IInv => RevokedIsClosed
  BY ClientsAssumption DEF IInv, Kept, RevokedIsClosed, Clients, At
<1> QED BY <1>1, Inductive, PTL

\* What is opened and every action let through reaches the QEMU and the boot
\* that it was minted for.
THEOREM AlwaysReachesItsBoot == Spec => ReachesItsBoot
<1>1. IInv /\ [Next]_vars =>
        [\A t \in Clients :
           (At(t, "valid") /\ tr'[t].at = "open") \/ (At(t, "passed") /\ tr'[t].at # "passed")
             => Reaches(t)]_vars
  <2> SUFFICES ASSUME IInv, Next, NEW t \in Clients,
                      \/ At(t, "valid") /\ tr'[t].at = "open"
                      \/ At(t, "passed") /\ tr'[t].at # "passed"
               PROVE  Reaches(t)
    BY DEF vars
  <2>1. TypeOK /\ Kept(t) /\ Followed(t)
    BY DEF IInv
  <2>2. CASE At(t, "passed")
    BY <2>1, <2>2 DEF Kept, Followed, Counts, At, Answered
  <2>3. CASE At(t, "valid") /\ tr'[t].at = "open"
    <3>1. ~tr[t].revoked
      BY <2>1, <2>3, OpensUnrevoked
    <3> QED BY <2>1, <2>3, <3>1 DEF Followed, Counts, At, Answered
  <2> QED BY <2>2, <2>3
<1> QED BY <1>1, Inductive, PTL DEF Spec, ReachesItsBoot
=============================================================================
