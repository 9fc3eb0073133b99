----------------------- MODULE LiveCheckpoint_proofs -----------------------
(***************************************************************************)
(* Proofs about LiveCheckpoint for any number of attempts and whatever     *)
(* faults there are.  Two results need one thing more, which the code does *)
(* not see to.  That a published copy is whole: that no guest process of   *)
(* another attempt is left to thaw the file system while a helper holds it *)
(* frozen (Apart).  That an answered checkpoint has released the guest:    *)
(* that what a worker reads before it recovers is readable.                *)
(***************************************************************************)
EXTENDS LiveCheckpoint, TLAPS

-----------------------------------------------------------------------------
(* The inductive invariant.                                                 *)

\* Phases of an attempt that has not frozen the guest, or has released it.
Settleable == {"none", "released", "sealed", "aborted"}

\* The attempts are served one after the other.
OrderOK == \A a \in Attempts :
  /\ status[a] # "none" => \A b \in 1 .. (a - 1) : status[b] \in {"completed", "failed"}
  /\ status[a] = "none" => phase[a] = "none"

\* The places of the worker in each of its modes.
WorkOK ==
  /\ w.at = "idle" <=> op = 0
  /\ op # 0 => Pending(op)
  /\ w.mode = "run" => w.at \notin {"abort", "look", "proof"}
  /\ w.mode = "undo" => w.at \in {"abort", "cont", "thaw", "released", "fail"}
  /\ w.mode = "recover" =>
       w.at \in {"look", "cont", "proof", "seal", "sealed", "complete", "fail"}

\* The helper was heard to have frozen.
Past(a) == helper[a] \in {"frozen", "final", "gone"}

\* What the worker knows at each place.
Reached ==
  /\ w.mode = "run" =>
       /\ w.at \in {"watchdog", "open"} => phase[op] = "preparing" /\ helper[op] = "none"
       /\ At("ready") => phase[op] = "preparing"
       /\ w.at \in {"freeze", "frozen"} => phase[op] = "freezing"
       /\ At("freeze") => helper[op] \notin {"none", "starting"}
       /\ w.at \in {"stop", "check"} => phase[op] = "pausing"
       /\ w.at \in {"copy", "copying"} => phase[op] = "copying"
       /\ w.at \in {"cont", "thaw", "released"} => phase[op] = "resuming"
       /\ w.at \in {"stop", "check", "copy", "copying", "cont", "thaw", "released"} => Past(op)
       /\ w.at \in {"watchdog", "open", "ready", "freeze", "frozen", "stop", "check", "copy",
                    "copying", "cont", "thaw"}
            => "thaw" \notin cmd[op] /\ "released" \notin msg[op]
  /\ w.at \in {"seal", "sealed"} => phase[op] \in {"released", "sealed"}
  /\ At("complete") => phase[op] = "sealed"

Pausing == {"pausing", "copying", "resuming"}

\* A paused QEMU stands in the journal of an attempt that is not over.
PauseOK ==
  /\ qemu = "paused" => \E a \in Attempts : phase[a] \in Pausing
  /\ w.at \in {"thaw", "released"} => qemu # "paused"

\* Nothing of the attempt has frozen the guest for good, or ever will.
Safe(a) ==
  \/ state[a] \in {"released", "lost"}
  \/ state[a] \in {"none", "ready"} /\ "freeze" \notin cmd[a]

\* The helper, what it wrote to /run and said, and its guardian.
HelperOK(a) ==
  /\ phase[a] = "none" => helper[a] = "none"
  /\ helper[a] = "none" => /\ guardian[a] = "none" /\ state[a] = "none"
                           /\ cmd[a] = {} /\ msg[a] = {}
  /\ helper[a] = "starting" => state[a] = "none"
  /\ helper[a] = "ready" => state[a] = "ready"
  /\ helper[a] \in {"freezing", "dying"} => state[a] = "freezing"
  /\ helper[a] = "frozen" => state[a] = "frozen"
  /\ helper[a] = "final" => state[a] \notin {"none", "lost"}
  /\ "ready" \in msg[a] => helper[a] \notin {"none", "starting"}
  /\ "frozen" \in msg[a] => Past(a)
  /\ "released" \in msg[a] => state[a] \in {"released", "lost"}
  /\ guardian[a] \in {"thawing", "proving"} => clock[a] = 2

SafeOK(a) ==
  /\ phase[a] \in Settleable \cup {"preparing"} => Safe(a)
  /\ qemu = "exited" => /\ helper[a] \in {"none", "gone", "starting"}
                        /\ state[a] \in {"none", "lost"} /\ "freeze" \notin cmd[a]

\* The guest is frozen only as long as its state says so.
FrozenOK == frozen => \E a \in Attempts : state[a] \in {"freezing", "frozen"}

Core == /\ TypeOK /\ OrderOK /\ WorkOK /\ Reached /\ PauseOK /\ FrozenOK
        /\ \A a \in Attempts : HelperOK(a) /\ SafeOK(a)
-----------------------------------------------------------------------------
(* What follows from the invariant.                                         *)

\* A worker at work serves the one operation that is pending.
LEMMA WorkFacts ==
  ASSUME TypeOK, OrderOK, WorkOK, w.at # "idle"
  PROVE  /\ op \in Attempts /\ Pending(op)
         /\ \A a \in Attempts : Pending(a) => a = op
<1>1. op \in Attempts /\ Pending(op)
  BY DEF TypeOK, WorkOK, op, Pending
<1>2. ASSUME NEW a \in Attempts, Pending(a), a # op PROVE FALSE
  <2>1. a \in 1 .. (op - 1) \/ op \in 1 .. (a - 1)
    BY <1>1, <1>2, LastAssumption DEF Attempts
  <2> QED BY <1>1, <1>2, <2>1 DEF OrderOK, Pending
<1> QED BY <1>1, <1>2

\* A step of the host that leaves the guest and the deadlines alone.  What
\* becomes of the worker is shown for each action.
LEMMA HostStep ==
  ASSUME Core, UNCHANGED <<clock, guest>>,
         TypeOK', OrderOK', WorkOK', Reached', PauseOK',
         \A a \in Attempts :
           phase'[a] # phase[a] =>
             /\ phase'[a] # "none"
             /\ phase'[a] \in Settleable \cup {"preparing"} => Safe(a),
         \A a \in Attempts : msg'[a] \subseteq msg[a],
         \A a \in Attempts : "freeze" \in cmd'[a] =>
           \/ "freeze" \in cmd[a]
           \/ phase'[a] \notin Settleable \cup {"preparing"} /\ qemu' # "exited",
         \A a \in Attempts : helper[a] = "none" => cmd'[a] = cmd[a],
         qemu' = "exited" => qemu = "exited"
  PROVE  Core'
<1>1. FrozenOK'
  BY DEF Core, FrozenOK, guest
<1>2. ASSUME NEW a \in Attempts PROVE HelperOK(a)' /\ SafeOK(a)'
  <2>1. HelperOK(a) /\ SafeOK(a) /\ UNCHANGED <<helper, guardian, state, frozen, clock>>
    BY DEF Core, guest
  <2>2. /\ phase'[a] = "none" => phase[a] = "none"
        /\ phase'[a] \in Settleable \cup {"preparing"} => Safe(a)
    BY <2>1 DEF SafeOK
  <2>3. /\ \A m : m \in msg'[a] => m \in msg[a]
        /\ "freeze" \in cmd'[a] =>
             \/ "freeze" \in cmd[a]
             \/ phase'[a] \notin Settleable \cup {"preparing"} /\ qemu' # "exited"
        /\ helper[a] = "none" => cmd'[a] = cmd[a]
    OBVIOUS
  <2>4. HelperOK(a)'
    <3>1. helper[a] = "none" => msg'[a] = {} /\ cmd'[a] = {}
      BY <2>1, <2>3 DEF HelperOK
    <3> QED BY <2>1, <2>2, <2>3, <3>1 DEF HelperOK, Past
  <2>5. SafeOK(a)'
    BY <2>1, <2>2, <2>3 DEF SafeOK, Safe
  <2> QED BY <2>4, <2>5
<1> QED BY <1>1, <1>2 DEF Core

\* While an attempt is pending its journal does not matter to the order.
LEMMA OrderStep ==
  ASSUME OrderOK, UNCHANGED status, op \in Attempts, Pending(op),
         \A a \in Attempts : a # op => phase'[a] = phase[a]
  PROVE  OrderOK'
BY DEF OrderOK, Pending

-----------------------------------------------------------------------------
(* The coordinator. *)

LEMMA StartWatchdogCore == ASSUME Core, StartWatchdog PROVE Core'
<1>1. /\ TypeOK /\ OrderOK /\ WorkOK /\ Reached /\ PauseOK
      /\ op \in Attempts /\ Pending(op) /\ w.at = "watchdog"
      /\ HelperOK(op) /\ SafeOK(op) /\ w.mode \in {"run", "undo", "recover"}
      /\ \A a \in Attempts : Pending(a) => a = op
  BY WorkFacts DEF Core, StartWatchdog, At, TypeOK
<1>2. /\ w'.op = op /\ w'.at = "open" /\ w'.mode = w.mode
      /\ UNCHANGED <<status, abort, copy, published, clock, open, cmd, msg, qemu, frozen, helper,
                     guardian, state, phase>>
  BY <1>1 DEF StartWatchdog, Goto, Phase, TypeOK, op, At, channel, guest, receipts
<1>3. TypeOK'
  BY <1>1 DEF StartWatchdog, TypeOK, Goto, Phase, Places, Phases, channel, guest, receipts, op
<1>4. WorkOK'
  BY <1>1, <1>2 DEF WorkOK, op, Pending
<1>5. Reached'
  BY <1>1, <1>2 DEF WorkOK, Reached, op, At, Pending, Past, Settleable
<1>6. PauseOK'
  BY <1>1, <1>2 DEF WorkOK, Reached, PauseOK, Pausing, op, At, Pending, Past
<1>7. OrderOK'
  BY <1>1, <1>2, OrderStep
<1> QED BY <1>1, <1>2, <1>3, <1>4, <1>5, <1>6, <1>7, HostStep DEF guest, Settleable, SafeOK,
        HelperOK

LEMMA ReadyCore == ASSUME Core, Ready PROVE Core'
<1>1. /\ TypeOK /\ OrderOK /\ WorkOK /\ Reached /\ PauseOK
      /\ op \in Attempts /\ Pending(op) /\ w.at = "ready"
      /\ HelperOK(op) /\ SafeOK(op) /\ w.mode \in {"run", "undo", "recover"}
      /\ \A a \in Attempts : Pending(a) => a = op
  BY WorkFacts DEF Core, Ready, At, TypeOK
<1>2. /\ w'.op = op /\ w'.at = "freeze" /\ w'.mode = w.mode
      /\ phase'[op] = "freezing" /\ \A a \in Attempts : a # op => phase'[a] = phase[a]
      /\ "ready" \in msg[op]
      /\ msg'[op] = {} /\ \A a \in Attempts : msg'[a] \in {msg[a], {}}
      /\ UNCHANGED <<status, abort, copy, published, clock, watch, open, cmd, qemu, frozen,
                     helper, guardian, state>>
  BY <1>1 DEF Ready, Goto, Phase, TypeOK, op, At, channel, guest, receipts, Receive
<1>3. TypeOK'
  BY <1>1 DEF Ready, TypeOK, Goto, Phase, Places, Phases, channel, guest, receipts, op, Receive
<1>4. WorkOK'
  BY <1>1, <1>2 DEF WorkOK, op, Pending
<1>5. Reached'
  BY <1>1, <1>2 DEF WorkOK, Reached, op, At, Pending, Past, Settleable, HelperOK
<1>6. PauseOK'
  BY <1>1, <1>2 DEF WorkOK, Reached, PauseOK, Pausing, op, At, Pending, Past
<1>7. OrderOK'
  BY <1>1, <1>2, OrderStep
<1> QED BY <1>1, <1>2, <1>3, <1>4, <1>5, <1>6, <1>7, HostStep DEF guest, Settleable, SafeOK,
        HelperOK

LEMMA FrozenCore == ASSUME Core, Frozen PROVE Core'
<1>1. /\ TypeOK /\ OrderOK /\ WorkOK /\ Reached /\ PauseOK
      /\ op \in Attempts /\ Pending(op) /\ w.at = "frozen"
      /\ HelperOK(op) /\ SafeOK(op) /\ w.mode \in {"run", "undo", "recover"}
      /\ \A a \in Attempts : Pending(a) => a = op
  BY WorkFacts DEF Core, Frozen, At, TypeOK
<1>2. /\ w'.op = op /\ w'.at = "stop" /\ w'.mode = w.mode
      /\ phase'[op] = "pausing" /\ \A a \in Attempts : a # op => phase'[a] = phase[a]
      /\ msg[op] = {"frozen"}
      /\ msg'[op] = {} /\ \A a \in Attempts : msg'[a] \in {msg[a], {}}
      /\ UNCHANGED <<status, abort, copy, published, clock, watch, open, cmd, qemu, frozen,
                     helper, guardian, state>>
  BY <1>1 DEF Frozen, Goto, Phase, TypeOK, op, At, channel, guest, receipts, Receive
<1>3. TypeOK'
  BY <1>1 DEF Frozen, TypeOK, Goto, Phase, Places, Phases, channel, guest, receipts, op, Receive
<1>4. WorkOK'
  BY <1>1, <1>2 DEF WorkOK, op, Pending
<1>5. Reached'
  BY <1>1, <1>2 DEF WorkOK, Reached, op, At, Pending, Past, Settleable, HelperOK
<1>6. PauseOK'
  BY <1>1, <1>2 DEF WorkOK, Reached, PauseOK, Pausing, op, At, Pending, Past
<1>7. OrderOK'
  BY <1>1, <1>2, OrderStep
<1> QED BY <1>1, <1>2, <1>3, <1>4, <1>5, <1>6, <1>7, HostStep DEF guest, Settleable, SafeOK,
        HelperOK

LEMMA StopCore == ASSUME Core, Stop PROVE Core'
<1>1. /\ TypeOK /\ OrderOK /\ WorkOK /\ Reached /\ PauseOK
      /\ op \in Attempts /\ Pending(op) /\ w.at = "stop"
      /\ HelperOK(op) /\ SafeOK(op) /\ w.mode \in {"run", "undo", "recover"}
      /\ \A a \in Attempts : Pending(a) => a = op
  BY WorkFacts DEF Core, Stop, At, TypeOK
<1>2. /\ w'.op = op /\ w'.at = "check" /\ w'.mode = w.mode
      /\ qemu # "exited" /\ qemu' = "paused"
      /\ UNCHANGED <<status, abort, copy, published, clock, watch, open, cmd, msg, frozen,
                     helper, guardian, state, phase>>
  BY <1>1 DEF Stop, Goto, Phase, TypeOK, op, At, channel, guest, receipts
<1>3. TypeOK'
  BY <1>1 DEF Stop, TypeOK, Goto, Phase, Places, Phases, channel, guest, receipts, op
<1>4. WorkOK'
  BY <1>1, <1>2 DEF WorkOK, op, Pending
<1>5. Reached'
  BY <1>1, <1>2 DEF WorkOK, Reached, op, At, Pending, Past, Settleable
<1>6. PauseOK'
  BY <1>1, <1>2 DEF WorkOK, Reached, PauseOK, Pausing, op, At, Pending, Past
<1>7. OrderOK'
  BY <1>1, <1>2, OrderStep
<1> QED BY <1>1, <1>2, <1>3, <1>4, <1>5, <1>6, <1>7, HostStep DEF guest, Settleable, SafeOK,
        HelperOK

LEMMA CheckPausedCore == ASSUME Core, CheckPaused PROVE Core'
<1>1. /\ TypeOK /\ OrderOK /\ WorkOK /\ Reached /\ PauseOK
      /\ op \in Attempts /\ Pending(op) /\ w.at = "check"
      /\ HelperOK(op) /\ SafeOK(op) /\ w.mode \in {"run", "undo", "recover"}
      /\ \A a \in Attempts : Pending(a) => a = op
  BY WorkFacts DEF Core, CheckPaused, At, TypeOK
<1>2. /\ w'.op = op /\ w'.at = "copy" /\ w'.mode = w.mode
      /\ phase'[op] = "copying" /\ \A a \in Attempts : a # op => phase'[a] = phase[a]
      /\ UNCHANGED <<status, abort, copy, published, clock, watch, open, cmd, msg, qemu, frozen,
                     helper, guardian, state>>
  BY <1>1 DEF CheckPaused, Goto, Phase, TypeOK, op, At, channel, guest, receipts
<1>3. TypeOK'
  BY <1>1 DEF CheckPaused, TypeOK, Goto, Phase, Places, Phases, channel, guest, receipts, op
<1>4. WorkOK'
  BY <1>1, <1>2 DEF WorkOK, op, Pending
<1>5. Reached'
  BY <1>1, <1>2 DEF WorkOK, Reached, op, At, Pending, Past, Settleable
<1>6. PauseOK'
  BY <1>1, <1>2 DEF WorkOK, Reached, PauseOK, Pausing, op, At, Pending, Past
<1>7. OrderOK'
  BY <1>1, <1>2, OrderStep
<1> QED BY <1>1, <1>2, <1>3, <1>4, <1>5, <1>6, <1>7, HostStep DEF guest, Settleable, SafeOK,
        HelperOK

LEMMA BeginCopyCore == ASSUME Core, BeginCopy PROVE Core'
<1>1. /\ TypeOK /\ OrderOK /\ WorkOK /\ Reached /\ PauseOK
      /\ op \in Attempts /\ Pending(op) /\ w.at = "copy"
      /\ HelperOK(op) /\ SafeOK(op) /\ w.mode \in {"run", "undo", "recover"}
      /\ \A a \in Attempts : Pending(a) => a = op
  BY WorkFacts DEF Core, BeginCopy, At, TypeOK
<1>2. /\ w'.op = op /\ w'.at = "copying" /\ w'.mode = w.mode
      /\ copy' = IF frozen THEN "whole" ELSE "mixed"
      /\ clock[op] = 0
      /\ UNCHANGED <<status, abort, published, clock, watch, open, cmd, msg, qemu, frozen,
                     helper, guardian, state, phase>>
  BY <1>1 DEF BeginCopy, Goto, Phase, TypeOK, op, At, channel, guest, receipts, Valid
<1>3. TypeOK'
  BY <1>1 DEF BeginCopy, TypeOK, Goto, Phase, Places, Phases, channel, guest, receipts, op, Valid
<1>4. WorkOK'
  BY <1>1, <1>2 DEF WorkOK, op, Pending
<1>5. Reached'
  BY <1>1, <1>2 DEF WorkOK, Reached, op, At, Pending, Past, Settleable
<1>6. PauseOK'
  BY <1>1, <1>2 DEF WorkOK, Reached, PauseOK, Pausing, op, At, Pending, Past,
       SafeOK
<1>7. OrderOK'
  BY <1>1, <1>2, OrderStep
<1> QED BY <1>1, <1>2, <1>3, <1>4, <1>5, <1>6, <1>7, HostStep DEF guest, Settleable, SafeOK,
        HelperOK

LEMMA EndCopyCore == ASSUME Core, EndCopy PROVE Core'
<1>1. /\ TypeOK /\ OrderOK /\ WorkOK /\ Reached /\ PauseOK
      /\ op \in Attempts /\ Pending(op) /\ w.at = "copying"
      /\ HelperOK(op) /\ SafeOK(op) /\ w.mode \in {"run", "undo", "recover"}
      /\ \A a \in Attempts : Pending(a) => a = op
  BY WorkFacts DEF Core, EndCopy, At, TypeOK
<1>2. /\ w'.op = op /\ w'.at = "cont" /\ w'.mode = w.mode
      /\ phase'[op] = "resuming" /\ \A a \in Attempts : a # op => phase'[a] = phase[a]
      /\ UNCHANGED <<status, abort, copy, published, clock, watch, open, cmd, msg, qemu, frozen,
                     helper, guardian, state>>
  BY <1>1 DEF EndCopy, Goto, Phase, TypeOK, op, At, channel, guest, receipts, Valid
<1>3. TypeOK'
  BY <1>1 DEF EndCopy, TypeOK, Goto, Phase, Places, Phases, channel, guest, receipts, op, Valid
<1>4. WorkOK'
  BY <1>1, <1>2 DEF WorkOK, op, Pending
<1>5. Reached'
  BY <1>1, <1>2 DEF WorkOK, Reached, op, At, Pending, Past, Settleable
<1>6. PauseOK'
  BY <1>1, <1>2 DEF WorkOK, Reached, PauseOK, Pausing, op, At, Pending, Past
<1>7. OrderOK'
  BY <1>1, <1>2, OrderStep
<1> QED BY <1>1, <1>2, <1>3, <1>4, <1>5, <1>6, <1>7, HostStep DEF guest, Settleable, SafeOK,
        HelperOK

LEMMA ContinueCore == ASSUME Core, Continue PROVE Core'
<1>1. /\ TypeOK /\ OrderOK /\ WorkOK /\ Reached /\ PauseOK
      /\ op \in Attempts /\ Pending(op) /\ w.at = "cont"
      /\ HelperOK(op) /\ SafeOK(op) /\ w.mode \in {"run", "undo", "recover"}
      /\ \A a \in Attempts : Pending(a) => a = op
  BY WorkFacts DEF Core, Continue, At, TypeOK
<1>2. /\ w'.op = op /\ w'.mode = w.mode
      /\ w'.at = IF w.mode = "recover" THEN "proof" ELSE "thaw"
      /\ qemu # "exited" /\ qemu' = "running"
      /\ UNCHANGED <<status, abort, copy, published, clock, watch, open, cmd, msg, frozen,
                     helper, guardian, state, phase>>
  BY <1>1 DEF Continue, Goto, Phase, TypeOK, op, At, channel, guest, receipts
<1>3. TypeOK'
  BY <1>1 DEF Continue, TypeOK, Goto, Phase, Places, Phases, channel, guest, receipts, op
<1>4. WorkOK'
  BY <1>1, <1>2 DEF WorkOK, op, Pending
<1>5. Reached'
  BY <1>1, <1>2 DEF WorkOK, Reached, op, At, Pending, Past, Settleable
<1>6. PauseOK'
  BY <1>1, <1>2 DEF WorkOK, Reached, PauseOK, Pausing, op, At, Pending, Past
<1>7. OrderOK'
  BY <1>1, <1>2, OrderStep
<1> QED BY <1>1, <1>2, <1>3, <1>4, <1>5, <1>6, <1>7, HostStep DEF guest, Settleable, SafeOK,
        HelperOK

LEMMA SealCore == ASSUME Core, Seal PROVE Core'
<1>1. /\ TypeOK /\ OrderOK /\ WorkOK /\ Reached /\ PauseOK
      /\ op \in Attempts /\ Pending(op) /\ w.at = "seal"
      /\ HelperOK(op) /\ SafeOK(op) /\ w.mode \in {"run", "undo", "recover"}
      /\ \A a \in Attempts : Pending(a) => a = op
  BY WorkFacts DEF Core, Seal, At, TypeOK
<1>2. /\ w'.op = op /\ w'.at = "sealed" /\ w'.mode = w.mode
      /\ published' = [published EXCEPT ![op] = copy] /\ published \in [Attempts -> {"none", "whole", "mixed"}]
      /\ phase[op] \in {"released", "sealed"}
      /\ UNCHANGED <<status, abort, copy, clock, watch, open, cmd, msg, qemu, frozen, helper,
                     guardian, state, phase>>
  BY <1>1 DEF Seal, Goto, Phase, TypeOK, op, At, channel, guest, receipts
<1>3. TypeOK'
  BY <1>1 DEF Seal, TypeOK, Goto, Phase, Places, Phases, channel, guest, receipts, op
<1>4. WorkOK'
  BY <1>1, <1>2 DEF WorkOK, op, Pending
<1>5. Reached'
  BY <1>1, <1>2 DEF WorkOK, Reached, op, At, Pending, Past, Settleable
<1>6. PauseOK'
  BY <1>1, <1>2 DEF WorkOK, Reached, PauseOK, Pausing, op, At, Pending, Past
<1>7. OrderOK'
  BY <1>1, <1>2, OrderStep
<1> QED BY <1>1, <1>2, <1>3, <1>4, <1>5, <1>6, <1>7, HostStep DEF guest, Settleable, SafeOK,
        HelperOK

LEMMA SealedCore == ASSUME Core, Sealed PROVE Core'
<1>1. /\ TypeOK /\ OrderOK /\ WorkOK /\ Reached /\ PauseOK
      /\ op \in Attempts /\ Pending(op) /\ w.at = "sealed"
      /\ HelperOK(op) /\ SafeOK(op) /\ w.mode \in {"run", "undo", "recover"}
      /\ \A a \in Attempts : Pending(a) => a = op
  BY WorkFacts DEF Core, Sealed, At, TypeOK
<1>2. /\ w'.op = op /\ w'.at = "complete" /\ w'.mode = w.mode
      /\ Safe(op)
      /\ phase'[op] = "sealed" /\ \A a \in Attempts : a # op => phase'[a] = phase[a]
      /\ msg'[op] = {} /\ \A a \in Attempts : msg'[a] \in {msg[a], {}}
      /\ UNCHANGED <<status, abort, copy, published, clock, watch, cmd, qemu, frozen, helper,
                     guardian, state>>
  BY <1>1 DEF Sealed, Goto, Phase, TypeOK, op, At, channel, guest, receipts, Close, Reached,
       SafeOK, Settleable
<1>3. TypeOK'
  BY <1>1 DEF Sealed, TypeOK, Goto, Phase, Places, Phases, channel, guest, receipts, op, Close
<1>4. WorkOK'
  BY <1>1, <1>2 DEF WorkOK, op, Pending
<1>5. Reached'
  BY <1>1, <1>2 DEF WorkOK, Reached, op, At, Pending, Past, Settleable
<1>6. PauseOK'
  BY <1>1, <1>2 DEF WorkOK, Reached, PauseOK, Pausing, op, At, Pending, Past
<1>7. OrderOK'
  BY <1>1, <1>2, OrderStep
<1> QED BY <1>1, <1>2, <1>3, <1>4, <1>5, <1>6, <1>7, HostStep DEF guest, Settleable, SafeOK,
        HelperOK

LEMMA ProofCore == ASSUME Core, Proof PROVE Core'
<1>1. /\ TypeOK /\ OrderOK /\ WorkOK /\ Reached /\ PauseOK
      /\ op \in Attempts /\ Pending(op) /\ w.at = "proof"
      /\ HelperOK(op) /\ SafeOK(op) /\ w.mode \in {"run", "undo", "recover"}
      /\ \A a \in Attempts : Pending(a) => a = op
  BY WorkFacts DEF Core, Proof, At, TypeOK
<1>2. /\ w'.op = op /\ w'.at = "fail" /\ w'.mode = w.mode
      /\ phase'[op] \in {phase[op], "aborted"}
      /\ \A a \in Attempts : a # op => phase'[a] = phase[a]
      /\ qemu = "running"
      /\ state[op] = "released"
      /\ UNCHANGED <<status, abort, copy, published, clock, watch, open, cmd, msg, qemu, frozen,
                     helper, guardian, state>>
  BY <1>1 DEF Proof, Fails, Goto, Phase, TypeOK, op, At, channel, guest, receipts
<1>3. TypeOK'
  BY <1>1 DEF Proof, Fails, TypeOK, Goto, Phase, Places, Phases, channel, guest, receipts, op
<1>4. WorkOK'
  BY <1>1, <1>2 DEF WorkOK, op, Pending
<1>5. Reached'
  BY <1>1, <1>2 DEF WorkOK, Reached, op, At, Pending, Past, Settleable
<1>6. PauseOK'
  BY <1>1, <1>2 DEF WorkOK, Reached, PauseOK, Pausing, op, At, Pending, Past
<1>7. OrderOK'
  BY <1>1, <1>2, OrderStep
<1> QED BY <1>1, <1>2, <1>3, <1>4, <1>5, <1>6, <1>7, HostStep DEF guest, Settleable, SafeOK,
        HelperOK, Safe

LEMMA SendFreezeCore == ASSUME Core, SendFreeze PROVE Core'
<1>1. /\ TypeOK /\ OrderOK /\ WorkOK /\ Reached /\ PauseOK
      /\ op \in Attempts /\ Pending(op) /\ w.at = "freeze"
      /\ HelperOK(op) /\ SafeOK(op) /\ w.mode \in {"run", "undo", "recover"}
      /\ \A a \in Attempts : Pending(a) => a = op
  BY WorkFacts DEF Core, SendFreeze, At, TypeOK
<1>2. /\ w'.op = op /\ w'.at = "frozen" /\ w'.mode = w.mode
      /\ UNCHANGED <<status, abort, copy, published, clock, watch, open, msg, qemu, frozen,
                     helper, guardian, state, phase>>
  BY <1>1 DEF SendFreeze, Goto, TypeOK, op, guest, receipts
<1>3. /\ cmd' \in [Attempts -> SUBSET {"freeze", "thaw"}]
      /\ \A a \in Attempts : a # op => cmd'[a] = cmd[a]
      /\ \/ cmd'[op] = cmd[op]
         \/ cmd'[op] = cmd[op] \cup {"freeze"} /\ helper[op] \in {"starting", "ready", "freezing", "frozen"}
  <2>1. cmd \in [Attempts -> SUBSET {"freeze", "thaw"}]
    BY <1>1 DEF TypeOK
  <2>2. CASE helper[op] \in {"starting", "ready", "freezing", "frozen"}
    <3>1. cmd' = [cmd EXCEPT ![op] = cmd[op] \cup {"freeze"}]
      BY <2>2 DEF SendFreeze, Sends
    <3>2. cmd[op] \cup {"freeze"} \in SUBSET {"freeze", "thaw"}
      BY <1>1, <2>1
    <3> QED BY <1>1, <2>1, <2>2, <3>1, <3>2
  <2>3. CASE ~(helper[op] \in {"starting", "ready", "freezing", "frozen"})
    <3>1. cmd' = cmd
      BY <2>3 DEF SendFreeze, Sends
    <3> QED BY <2>1, <3>1
  <2> QED BY <2>2, <2>3
<1>4. TypeOK'
  BY <1>1, <1>2, <1>3 DEF SendFreeze, TypeOK, Goto, Places, guest, receipts
<1>5. WorkOK'
  BY <1>1, <1>2 DEF WorkOK, op, Pending
<1>6. Reached'
  BY <1>1, <1>2, <1>3 DEF WorkOK, Reached, op, At, Pending, Past, Settleable
<1>7. PauseOK'
  BY <1>1, <1>2 DEF WorkOK, PauseOK, op, At, Pending
<1>8. OrderOK'
  BY <1>1, <1>2, OrderStep
<1>9. \A a \in Attempts :
        /\ helper[a] = "none" => cmd'[a] = cmd[a]
        /\ "freeze" \in cmd'[a] =>
             \/ "freeze" \in cmd[a]
             \/ phase'[a] \notin Settleable \cup {"preparing"} /\ qemu' # "exited"
  BY <1>1, <1>2, <1>3 DEF WorkOK, Reached, At, SafeOK, Settleable
<1> QED BY <1>2, <1>4, <1>5, <1>6, <1>7, <1>8, <1>9, HostStep DEF guest

LEMMA SendThawCore == ASSUME Core, SendThaw PROVE Core'
<1>1. /\ TypeOK /\ OrderOK /\ WorkOK /\ Reached /\ PauseOK
      /\ op \in Attempts /\ Pending(op) /\ w.at = "thaw"
      /\ HelperOK(op) /\ SafeOK(op) /\ w.mode \in {"run", "undo", "recover"}
      /\ \A a \in Attempts : Pending(a) => a = op
  BY WorkFacts DEF Core, SendThaw, At, TypeOK
<1>2. /\ w'.op = op /\ w'.at = "released" /\ w'.mode = w.mode
      /\ UNCHANGED <<status, abort, copy, published, clock, watch, open, msg, qemu, frozen,
                     helper, guardian, state, phase>>
  BY <1>1 DEF SendThaw, Goto, TypeOK, op, guest, receipts
<1>3. /\ cmd' \in [Attempts -> SUBSET {"freeze", "thaw"}]
      /\ \A a \in Attempts : a # op => cmd'[a] = cmd[a]
      /\ \/ cmd'[op] = cmd[op]
         \/ cmd'[op] = cmd[op] \cup {"thaw"} /\ helper[op] \in {"starting", "ready", "freezing", "frozen"}
  <2>1. cmd \in [Attempts -> SUBSET {"freeze", "thaw"}]
    BY <1>1 DEF TypeOK
  <2>2. CASE helper[op] \in {"starting", "ready", "freezing", "frozen"}
    <3>1. cmd' = [cmd EXCEPT ![op] = cmd[op] \cup {"thaw"}]
      BY <2>2 DEF SendThaw, Sends
    <3>2. cmd[op] \cup {"thaw"} \in SUBSET {"freeze", "thaw"}
      BY <1>1, <2>1
    <3> QED BY <1>1, <2>1, <2>2, <3>1, <3>2
  <2>3. CASE ~(helper[op] \in {"starting", "ready", "freezing", "frozen"})
    <3>1. cmd' = cmd
      BY <2>3 DEF SendThaw, Sends
    <3> QED BY <2>1, <3>1
  <2> QED BY <2>2, <2>3
<1>4. TypeOK'
  BY <1>1, <1>2, <1>3 DEF SendThaw, TypeOK, Goto, Places, guest, receipts
<1>5. WorkOK'
  BY <1>1, <1>2 DEF WorkOK, op, Pending
<1>6. Reached'
  BY <1>1, <1>2, <1>3 DEF WorkOK, Reached, op, At, Pending, Past, Settleable
<1>7. PauseOK'
  BY <1>1, <1>2 DEF WorkOK, PauseOK, op, At, Pending
<1>8. OrderOK'
  BY <1>1, <1>2, OrderStep
<1>9. \A a \in Attempts :
        /\ helper[a] = "none" => cmd'[a] = cmd[a]
        /\ "freeze" \in cmd'[a] => "freeze" \in cmd[a]
  BY <1>1, <1>2, <1>3
<1> QED BY <1>2, <1>4, <1>5, <1>6, <1>7, <1>8, <1>9, HostStep DEF guest

LEMMA ReleasedCore == ASSUME Core, Released PROVE Core'
<1>1. /\ TypeOK /\ OrderOK /\ WorkOK /\ Reached /\ PauseOK
      /\ op \in Attempts /\ Pending(op) /\ w.at = "released"
      /\ HelperOK(op) /\ SafeOK(op) /\ w.mode \in {"run", "undo", "recover"}
      /\ \A a \in Attempts : Pending(a) => a = op
  BY WorkFacts DEF Core, Released, At, TypeOK
<1>2. /\ w'.op = op /\ w'.mode = w.mode
      /\ qemu # "paused" /\ state[op] \in {"released", "lost"}
      /\ \/ w.mode = "undo" /\ w'.at = "fail" /\ phase'[op] = "aborted"
         \/ w.mode = "run" /\ w'.at = "seal" /\ phase'[op] = "released"
      /\ \A a \in Attempts : a # op => phase'[a] = phase[a]
      /\ msg'[op] = {} /\ \A a \in Attempts : msg'[a] \in {msg[a], {}}
      /\ UNCHANGED <<status, abort, copy, published, clock, watch, cmd, qemu, frozen, helper,
                     guardian, state>>
  BY <1>1 DEF Released, Goto, Phase, TypeOK, op, At, channel, guest, receipts, Close, Valid,
       Receive, WorkOK, PauseOK, HelperOK
<1>3. TypeOK'
  <2>1. CASE w.mode = "undo"
    <3>1. /\ w' = [w EXCEPT !.at = "fail"] /\ phase' = [phase EXCEPT ![op] = "aborted"]
          /\ open' = [open EXCEPT ![op] = FALSE] /\ msg' = [msg EXCEPT ![op] = {}]
          /\ UNCHANGED <<status, abort, copy, published, clock, watch, cmd, qemu, guest>>
      BY <2>1 DEF Released, Goto, Phase, Close
    <3> QED BY <1>1, <3>1 DEF TypeOK, Places, Phases, guest
  <2>2. CASE w.mode # "undo"
    BY <1>1, <2>2 DEF Released, TypeOK, Goto, Phase, Places, Phases, guest, op, Receive
  <2> QED BY <2>1, <2>2
<1>4. WorkOK'
  BY <1>1, <1>2 DEF WorkOK, op, Pending
<1>5. Reached'
  BY <1>1, <1>2 DEF WorkOK, Reached, op, At, Pending, Past, Settleable
<1>6. PauseOK'
  BY <1>1, <1>2 DEF WorkOK, Reached, PauseOK, Pausing, op, At, Pending, Past
<1>7. OrderOK'
  BY <1>1, <1>2, OrderStep
<1> QED BY <1>1, <1>2, <1>3, <1>4, <1>5, <1>6, <1>7, HostStep DEF guest, Settleable, SafeOK,
        HelperOK, Safe

LEMMA LookCore == ASSUME Core, Look PROVE Core'
<1>1. /\ TypeOK /\ OrderOK /\ WorkOK /\ Reached /\ PauseOK
      /\ op \in Attempts /\ Pending(op) /\ w.at = "look"
      /\ HelperOK(op) /\ SafeOK(op) /\ w.mode \in {"run", "undo", "recover"}
      /\ \A a \in Attempts : Pending(a) => a = op
  BY WorkFacts DEF Core, Look, At, TypeOK
<1>2. /\ w'.op = op /\ w'.mode = w.mode
      /\ \/ w'.at = "cont" /\ UNCHANGED phase
         \/ /\ w'.at = "fail" /\ phase'[op] \in {phase[op], "aborted"} /\ Safe(op)
            /\ phase[op] = "preparing" \/ qemu = "exited"
      /\ \A a \in Attempts : a # op => phase'[a] = phase[a]
      /\ UNCHANGED <<status, abort, copy, published, clock, watch, open, cmd, msg, qemu, frozen,
                     helper, guardian, state>>
  BY <1>1 DEF Look, Fails, Goto, Phase, TypeOK, op, At, channel, guest, receipts, SafeOK, Settleable,
       Safe
<1>3. TypeOK'
  BY <1>1 DEF Look, Fails, TypeOK, Goto, Phase, Places, Phases, channel, guest, receipts, op
<1>4. WorkOK'
  BY <1>1, <1>2 DEF WorkOK, op, Pending
<1>5. Reached'
  BY <1>1, <1>2 DEF WorkOK, Reached, op, At, Pending, Past, Settleable
<1>6. PauseOK'
  BY <1>1, <1>2 DEF WorkOK, Reached, PauseOK, Pausing, op, At, Pending, Past
<1>7. OrderOK'
  BY <1>1, <1>2, OrderStep
<1> QED BY <1>1, <1>2, <1>3, <1>4, <1>5, <1>6, <1>7, HostStep DEF guest, Settleable, SafeOK,
        HelperOK

\* A step after which no worker is at work, or one begins anew.
LEMMA RestStep ==
  ASSUME Core, TypeOK', UNCHANGED <<status, phase, copy, published, clock, cmd, qemu, guest>>,
         \A a \in Attempts : msg'[a] \subseteq msg[a],
         \/ w' = NoWork
         \/ \E a \in Attempts : Pending(a) /\ w' = [op |-> a, at |-> "begin", mode |-> "run"]
  PROVE  Core'
<1>1. OrderOK'
  <2>1. w'.at \in {"idle", "begin"}
    BY DEF NoWork
  <2> QED BY <2>1 DEF Core, OrderOK, Pending, At
<1>2. WorkOK' /\ Reached'
  <2>1. CASE w' = NoWork
    BY <2>1 DEF WorkOK, Reached, NoWork, op, At
  <2>2. ASSUME NEW a \in Attempts, Pending(a), w' = [op |-> a, at |-> "begin", mode |-> "run"]
        PROVE  WorkOK' /\ Reached'
    BY <2>2, LastAssumption DEF WorkOK, Reached, op, At, Pending, Attempts
  <2> QED BY <2>1, <2>2
<1>3. PauseOK'
  <2>1. w'.at \in {"idle", "begin"}
    BY DEF NoWork
  <2> QED BY <2>1 DEF Core, PauseOK, Pending
<1> QED BY <1>1, <1>2, <1>3, HostStep

LEMMA CloseOK ==
  ASSUME TypeOK, Close
  PROVE  /\ open' \in [Attempts -> BOOLEAN]
         /\ msg' \in [Attempts -> SUBSET {"ready", "frozen", "released"}]
         /\ \A a \in Attempts : msg'[a] \subseteq msg[a]
BY DEF TypeOK, Close

LEMMA ResubmitCore == ASSUME Core, NEW a \in Attempts, Resubmit(a) PROVE Core'
<1>1. TypeOK'
  BY DEF Core, Resubmit, TypeOK, Places, receipts, channel, guest
<1> QED BY <1>1, RestStep DEF Resubmit, receipts, channel

LEMMA CrashCore == ASSUME Core, Crash PROVE Core'
<1>1. w' \in [op : Attempts \cup {0}, at : Places, mode : {"run", "undo", "recover"}]
  BY DEF Crash, Places, NoWork
<1>2. TypeOK'
  BY <1>1 DEF Core, Crash, TypeOK, receipts, channel, guest
<1> QED BY <1>2, RestStep DEF Crash, receipts

\* The receipt stays pending, whatever was written to .abort.
LEMMA LeaveCore ==
  ASSUME Core, LeavePending, abort' \in [Attempts -> BOOLEAN],
         UNCHANGED <<status, phase, copy, published, clock, watch, cmd, qemu, guest>>
  PROVE  Core'
<1>1. /\ open' \in [Attempts -> BOOLEAN]
      /\ msg' \in [Attempts -> SUBSET {"ready", "frozen", "released"}]
      /\ \A a \in Attempts : msg'[a] \subseteq msg[a]
      /\ w' = NoWork
  BY CloseOK DEF Core, LeavePending
<1>2. TypeOK'
  BY <1>1 DEF Core, TypeOK, NoWork, Places, guest
<1> QED BY <1>1, <1>2, RestStep

LEMMA SubmitCore == ASSUME Core, NEW a \in Attempts, Submit(a) PROVE Core'
<1>1. /\ TypeOK /\ OrderOK /\ WorkOK /\ PauseOK
      /\ HelperOK(a) /\ SafeOK(a)
  BY DEF Core
<1>2. /\ status[a] = "none" /\ phase[a] = "none" /\ NothingPending
      /\ status'[a] = "pending" /\ \A b \in Attempts : b # a => status'[b] = status[b]
      /\ w' = [op |-> a, at |-> "begin", mode |-> "run"]
      /\ UNCHANGED <<phase, abort, copy, published, clock, watch, channel, qemu, guest>>
  BY <1>1 DEF Submit, TypeOK, OrderOK
<1>3. TypeOK'
  BY <1>1 DEF Submit, TypeOK, Places, channel, guest
<1>4. OrderOK'
  <2>1. ASSUME NEW c \in Attempts, status'[c] # "none"
        PROVE  \A b \in 1 .. (c - 1) : status'[b] \in {"completed", "failed"}
    <3>1. CASE c = a
      <4>1. \A b \in 1 .. (a - 1) : b \in Attempts /\ b # a
        BY <3>1, LastAssumption DEF Attempts
      <4>2. \A b \in 1 .. (a - 1) : status[b] # "none" /\ ~Pending(b)
        BY <4>1, <1>2 DEF Submit, NothingPending
      <4>3. \A b \in 1 .. (a - 1) : status[b] \in {"completed", "failed"}
        BY <4>1, <4>2, <1>1 DEF TypeOK, Pending
      <4> QED BY <3>1, <4>1, <4>3, <1>2
    <3>2. CASE c # a
      <4>1. \A b \in 1 .. (c - 1) : b \in Attempts /\ status[b] \in {"completed", "failed"}
        BY <2>1, <3>2, <1>1, <1>2, LastAssumption DEF OrderOK, Attempts
      <4> QED BY <4>1, <1>2
    <3> QED BY <3>1, <3>2
  <2>2. \A c \in Attempts : status'[c] = "none" => phase'[c] = "none"
    BY <1>1, <1>2 DEF OrderOK
  <2> QED BY <2>1, <2>2 DEF OrderOK
<1>5. WorkOK' /\ Reached'
  BY <1>2, LastAssumption DEF WorkOK, Reached, op, At, Pending, Attempts
<1>6. PauseOK'
  BY <1>1, <1>2 DEF PauseOK, NothingPending, Pending, At
<1> QED BY <1>2, <1>3, <1>4, <1>5, <1>6, HostStep DEF channel

\* The answer to the pending operation.
LEMMA AnswerCore == ASSUME Core, Complete \/ Fail PROVE Core'
<1>1. /\ TypeOK /\ OrderOK /\ WorkOK /\ Reached /\ PauseOK
      /\ op \in Attempts /\ Pending(op) /\ w.at # "idle"
      /\ HelperOK(op) /\ SafeOK(op) /\ w.mode \in {"run", "undo", "recover"}
      /\ \A a \in Attempts : Pending(a) => a = op
  BY WorkFacts DEF Core, Complete, Fail, At, TypeOK, Trying
<1>2. /\ status' \in [Attempts -> {"none", "pending", "completed", "failed"}]
      /\ status'[op] \in {"completed", "failed"}
      /\ \A b \in Attempts : b # op => status'[b] = status[b]
      /\ w' = NoWork /\ copy' = "none"
      /\ UNCHANGED <<phase, abort, published, clock, watch, channel, qemu, guest>>
  BY <1>1 DEF Complete, Fail, TypeOK, At
<1>3. TypeOK'
  BY <1>1, <1>2 DEF TypeOK, NoWork, Places, channel, guest
<1>4. OrderOK'
  <2>1. \A c \in Attempts : \A b \in 1 .. (c - 1) : b \in Attempts
    BY LastAssumption DEF Attempts
  <2> QED BY <2>1, <1>1, <1>2 DEF OrderOK, Pending
<1>5. WorkOK' /\ Reached'
  BY <1>2 DEF WorkOK, Reached, op, At, NoWork
<1>6. PauseOK'
  BY <1>1, <1>2 DEF PauseOK, NoWork
<1> QED BY <1>2, <1>3, <1>4, <1>5, <1>6, HostStep DEF channel

LEMMA BeginCore == ASSUME Core, Begin PROVE Core'
<1>1. /\ TypeOK /\ OrderOK /\ WorkOK /\ Reached /\ PauseOK
      /\ op \in Attempts /\ Pending(op) /\ w.at # "idle"
      /\ HelperOK(op) /\ SafeOK(op) /\ w.mode \in {"run", "undo", "recover"}
      /\ \A a \in Attempts : Pending(a) => a = op
  BY WorkFacts DEF Core, Begin, At, TypeOK, Trying
<1>2. /\ w.at = "begin" /\ w'.op = op
      /\ \/ /\ phase[op] = "none" /\ phase'[op] = "preparing" /\ qemu = "running"
            /\ w'.at = "watchdog" /\ w'.mode = w.mode
         \/ /\ phase[op] = "none" /\ phase'[op] \in {"none", "preparing"}
            /\ w'.at = "fail" /\ w'.mode = w.mode
         \/ /\ phase[op] = "aborted" /\ UNCHANGED phase
            /\ w'.at = "fail" /\ w'.mode = w.mode
         \/ /\ phase[op] \in {"released", "sealed"} /\ UNCHANGED phase
            /\ w'.at = "seal" /\ w'.mode = "recover"
         \/ /\ phase[op] \notin {"none", "aborted"} /\ UNCHANGED phase
            /\ w'.at = "look" /\ w'.mode = "recover"
      /\ \A a \in Attempts : a # op => phase'[a] = phase[a]
      /\ UNCHANGED <<status, copy, published, clock, watch, open, cmd, msg, qemu, guest>>
  BY <1>1 DEF Begin, Fails, At, Goto, Phase, TypeOK, op, channel
<1>3. TypeOK'
  <2>1. w' \in [op : Attempts \cup {0}, at : Places, mode : {"run", "undo", "recover"}]
    BY <1>1 DEF Begin, Fails, TypeOK, Goto, Places, op
  <2>2. phase' \in [Attempts -> Phases]
    BY <1>1 DEF Begin, Fails, TypeOK, Phase, Phases
  <2>3. abort' \in [Attempts -> BOOLEAN]
    BY <1>1 DEF Begin, TypeOK
  <2> QED BY <1>1, <1>2, <2>1, <2>2, <2>3 DEF TypeOK, guest
<1>4. WorkOK'
  BY <1>1, <1>2 DEF WorkOK, op, Pending
<1>5. Reached'
  <2>1. phase[op] = "none" => helper[op] = "none" /\ cmd[op] = {} /\ msg[op] = {}
    BY <1>1 DEF HelperOK
  <2>2. /\ w'.at \in {"watchdog", "fail", "seal", "look"} /\ UNCHANGED <<helper, cmd, msg>>
        /\ w'.at = "watchdog" => phase'[op] = "preparing" /\ phase[op] = "none"
        /\ w'.at = "seal" => phase'[op] \in {"released", "sealed"}
    BY <1>2 DEF guest
  <2> QED BY <1>2, <2>1, <2>2 DEF Reached, op, At
<1>6. PauseOK'
  BY <1>1, <1>2 DEF WorkOK, PauseOK, Pausing, op, At
<1>7. OrderOK'
  BY <1>1, <1>2, OrderStep
<1> QED BY <1>1, <1>2, <1>3, <1>4, <1>5, <1>6, <1>7, HostStep DEF Settleable, SafeOK

LEMMA AbortCore == ASSUME Core, Abort PROVE Core'
<1>1. /\ TypeOK /\ OrderOK /\ WorkOK /\ Reached /\ PauseOK
      /\ op \in Attempts /\ Pending(op) /\ w.at # "idle"
      /\ HelperOK(op) /\ SafeOK(op) /\ w.mode \in {"run", "undo", "recover"}
      /\ \A a \in Attempts : Pending(a) => a = op
  BY WorkFacts DEF Core, Abort, At, TypeOK, Trying
<1>2. abort' \in [Attempts -> BOOLEAN]
  BY <1>1 DEF Abort, TypeOK
<1>3. CASE helper[op] = "none"
  BY <1>2, <1>3, LeaveCore DEF Abort
<1>4. CASE helper[op] # "none"
  <2>1. /\ w.at = "abort" /\ w' = [w EXCEPT !.at = "cont"]
        /\ UNCHANGED <<status, phase, copy, published, clock, watch, channel, qemu, guest>>
    BY <1>4 DEF Abort, Goto, At, channel
  <2>2. w'.op = op /\ w'.at = "cont" /\ w'.mode = w.mode /\ w.mode = "undo"
    BY <2>1, <1>1 DEF TypeOK, WorkOK, op
  <2>3. TypeOK'
    BY <1>1, <1>2, <2>1 DEF TypeOK, Places, channel, guest
  <2>4. OrderOK' /\ WorkOK' /\ Reached' /\ PauseOK'
    BY <1>1, <2>1, <2>2 DEF OrderOK, WorkOK, Reached, PauseOK, op, Pending, At,
         channel
  <2> QED BY <2>1, <2>3, <2>4, HostStep DEF channel
<1> QED BY <1>3, <1>4

LEMMA TroubleCore == ASSUME Core, Trouble PROVE Core'
<1>1. /\ TypeOK /\ OrderOK /\ WorkOK /\ Reached /\ PauseOK
      /\ op \in Attempts /\ Pending(op) /\ w.at # "idle"
      /\ HelperOK(op) /\ SafeOK(op) /\ w.mode \in {"run", "undo", "recover"}
      /\ \A a \in Attempts : Pending(a) => a = op
  BY WorkFacts DEF Core, Trouble, At, TypeOK, Trying
<1>2. CASE LeavePending
  BY <1>1, <1>2, LeaveCore DEF Trouble, TypeOK, receipts
<1>3. ASSUME ~LeavePending PROVE Core'
  <2>1. /\ w'.op = op /\ UNCHANGED <<receipts, clock, watch, channel, qemu, guest>>
        /\ \/ w'.at = "abort" /\ w'.mode = "undo"
           \/ /\ w'.at = "fail" /\ w'.mode = w.mode
              /\ \/ w.mode = "recover" /\ w.at \in {"seal", "sealed"}
                 \/ w.at = "complete"
    BY <1>1, <1>3 DEF Trouble, Goto, TypeOK, op, channel
  <2>2. w' \in [op : Attempts \cup {0}, at : Places, mode : {"run", "undo", "recover"}]
    BY <1>1, <1>3 DEF Trouble, Goto, TypeOK, op, Places
  <2>3. TypeOK'
    BY <1>1, <2>1, <2>2 DEF TypeOK, receipts, channel, guest
  <2>4. OrderOK' /\ PauseOK'
    BY <1>1, <2>1 DEF OrderOK, PauseOK, Pending, receipts
  <2>5. WorkOK'
    BY <1>1, <2>1 DEF WorkOK, op, Pending, receipts
  <2>6. Reached'
    BY <1>1, <2>1 DEF WorkOK, Reached, Settleable, op, At, receipts
  <2> QED BY <2>1, <2>3, <2>4, <2>5, <2>6, HostStep DEF receipts, channel
<1> QED BY <1>2, <1>3

LEMMA MisreadCore == ASSUME Core, Misread PROVE Core'
<1>1. /\ TypeOK /\ OrderOK /\ WorkOK /\ Reached /\ PauseOK
      /\ op \in Attempts /\ Pending(op) /\ w.at = "begin" /\ w.mode = "run"
  BY WorkFacts DEF Core, Misread, At, TypeOK, WorkOK
<1>2. /\ w' = [w EXCEPT !.at = "fail"]
      /\ UNCHANGED <<receipts, clock, watch, channel, qemu, guest>>
  BY DEF Misread, Goto
<1>3. w'.op = op /\ w'.at = "fail" /\ w'.mode = "run"
  BY <1>1, <1>2 DEF TypeOK, op
<1>4. TypeOK'
  BY <1>1, <1>2 DEF TypeOK, Places, receipts, channel, guest
<1>5. OrderOK' /\ PauseOK'
  BY <1>1, <1>2, <1>3 DEF OrderOK, PauseOK, receipts
<1>6. WorkOK' /\ Reached'
  BY <1>1, <1>2, <1>3 DEF WorkOK, Reached, op, At, Pending, receipts
<1> QED BY <1>2, <1>4, <1>5, <1>6, HostStep DEF receipts, channel

-----------------------------------------------------------------------------
(* The watchdogs, and time. *)

\* A step of a watchdog: it changes neither journal nor worker, and resumes
\* QEMU at most.
LEMMA WatchdogStep ==
  ASSUME Core, UNCHANGED <<status, phase, copy, published, w, clock, cmd, msg, guest>>,
         abort' \in [Attempts -> BOOLEAN], open' \in [Attempts -> BOOLEAN],
         watch' \in [Attempts -> {"none", "watch", "orphan", "break", "cont", "query", "gone"}],
         qemu' \in {qemu, "running"}
  PROVE  Core'
<1>1. TypeOK'
  BY DEF Core, TypeOK, guest
<1>2. OrderOK' /\ WorkOK' /\ PauseOK'
  BY DEF Core, OrderOK, WorkOK, PauseOK, Pending, op, At, guest
<1>3. Reached'
  BY DEF Core, Reached, Past, op, At, guest
<1> QED BY <1>1, <1>2, <1>3, HostStep

LEMMA WatchdogCore ==
  ASSUME Core, NEW a \in Attempts, Watching(a) \/ WatchdogDies(a) PROVE Core'
<1>1. TypeOK
  BY DEF Core
<1>2. CASE WatchdogBreaks(a) \/ WatchdogDies(a)
  BY <1>1, <1>2, WatchdogStep
  DEF WatchdogBreaks, WatchdogDies, Watchdog, TypeOK, receipts, channel
<1>3. CASE WatchdogAborts(a)
  BY <1>1, <1>3, WatchdogStep DEF WatchdogAborts, Watchdog, TypeOK, channel
<1>4. CASE WatchdogContinues(a)
  BY <1>1, <1>4, WatchdogStep DEF WatchdogContinues, Watchdog, TypeOK, receipts, channel
<1>5. CASE WatchdogQueries(a)
  BY <1>1, <1>5, WatchdogStep DEF WatchdogQueries, Watchdog, TypeOK, receipts, channel
<1>6. CASE WatchdogCloses(a)
  BY <1>1, <1>6, WatchdogStep DEF WatchdogCloses, Watchdog, TypeOK, receipts
<1> QED BY <1>2, <1>3, <1>4, <1>5, <1>6 DEF Watching

LEMMA TickCore == ASSUME Core, NEW a \in Attempts, Tick(a) PROVE Core'
<1>1. /\ TypeOK /\ OrderOK /\ WorkOK /\ Reached /\ PauseOK
  BY DEF Core
<1>2. /\ clock[a] \in {0, 1} /\ clock' \in [Attempts -> 0 .. 2]
      /\ \A b \in Attempts : clock'[b] = clock[b] \/ (b = a /\ clock'[b] = clock[b] + 1)
      /\ UNCHANGED <<receipts, w, watch, channel, qemu, guest>>
  <2>1. /\ clock \in [Attempts -> 0 .. 2] /\ clock[a] < 2
        /\ clock' = [clock EXCEPT ![a] = clock[a] + 1]
        /\ UNCHANGED <<receipts, w, watch, channel, qemu, guest>>
    BY <1>1 DEF Tick, TypeOK
  <2>2. clock[a] \in {0, 1} /\ clock[a] + 1 \in 0 .. 2
    BY <2>1
  <2> QED BY <2>1, <2>2
<1>3. \A b \in Attempts : /\ clock'[b] = 0 => clock[b] = 0
                          /\ clock'[b] < 2 => clock[b] < 2
                          /\ clock[b] = 2 => clock'[b] = 2
  BY <1>1, <1>2 DEF TypeOK
<1>4. TypeOK'
  BY <1>1, <1>2 DEF TypeOK, receipts, channel, guest
<1>5. OrderOK' /\ WorkOK' /\ PauseOK'
  BY <1>1, <1>2 DEF OrderOK, WorkOK, PauseOK, op, Pending, receipts
<1>6. Reached' /\ FrozenOK'
  BY <1>2 DEF Core, Reached, FrozenOK, Past, op, At, receipts, channel, guest
<1>7. ASSUME NEW b \in Attempts PROVE HelperOK(b)' /\ SafeOK(b)'
  BY <1>2, <1>3 DEF Core, HelperOK, SafeOK, Past, Safe, receipts, channel, guest
<1> QED BY <1>4, <1>5, <1>6, <1>7 DEF Core

-----------------------------------------------------------------------------
(* The guest. *)

\* The processes of an attempt that can still take a step.
Active(a) == helper[a] \notin {"none", "gone"} \/ guardian[a] \notin {"none", "gone"}

FrozenState == {"freezing", "frozen"}

\* What a step of the guest processes of one attempt does.
GuestMove(a) ==
  /\ Active(a) /\ UNCHANGED host /\ qemu = "running" /\ TypeOK' /\ HelperOK(a)'
  /\ \A b \in Attempts : b # a =>
       /\ helper'[b] = helper[b] /\ guardian'[b] = guardian[b] /\ state'[b] = state[b]
       /\ cmd'[b] = cmd[b] /\ msg'[b] = msg[b]
  /\ helper'[a] # "none"
  /\ helper'[a] = "starting" => helper[a] = "starting"
  /\ Past(a) => Past(a)'
  /\ helper'[a] = "frozen" => helper[a] = "freezing" \/ helper[a] = "frozen"
  /\ helper'[a] = "frozen" /\ clock[a] < 2 => frozen' \/ (helper[a] = "frozen" /\ ~frozen)
  /\ cmd'[a] \subseteq cmd[a]
  /\ "released" \in msg'[a] =>
       \/ "released" \in msg[a]
       \/ helper[a] \in {"ready", "frozen"} /\ "thaw" \in cmd[a]
  /\ Safe(a) => Safe(a)'
  /\ frozen' => state'[a] \in FrozenState \/ (frozen /\ state[a] \notin FrozenState)

LEMMA FreezeReturnsMove ==
  ASSUME Core, NEW a \in Attempts, UNCHANGED host, UNCHANGED guardian, qemu = "running",
         frozen' \in BOOLEAN, helper[a] = "freezing", frozen',
         Becomes(a, "frozen"), Marks(a, "frozen"), Says(a, "frozen"), UNCHANGED cmd
  PROVE  GuestMove(a)
<1>1. TypeOK /\ HelperOK(a) /\ SafeOK(a)
  BY DEF Core
<1>2. Active(a)
  BY DEF Active
<1>3. TypeOK'
  BY <1>1 DEF TypeOK, host, receipts, Becomes, Marks, Says
<1>4. \A b \in Attempts : b # a =>
        /\ helper'[b] = helper[b] /\ guardian'[b] = guardian[b] /\ state'[b] = state[b]
        /\ cmd'[b] = cmd[b] /\ msg'[b] = msg[b]
  BY <1>1 DEF TypeOK, Becomes, Marks, Says
<1>5. HelperOK(a)'
  BY <1>1 DEF TypeOK, HelperOK, Past, host, receipts, Becomes, Marks, Says
<1>6. /\ helper'[a] # "none"
      /\ helper'[a] = "starting" => helper[a] = "starting"
      /\ Past(a) => Past(a)'
      /\ helper'[a] = "frozen" => helper[a] = "freezing" \/ helper[a] = "frozen"
      /\ helper'[a] = "frozen" /\ clock[a] < 2
           => frozen' \/ (helper[a] = "frozen" /\ ~frozen)
  BY <1>1 DEF TypeOK, HelperOK, SafeOK, Past, host, receipts, Becomes, Marks, Says
<1>7. /\ cmd'[a] \subseteq cmd[a]
      /\ "released" \in msg'[a] =>
           \/ "released" \in msg[a]
           \/ helper[a] \in {"ready", "frozen"} /\ "thaw" \in cmd[a]
      /\ Safe(a) => Safe(a)'
      /\ state'[a] \in FrozenState
  BY <1>1 DEF TypeOK, HelperOK, Safe, FrozenState, Becomes, Marks, Says
<1> QED BY <1>2, <1>3, <1>4, <1>5, <1>6, <1>7 DEF GuestMove

LEMMA FreezeEndsMove ==
  ASSUME Core, NEW a \in Attempts, UNCHANGED host, UNCHANGED guardian, qemu = "running",
         frozen' \in BOOLEAN, helper[a] \in {"freezing", "dying"}, UNCHANGED <<state, msg>>,
         \E h \in {"final", "gone"} : Ends(a, h)
  PROVE  GuestMove(a)
<1>1. TypeOK /\ HelperOK(a) /\ SafeOK(a)
  BY DEF Core
<1>2. Active(a)
  BY DEF Active
<1>3. TypeOK'
  BY <1>1 DEF TypeOK, host, receipts, Becomes, Ends
<1>4. \A b \in Attempts : b # a =>
        /\ helper'[b] = helper[b] /\ guardian'[b] = guardian[b] /\ state'[b] = state[b]
        /\ cmd'[b] = cmd[b] /\ msg'[b] = msg[b]
  BY <1>1 DEF TypeOK, Becomes, Ends
<1>5. HelperOK(a)'
  BY <1>1 DEF TypeOK, HelperOK, Past, host, receipts, Becomes, Ends
<1>6. /\ helper'[a] # "none"
      /\ helper'[a] = "starting" => helper[a] = "starting"
      /\ Past(a) => Past(a)'
      /\ helper'[a] = "frozen" => helper[a] = "freezing" \/ helper[a] = "frozen"
      /\ helper'[a] = "frozen" /\ clock[a] < 2
           => frozen' \/ (helper[a] = "frozen" /\ ~frozen)
  BY <1>1 DEF TypeOK, HelperOK, SafeOK, Past, host, receipts, Becomes, Ends
<1>7. /\ cmd'[a] \subseteq cmd[a]
      /\ "released" \in msg'[a] =>
           \/ "released" \in msg[a]
           \/ helper[a] \in {"ready", "frozen"} /\ "thaw" \in cmd[a]
      /\ Safe(a) => Safe(a)'
      /\ state'[a] \in FrozenState
  BY <1>1 DEF TypeOK, HelperOK, Safe, FrozenState, Becomes, Ends
<1> QED BY <1>2, <1>3, <1>4, <1>5, <1>6, <1>7 DEF GuestMove

LEMMA HelperStartsMove == ASSUME Core, NEW a \in Attempts, HelperStarts(a) PROVE GuestMove(a)
<1>1. TypeOK /\ HelperOK(a) /\ SafeOK(a)
  BY DEF Core
<1>2. Active(a) /\ qemu = "running" /\ UNCHANGED host
  BY DEF HelperStarts, Active, Guardian
<1>3. TypeOK'
  BY <1>1 DEF HelperStarts, TypeOK, host, receipts, Becomes, Ends, Marks, Says
<1>4. \A b \in Attempts : b # a =>
        /\ helper'[b] = helper[b] /\ guardian'[b] = guardian[b] /\ state'[b] = state[b]
        /\ cmd'[b] = cmd[b] /\ msg'[b] = msg[b]
  BY <1>1 DEF HelperStarts, TypeOK, Becomes, Ends, Marks, Says
<1>5. HelperOK(a)'
  BY <1>1 DEF HelperStarts, TypeOK, HelperOK, Past, host, receipts, Becomes, Ends, Marks, Says
<1>6. /\ helper'[a] # "none"
      /\ helper'[a] = "starting" => helper[a] = "starting"
      /\ Past(a) => Past(a)'
      /\ helper'[a] = "frozen" => helper[a] = "freezing" \/ helper[a] = "frozen"
      /\ helper'[a] = "frozen" /\ clock[a] < 2
           => frozen' \/ (helper[a] = "frozen" /\ ~frozen)
  BY <1>1 DEF HelperStarts, TypeOK, HelperOK, SafeOK, Past, host, receipts, Becomes, Ends,
       Marks, Says
<1>7. /\ cmd'[a] \subseteq cmd[a]
      /\ "released" \in msg'[a] =>
           \/ "released" \in msg[a]
           \/ helper[a] \in {"ready", "frozen"} /\ "thaw" \in cmd[a]
      /\ Safe(a) => Safe(a)'
      /\ frozen' => state'[a] \in FrozenState \/ (frozen /\ state[a] \notin FrozenState)
  BY <1>1 DEF HelperStarts, TypeOK, HelperOK, Safe, FrozenState, Becomes, Ends, Marks, Says
<1> QED BY <1>2, <1>3, <1>4, <1>5, <1>6, <1>7 DEF GuestMove

LEMMA HelperFreezesMove == ASSUME Core, NEW a \in Attempts, HelperFreezes(a) PROVE GuestMove(a)
<1>1. TypeOK /\ HelperOK(a) /\ SafeOK(a)
  BY DEF Core
<1>2. Active(a) /\ qemu = "running" /\ UNCHANGED host
  BY DEF HelperFreezes, Active, Guardian
<1>3. TypeOK'
  BY <1>1 DEF HelperFreezes, TypeOK, host, receipts, Becomes, Ends, Marks, Says
<1>4. \A b \in Attempts : b # a =>
        /\ helper'[b] = helper[b] /\ guardian'[b] = guardian[b] /\ state'[b] = state[b]
        /\ cmd'[b] = cmd[b] /\ msg'[b] = msg[b]
  BY <1>1 DEF HelperFreezes, TypeOK, Becomes, Ends, Marks, Says
<1>5. HelperOK(a)'
  BY <1>1 DEF HelperFreezes, TypeOK, HelperOK, Past, host, receipts, Becomes, Ends, Marks, Says
<1>6. /\ helper'[a] # "none"
      /\ helper'[a] = "starting" => helper[a] = "starting"
      /\ Past(a) => Past(a)'
      /\ helper'[a] = "frozen" => helper[a] = "freezing" \/ helper[a] = "frozen"
      /\ helper'[a] = "frozen" /\ clock[a] < 2
           => frozen' \/ (helper[a] = "frozen" /\ ~frozen)
  BY <1>1 DEF HelperFreezes, TypeOK, HelperOK, SafeOK, Past, host, receipts, Becomes, Ends,
       Marks, Says
<1>7. /\ cmd'[a] \subseteq cmd[a]
      /\ "released" \in msg'[a] =>
           \/ "released" \in msg[a]
           \/ helper[a] \in {"ready", "frozen"} /\ "thaw" \in cmd[a]
      /\ Safe(a) => Safe(a)'
      /\ frozen' => state'[a] \in FrozenState \/ (frozen /\ state[a] \notin FrozenState)
  BY <1>1 DEF HelperFreezes, TypeOK, HelperOK, Safe, FrozenState, Becomes, Ends, Marks, Says
<1> QED BY <1>2, <1>3, <1>4, <1>5, <1>6, <1>7 DEF GuestMove

LEMMA HelperFrozenMove == ASSUME Core, NEW a \in Attempts, HelperFrozen(a) PROVE GuestMove(a)
<1>1. /\ UNCHANGED host /\ UNCHANGED guardian /\ qemu = "running"
      /\ \/ /\ helper[a] = "freezing" /\ frozen' = TRUE
            /\ Becomes(a, "frozen") /\ Marks(a, "frozen") /\ Says(a, "frozen") /\ UNCHANGED cmd
         \/ /\ helper[a] \in {"freezing", "dying"} /\ UNCHANGED <<state, msg>>
            /\ \E h \in {"final", "gone"} : Ends(a, h)
  BY Zenon DEF HelperFrozen
<1>2. frozen' \in BOOLEAN
  <2>1. frozen \in BOOLEAN
    BY DEF Core, TypeOK
  <2> QED BY <2>1, Zenon DEF HelperFrozen
<1> QED BY <1>1, <1>2, FreezeReturnsMove, FreezeEndsMove, Zenon

LEMMA HelperThawsMove == ASSUME Core, NEW a \in Attempts, HelperThaws(a) PROVE GuestMove(a)
<1>1. TypeOK /\ HelperOK(a) /\ SafeOK(a)
  BY DEF Core
<1>2. Active(a) /\ qemu = "running" /\ UNCHANGED host
  BY DEF HelperThaws, Active, Guardian
<1>3. TypeOK'
  <2>1. CASE UNCHANGED <<state, msg>>
    BY <1>1, <2>1 DEF HelperThaws, TypeOK, host, receipts, Becomes, Ends
  <2>2. CASE Marks(a, "released") /\ Says(a, "released")
    <3>1. /\ state' = [state EXCEPT ![a] = "released"] /\ frozen' = FALSE
          /\ helper' = [helper EXCEPT ![a] = "final"] /\ cmd' = [cmd EXCEPT ![a] = {}]
          /\ UNCHANGED <<host, guardian>>
      BY <2>2 DEF HelperThaws, Marks, Ends, Becomes
    <3>2. msg' \in [Attempts -> SUBSET {"ready", "frozen", "released"}]
      BY <1>1, <2>2 DEF Says, TypeOK
    <3> QED BY <1>1, <3>1, <3>2 DEF TypeOK, host, receipts
  <2> QED BY <2>1, <2>2 DEF HelperThaws
<1>4. \A b \in Attempts : b # a =>
        /\ helper'[b] = helper[b] /\ guardian'[b] = guardian[b] /\ state'[b] = state[b]
        /\ cmd'[b] = cmd[b] /\ msg'[b] = msg[b]
  BY <1>1 DEF HelperThaws, TypeOK, Becomes, Ends, Marks, Says
<1>5. HelperOK(a)'
  BY <1>1 DEF HelperThaws, TypeOK, HelperOK, Past, host, receipts, Becomes, Ends, Marks, Says
<1>6. /\ helper'[a] # "none"
      /\ helper'[a] = "starting" => helper[a] = "starting"
      /\ Past(a) => Past(a)'
      /\ helper'[a] = "frozen" => helper[a] = "freezing" \/ helper[a] = "frozen"
      /\ helper'[a] = "frozen" /\ clock[a] < 2
           => frozen' \/ (helper[a] = "frozen" /\ ~frozen)
  BY <1>1 DEF HelperThaws, TypeOK, HelperOK, SafeOK, Past, host, receipts, Becomes, Ends, Marks,
       Says
<1>7. /\ cmd'[a] \subseteq cmd[a]
      /\ "released" \in msg'[a] =>
           \/ "released" \in msg[a]
           \/ helper[a] \in {"ready", "frozen"} /\ "thaw" \in cmd[a]
      /\ Safe(a) => Safe(a)'
      /\ frozen' => state'[a] \in FrozenState \/ (frozen /\ state[a] \notin FrozenState)
  BY <1>1 DEF HelperThaws, TypeOK, HelperOK, Safe, FrozenState, Becomes, Ends, Marks, Says
<1> QED BY <1>2, <1>3, <1>4, <1>5, <1>6, <1>7 DEF GuestMove

LEMMA HelperHangsUpMove == ASSUME Core, NEW a \in Attempts, HelperHangsUp(a) PROVE GuestMove(a)
<1>1. TypeOK /\ HelperOK(a) /\ SafeOK(a)
  BY DEF Core
<1>2. Active(a) /\ qemu = "running" /\ UNCHANGED host
  BY DEF HelperHangsUp, Active, Guardian
<1>3. TypeOK'
  BY <1>1 DEF HelperHangsUp, TypeOK, host, receipts, Becomes, Ends, Marks, Says
<1>4. \A b \in Attempts : b # a =>
        /\ helper'[b] = helper[b] /\ guardian'[b] = guardian[b] /\ state'[b] = state[b]
        /\ cmd'[b] = cmd[b] /\ msg'[b] = msg[b]
  BY <1>1 DEF HelperHangsUp, TypeOK, Becomes, Ends, Marks, Says
<1>5. HelperOK(a)'
  BY <1>1 DEF HelperHangsUp, TypeOK, HelperOK, Past, host, receipts, Becomes, Ends, Marks, Says
<1>6. /\ helper'[a] # "none"
      /\ helper'[a] = "starting" => helper[a] = "starting"
      /\ Past(a) => Past(a)'
      /\ helper'[a] = "frozen" => helper[a] = "freezing" \/ helper[a] = "frozen"
      /\ helper'[a] = "frozen" /\ clock[a] < 2
           => frozen' \/ (helper[a] = "frozen" /\ ~frozen)
  BY <1>1 DEF HelperHangsUp, TypeOK, HelperOK, SafeOK, Past, host, receipts, Becomes, Ends,
       Marks, Says
<1>7. /\ cmd'[a] \subseteq cmd[a]
      /\ "released" \in msg'[a] =>
           \/ "released" \in msg[a]
           \/ helper[a] \in {"ready", "frozen"} /\ "thaw" \in cmd[a]
      /\ Safe(a) => Safe(a)'
      /\ frozen' => state'[a] \in FrozenState \/ (frozen /\ state[a] \notin FrozenState)
  BY <1>1 DEF HelperHangsUp, TypeOK, HelperOK, Safe, FrozenState, Becomes, Ends, Marks, Says
<1> QED BY <1>2, <1>3, <1>4, <1>5, <1>6, <1>7 DEF GuestMove

LEMMA HelperEndsMove == ASSUME Core, NEW a \in Attempts, HelperEnds(a) PROVE GuestMove(a)
<1>1. TypeOK /\ HelperOK(a) /\ SafeOK(a)
  BY DEF Core
<1>2. Active(a) /\ qemu = "running" /\ UNCHANGED host
  BY DEF HelperEnds, Active, Guardian
<1>3. TypeOK'
  BY <1>1 DEF HelperEnds, TypeOK, host, receipts, Becomes, Ends, Marks, Says
<1>4. \A b \in Attempts : b # a =>
        /\ helper'[b] = helper[b] /\ guardian'[b] = guardian[b] /\ state'[b] = state[b]
        /\ cmd'[b] = cmd[b] /\ msg'[b] = msg[b]
  BY <1>1 DEF HelperEnds, TypeOK, Becomes, Ends, Marks, Says
<1>5. HelperOK(a)'
  BY <1>1 DEF HelperEnds, TypeOK, HelperOK, Past, host, receipts, Becomes, Ends, Marks, Says
<1>6. /\ helper'[a] # "none"
      /\ helper'[a] = "starting" => helper[a] = "starting"
      /\ Past(a) => Past(a)'
      /\ helper'[a] = "frozen" => helper[a] = "freezing" \/ helper[a] = "frozen"
      /\ helper'[a] = "frozen" /\ clock[a] < 2
           => frozen' \/ (helper[a] = "frozen" /\ ~frozen)
  BY <1>1 DEF HelperEnds, TypeOK, HelperOK, SafeOK, Past, host, receipts, Becomes, Ends, Marks,
       Says
<1>7. /\ cmd'[a] \subseteq cmd[a]
      /\ "released" \in msg'[a] =>
           \/ "released" \in msg[a]
           \/ helper[a] \in {"ready", "frozen"} /\ "thaw" \in cmd[a]
      /\ Safe(a) => Safe(a)'
      /\ frozen' => state'[a] \in FrozenState \/ (frozen /\ state[a] \notin FrozenState)
  BY <1>1 DEF HelperEnds, TypeOK, HelperOK, Safe, FrozenState, Becomes, Ends, Marks, Says
<1> QED BY <1>2, <1>3, <1>4, <1>5, <1>6, <1>7 DEF GuestMove

LEMMA GuardianWakesMove == ASSUME Core, NEW a \in Attempts, GuardianWakes(a) PROVE GuestMove(a)
<1>1. TypeOK /\ HelperOK(a) /\ SafeOK(a)
  BY DEF Core
<1>2. Active(a) /\ qemu = "running" /\ UNCHANGED host
  BY DEF GuardianWakes, Active, Guardian
<1>3. TypeOK'
  BY <1>1 DEF GuardianWakes, TypeOK, host, receipts, Guardian, Becomes, Ends, Marks
<1>4. \A b \in Attempts : b # a =>
        /\ helper'[b] = helper[b] /\ guardian'[b] = guardian[b] /\ state'[b] = state[b]
        /\ cmd'[b] = cmd[b] /\ msg'[b] = msg[b]
  BY <1>1 DEF GuardianWakes, TypeOK, Guardian, Becomes, Ends, Marks
<1>5. HelperOK(a)'
  BY <1>1 DEF GuardianWakes, TypeOK, HelperOK, Past, host, receipts, Guardian, Becomes, Ends,
       Marks
<1>6. /\ helper'[a] # "none"
      /\ helper'[a] = "starting" => helper[a] = "starting"
      /\ Past(a) => Past(a)'
      /\ helper'[a] = "frozen" => helper[a] = "freezing" \/ helper[a] = "frozen"
      /\ helper'[a] = "frozen" /\ clock[a] < 2
           => frozen' \/ (helper[a] = "frozen" /\ ~frozen)
  BY <1>1 DEF GuardianWakes, TypeOK, HelperOK, SafeOK, Past, host, receipts, Guardian, Becomes,
       Ends, Marks
<1>7. /\ cmd'[a] \subseteq cmd[a]
      /\ "released" \in msg'[a] =>
           \/ "released" \in msg[a]
           \/ helper[a] \in {"ready", "frozen"} /\ "thaw" \in cmd[a]
      /\ Safe(a) => Safe(a)'
      /\ frozen' => state'[a] \in FrozenState \/ (frozen /\ state[a] \notin FrozenState)
  BY <1>1 DEF GuardianWakes, TypeOK, HelperOK, Safe, FrozenState, Guardian, Becomes, Ends, Marks
<1> QED BY <1>2, <1>3, <1>4, <1>5, <1>6, <1>7 DEF GuestMove

LEMMA GuardianThawsMove == ASSUME Core, NEW a \in Attempts, GuardianThaws(a) PROVE GuestMove(a)
<1>1. TypeOK /\ HelperOK(a) /\ SafeOK(a)
  BY DEF Core
<1>2. Active(a) /\ qemu = "running" /\ UNCHANGED host
  BY DEF GuardianThaws, Active, Guardian
<1>3. TypeOK'
  BY <1>1 DEF GuardianThaws, TypeOK, host, receipts, Guardian, Becomes, Ends, Marks
<1>4. \A b \in Attempts : b # a =>
        /\ helper'[b] = helper[b] /\ guardian'[b] = guardian[b] /\ state'[b] = state[b]
        /\ cmd'[b] = cmd[b] /\ msg'[b] = msg[b]
  BY <1>1 DEF GuardianThaws, TypeOK, Guardian, Becomes, Ends, Marks
<1>5. HelperOK(a)'
  BY <1>1 DEF GuardianThaws, TypeOK, HelperOK, Past, host, receipts, Guardian, Becomes, Ends,
       Marks
<1>6. /\ helper'[a] # "none"
      /\ helper'[a] = "starting" => helper[a] = "starting"
      /\ Past(a) => Past(a)'
      /\ helper'[a] = "frozen" => helper[a] = "freezing" \/ helper[a] = "frozen"
      /\ helper'[a] = "frozen" /\ clock[a] < 2
           => frozen' \/ (helper[a] = "frozen" /\ ~frozen)
  BY <1>1 DEF GuardianThaws, TypeOK, HelperOK, SafeOK, Past, host, receipts, Guardian, Becomes,
       Ends, Marks
<1>7. /\ cmd'[a] \subseteq cmd[a]
      /\ "released" \in msg'[a] =>
           \/ "released" \in msg[a]
           \/ helper[a] \in {"ready", "frozen"} /\ "thaw" \in cmd[a]
      /\ Safe(a) => Safe(a)'
      /\ frozen' => state'[a] \in FrozenState \/ (frozen /\ state[a] \notin FrozenState)
  BY <1>1 DEF GuardianThaws, TypeOK, HelperOK, Safe, FrozenState, Guardian, Becomes, Ends, Marks
<1> QED BY <1>2, <1>3, <1>4, <1>5, <1>6, <1>7 DEF GuestMove

LEMMA GuardianProvesMove == ASSUME Core, NEW a \in Attempts, GuardianProves(a) PROVE GuestMove(a)
<1>1. TypeOK /\ HelperOK(a) /\ SafeOK(a)
  BY DEF Core
<1>2. Active(a) /\ qemu = "running" /\ UNCHANGED host
  BY DEF GuardianProves, Active, Guardian
<1>3. TypeOK'
  <2>1. guardian' \in [Attempts -> {"none", "watching", "thawing", "proving", "gone"}]
    <3>1. \/ guardian' = [guardian EXCEPT ![a] = "gone"]
          \/ guardian' = [guardian EXCEPT ![a] = "watching"]
      BY DEF GuardianProves, Guardian
    <3> QED BY <1>1, <3>1 DEF TypeOK
  <2>2. /\ state' \in [Attempts -> {"none", "ready", "freezing", "frozen", "released", "lost"}]
        /\ frozen' \in BOOLEAN
    <3>1. state' = state \/ state' = [state EXCEPT ![a] = "released"]
      BY DEF GuardianProves, Marks
    <3>2. frozen' = frozen \/ frozen' = FALSE
      BY Zenon DEF GuardianProves
    <3> QED BY <1>1, <3>1, <3>2 DEF TypeOK
  <2>3. UNCHANGED <<host, cmd, msg, helper>>
    BY DEF GuardianProves
  <2> QED BY <1>1, <2>1, <2>2, <2>3 DEF TypeOK, host, receipts
<1>4. \A b \in Attempts : b # a =>
        /\ helper'[b] = helper[b] /\ guardian'[b] = guardian[b] /\ state'[b] = state[b]
        /\ cmd'[b] = cmd[b] /\ msg'[b] = msg[b]
  BY <1>1 DEF GuardianProves, TypeOK, Guardian, Becomes, Ends, Marks
<1>5. HelperOK(a)'
  BY <1>1 DEF GuardianProves, TypeOK, HelperOK, Past, host, receipts, Guardian, Becomes, Ends,
       Marks
<1>6. /\ helper'[a] # "none"
      /\ helper'[a] = "starting" => helper[a] = "starting"
      /\ Past(a) => Past(a)'
      /\ helper'[a] = "frozen" => helper[a] = "freezing" \/ helper[a] = "frozen"
      /\ helper'[a] = "frozen" /\ clock[a] < 2
           => frozen' \/ (helper[a] = "frozen" /\ ~frozen)
  BY <1>1 DEF GuardianProves, TypeOK, HelperOK, SafeOK, Past, host, receipts, Guardian, Becomes,
       Ends, Marks
<1>7. /\ cmd'[a] \subseteq cmd[a]
      /\ "released" \in msg'[a] =>
           \/ "released" \in msg[a]
           \/ helper[a] \in {"ready", "frozen"} /\ "thaw" \in cmd[a]
      /\ Safe(a) => Safe(a)'
      /\ frozen' => state'[a] \in FrozenState \/ (frozen /\ state[a] \notin FrozenState)
  BY <1>1 DEF GuardianProves, TypeOK, HelperOK, Safe, FrozenState, Guardian, Becomes, Ends, Marks
<1> QED BY <1>2, <1>3, <1>4, <1>5, <1>6, <1>7 DEF GuestMove

LEMMA GuardianFailsMove == ASSUME Core, NEW a \in Attempts, GuardianFails(a) PROVE GuestMove(a)
<1>1. TypeOK /\ HelperOK(a) /\ SafeOK(a)
  BY DEF Core
<1>2. Active(a) /\ qemu = "running" /\ UNCHANGED host
  BY DEF GuardianFails, Active, Guardian
<1>3. TypeOK'
  BY <1>1 DEF GuardianFails, TypeOK, host, receipts, Guardian, Becomes, Ends, Marks
<1>4. \A b \in Attempts : b # a =>
        /\ helper'[b] = helper[b] /\ guardian'[b] = guardian[b] /\ state'[b] = state[b]
        /\ cmd'[b] = cmd[b] /\ msg'[b] = msg[b]
  BY <1>1 DEF GuardianFails, TypeOK, Guardian, Becomes, Ends, Marks
<1>5. HelperOK(a)'
  BY <1>1 DEF GuardianFails, TypeOK, HelperOK, Past, host, receipts, Guardian, Becomes, Ends,
       Marks
<1>6. /\ helper'[a] # "none"
      /\ helper'[a] = "starting" => helper[a] = "starting"
      /\ Past(a) => Past(a)'
      /\ helper'[a] = "frozen" => helper[a] = "freezing" \/ helper[a] = "frozen"
      /\ helper'[a] = "frozen" /\ clock[a] < 2
           => frozen' \/ (helper[a] = "frozen" /\ ~frozen)
  BY <1>1 DEF GuardianFails, TypeOK, HelperOK, SafeOK, Past, host, receipts, Guardian, Becomes,
       Ends, Marks
<1>7. frozen' => frozen
  BY Zenon DEF GuardianFails
<1>8. /\ cmd' = cmd /\ msg' = msg /\ state' = state
      /\ Safe(a) => Safe(a)'
  BY DEF GuardianFails, Safe
<1> QED BY <1>2, <1>3, <1>4, <1>5, <1>6, <1>7, <1>8 DEF GuestMove

\* Every step of a helper or of its guardian is such a move.
LEMMA GuestMoves ==
  ASSUME Core, NEW a \in Attempts, Helping(a) \/ Guarding(a) \/ GuardianFails(a)
  PROVE  GuestMove(a)
BY HelperStartsMove, HelperFreezesMove, HelperFrozenMove, HelperThawsMove, HelperHangsUpMove,
   HelperEndsMove, GuardianWakesMove, GuardianThawsMove, GuardianProvesMove, GuardianFailsMove
DEF Helping, Guarding

LEMMA GuestMoveCore == ASSUME Core, NEW a \in Attempts, GuestMove(a) PROVE Core'
<1>1. /\ TypeOK /\ OrderOK /\ WorkOK /\ Reached /\ PauseOK
      /\ HelperOK(a) /\ SafeOK(a)
      /\ UNCHANGED <<status, phase, abort, copy, published, w, clock, watch, open, qemu>>
  BY DEF Core, GuestMove, host, receipts
<1>2. helper[a] # "none"
  BY <1>1 DEF GuestMove, HelperOK, Active
<1>3. OrderOK' /\ WorkOK' /\ PauseOK'
  BY <1>1 DEF OrderOK, WorkOK, PauseOK, op, Pending
<1>4. w.at # "idle" => op \in Attempts
  BY <1>1, WorkFacts
<1>5. Reached'
  <2>1. CASE op = a
    BY <1>1, <1>2, <2>1 DEF GuestMove, Reached, WorkOK, op, At, Past
  <2>2. CASE op # a /\ w.at # "idle"
    BY <1>1, <1>4, <2>2 DEF GuestMove, Reached, op, At, Past
  <2>3. CASE w.at = "idle"
    BY <1>1, <2>3 DEF GuestMove, Reached, op, At
  <2> QED BY <2>1, <2>2, <2>3
<1>7. FrozenOK'
  <2> SUFFICES ASSUME frozen' PROVE \E b \in Attempts : state'[b] \in FrozenState
    BY DEF FrozenOK, FrozenState
  <2>1. CASE state'[a] \in FrozenState
    BY <2>1
  <2>2. CASE frozen /\ state[a] \notin FrozenState
    BY <2>2 DEF Core, GuestMove, FrozenOK, FrozenState
  <2> QED BY <2>1, <2>2 DEF GuestMove
<1>6. ASSUME NEW b \in Attempts PROVE HelperOK(b)' /\ SafeOK(b)'
  <2>1. HelperOK(b) /\ SafeOK(b)
    BY DEF Core
  <2>3. CASE b = a
    BY <1>1, <1>2, <2>3 DEF GuestMove, SafeOK, Past, Settleable
  <2>4. CASE b # a
    <3>1. HelperOK(b)'
      BY <1>1, <2>1, <2>4 DEF GuestMove, HelperOK, Past
    <3>2. SafeOK(b)'
      BY <1>1, <2>1, <2>4 DEF GuestMove, SafeOK, Safe
    <3> QED BY <3>1, <3>2
  <2> QED BY <2>3, <2>4
<1> QED BY <1>1, <1>3, <1>5, <1>6, <1>7 DEF Core, GuestMove

LEMMA OpenGuestCore == ASSUME Core, OpenGuest PROVE Core'
<1>1. /\ TypeOK /\ OrderOK /\ WorkOK /\ Reached /\ PauseOK
      /\ op \in Attempts /\ Pending(op) /\ w.at # "idle"
      /\ HelperOK(op) /\ SafeOK(op) /\ w.mode \in {"run", "undo", "recover"}
      /\ \A a \in Attempts : Pending(a) => a = op
  BY WorkFacts DEF Core, OpenGuest, At, TypeOK, Trying
<1>2. /\ w.at = "open" /\ w.mode = "run" /\ phase[op] = "preparing" /\ helper[op] = "none"
      /\ guardian[op] = "none" /\ state[op] = "none" /\ cmd[op] = {} /\ msg[op] = {}
  BY <1>1 DEF OpenGuest, WorkOK, Reached, HelperOK, At
<1>3. /\ w'.op = op /\ w'.at = "ready" /\ w'.mode = "run"
      /\ helper'[op] = "starting" /\ \A b \in Attempts : b # op => helper'[b] = helper[b]
      /\ UNCHANGED <<receipts, clock, watch, cmd, msg, qemu, frozen, guardian, state>>
  BY <1>1, <1>2 DEF OpenGuest, Goto, TypeOK, op
<1>4. TypeOK'
  BY <1>1 DEF OpenGuest, TypeOK, Goto, Places, receipts, op
<1>5. OrderOK' /\ WorkOK' /\ PauseOK'
  BY <1>1, <1>2, <1>3 DEF OrderOK, WorkOK, PauseOK, Pending, op, receipts
<1>6. Reached' /\ FrozenOK'
  BY <1>1, <1>2, <1>3 DEF Core, Reached, FrozenOK, Pending, op, At, receipts
<1>7. ASSUME NEW b \in Attempts PROVE HelperOK(b)' /\ SafeOK(b)'
  <2>1. HelperOK(b) /\ SafeOK(b)
    BY DEF Core
  <2>2. CASE b = op
    <3>1. /\ helper'[b] = "starting" /\ helper[b] = "none" /\ phase'[b] = "preparing"
          /\ guardian'[b] = "none" /\ state'[b] = "none" /\ cmd'[b] = {} /\ msg'[b] = {}
      BY <1>2, <1>3, <2>2 DEF receipts
    <3>2. HelperOK(b)'
      BY <3>1 DEF HelperOK, Past
    <3> QED BY <3>1, <3>2 DEF SafeOK, Safe
  <2>3. CASE b # op
    <3>1. HelperOK(b)'
      BY <1>3, <2>1, <2>3 DEF HelperOK, Past, receipts
    <3>2. SafeOK(b)'
      BY <1>3, <2>1, <2>3 DEF SafeOK, Safe, receipts
    <3> QED BY <3>1, <3>2
  <2> QED BY <2>2, <2>3
<1> QED BY <1>4, <1>5, <1>6, <1>7 DEF Core

\* The guest writes only where its file system is not frozen.
LEMMA GuestWritesCore == ASSUME Core, GuestWrites PROVE Core'
<1>1. /\ TypeOK /\ OrderOK /\ WorkOK /\ Reached /\ PauseOK
      /\ op \in Attempts /\ Pending(op) /\ w.at # "idle"
      /\ HelperOK(op) /\ SafeOK(op) /\ w.mode \in {"run", "undo", "recover"}
      /\ \A a \in Attempts : Pending(a) => a = op
  BY WorkFacts DEF Core, GuestWrites, At, TypeOK, Trying
<1>2. /\ w.at = "copying" /\ w.mode = "run" /\ phase[op] = "copying" /\ ~frozen /\ copy' = "mixed"
      /\ UNCHANGED <<status, phase, abort, published, w, clock, watch, channel, qemu, guest>>
  BY <1>1 DEF GuestWrites, WorkOK, Reached, At
<1>3. TypeOK'
  BY <1>1, <1>2 DEF TypeOK, channel, guest
<1>4. OrderOK' /\ WorkOK' /\ PauseOK' /\ Reached'
  BY <1>1, <1>2 DEF OrderOK, WorkOK, PauseOK, Reached, Past, Pending, op, At, channel,
         guest
<1> QED BY <1>2, <1>3, <1>4, HostStep DEF channel

LEMMA GuestEndsCore == ASSUME Core, GuestReboots \/ QemuExits PROVE Core'
<1>1. /\ TypeOK /\ OrderOK /\ WorkOK /\ Reached /\ PauseOK
  BY DEF Core
<1>2. /\ ~frozen'
      /\ \A a \in Attempts :
           /\ helper'[a] = IF helper[a] = "none" THEN "none" ELSE "gone"
           /\ guardian'[a] = IF guardian[a] = "none" THEN "none" ELSE "gone"
           /\ state'[a] = IF state[a] = "none" THEN "none" ELSE "lost"
           /\ cmd'[a] = {}
      /\ qemu' \in {qemu, "exited"}
      /\ UNCHANGED <<receipts, w, clock, watch, open, msg>>
  <2>1. GuestEnds /\ qemu' \in {qemu, "exited"}
    BY DEF GuestReboots, QemuExits
  <2> QED BY <1>1, <2>1 DEF GuestEnds, TypeOK
<1>3. TypeOK'
  <2>1. GuestEnds /\ qemu' \in {qemu, "exited"}
    BY DEF GuestReboots, QemuExits
  <2>2. /\ helper' \in [Attempts -> {"none", "starting", "ready", "freezing", "frozen", "dying", "final", "gone"}]
        /\ guardian' \in [Attempts -> {"none", "watching", "thawing", "proving", "gone"}]
        /\ state' \in [Attempts -> {"none", "ready", "freezing", "frozen", "released", "lost"}]
    BY <2>1 DEF GuestEnds
  <2>3. cmd' \in [Attempts -> SUBSET {"freeze", "thaw"}] /\ frozen' \in BOOLEAN
    BY <2>1 DEF GuestEnds
  <2> QED BY <1>1, <1>2, <2>1, <2>2, <2>3 DEF TypeOK, receipts
<1>4. OrderOK' /\ WorkOK' /\ PauseOK' /\ FrozenOK'
  BY <1>1, <1>2 DEF OrderOK, WorkOK, PauseOK, FrozenOK, Pending, op, receipts
<1>5. Reached'
  <2>1. CASE w.at # "idle"
    BY <1>1, <1>2, <2>1, WorkFacts DEF Reached, Past, Pending, op, At, receipts
  <2>2. CASE w.at = "idle"
    BY <1>1, <1>2, <2>2 DEF Reached, Pending, op, At, receipts
  <2> QED BY <2>1, <2>2
<1>6. ASSUME NEW a \in Attempts PROVE HelperOK(a)' /\ SafeOK(a)'
  <2>1. HelperOK(a) /\ SafeOK(a)
    BY DEF Core
  <2>2. HelperOK(a)'
    BY <1>2, <2>1 DEF HelperOK, Past, receipts
  <2>3. SafeOK(a)'
    BY <1>2, <2>1 DEF SafeOK, Safe
  <2> QED BY <2>2, <2>3
<1> QED BY <1>3, <1>4, <1>5, <1>6 DEF Core

-----------------------------------------------------------------------------
(* The first state, and every step. *)

LEMMA InitCore == Init => Core
<1> SUFFICES ASSUME Init PROVE Core
  OBVIOUS
<1>1. TypeOK
  <2>1. w \in [op : Attempts \cup {0}, at : Places, mode : {"run", "undo", "recover"}]
    BY DEF Init, NoWork, Places
  <2>2. clock \in [Attempts -> 0 .. 2]
    BY DEF Init
  <2> QED BY <2>1, <2>2 DEF Init, TypeOK, Phases
<1>2. OrderOK /\ WorkOK /\ Reached /\ PauseOK /\ FrozenOK
  BY DEF Init, NoWork, op, At, Pending, OrderOK, WorkOK, Reached, PauseOK, FrozenOK
<1>3. \A a \in Attempts : HelperOK(a) /\ SafeOK(a)
  BY DEF Init, HelperOK, SafeOK, Past, Safe
<1> QED BY <1>1, <1>2, <1>3 DEF Core

\* Every step of the coordinator, the watchdogs, the helpers and their
\* guardians, and every crash, reboot and exit keeps the core.
LEMMA NextCore == ASSUME Core, [Next]_vars PROVE Core'
<1>1. ASSUME NEW a \in Attempts, Submit(a) \/ Resubmit(a) PROVE Core'
  BY <1>1, SubmitCore, ResubmitCore
<1>2. ASSUME NEW a \in Attempts, Watching(a) \/ WatchdogDies(a) \/ Tick(a) PROVE Core'
  BY <1>2, WatchdogCore, TickCore
<1>3. ASSUME NEW a \in Attempts, Helping(a) \/ Guarding(a) \/ GuardianFails(a) PROVE Core'
  BY <1>3, GuestMoves, GuestMoveCore
<1>4. CASE Coordinate
  BY <1>4, BeginCore, StartWatchdogCore, OpenGuestCore, ReadyCore, SendFreezeCore, FrozenCore,
     StopCore, CheckPausedCore, BeginCopyCore, EndCopyCore, ContinueCore, SendThawCore,
     ReleasedCore, SealCore, SealedCore, AnswerCore, AbortCore, LookCore, ProofCore
  DEF Coordinate
<1>5. CASE Trouble \/ Misread \/ Crash \/ GuestWrites \/ GuestReboots \/ QemuExits
  BY <1>5, TroubleCore, MisreadCore, CrashCore, GuestWritesCore, GuestEndsCore
<1>6. CASE UNCHANGED vars
  <2>1. UNCHANGED <<w, qemu, clock, watch>> /\ UNCHANGED receipts /\ UNCHANGED channel
        /\ UNCHANGED guest
    BY <1>6 DEF vars
  <2>2. TypeOK'
    BY <2>1 DEF Core, TypeOK, receipts, channel, guest
  <2>3. OrderOK' /\ WorkOK' /\ Reached' /\ PauseOK'
    BY <2>1 DEF Core, OrderOK, WorkOK, Reached, PauseOK, Past, op, At, Pending, receipts,
                channel, guest
  <2> QED BY <2>1, <2>2, <2>3, HostStep DEF receipts, channel
<1> QED BY <1>1, <1>2, <1>3, <1>4, <1>5, <1>6 DEF Next

-----------------------------------------------------------------------------
(* The copy.  A freeze that was heard of lasts until its own attempt ends   *)
(* it, as long as no process of another attempt is left to thaw.            *)

\* While a helper holds the file system frozen it is the only attempt with a
\* process in the guest.
Apart == \A a, b \in Attempts : helper[a] = "frozen" /\ Active(b) => a = b

\* A helper that froze the file system knows that it is frozen, until the
\* deadline at which its guardian thaws.
FreshOK == \A a \in Attempts : helper[a] = "frozen" /\ clock[a] < 2 => frozen

\* The copy is whole while the freeze that it was begun under lasts.
CopyOK ==
  /\ w.mode = "run" /\ At("copying") /\ clock[op] = 0 /\ helper[op] = "frozen" => copy = "whole"
  /\ /\ w.mode = "run" /\ w.at \in {"cont", "thaw", "released"} /\ clock[op] = 0
     /\ helper[op] = "frozen" \/ "released" \in msg[op]
     => copy = "whole"
  /\ \A a \in Attempts : Pending(a) /\ phase[a] \in {"released", "sealed"} => copy = "whole"

WholeOK == FreshOK /\ CopyOK /\ PublishedIsWhole

IInv == Core /\ WholeOK

\* Places at which the worth of the copy matters to the worker.
Copying == {"copying", "cont", "thaw", "released"}

\* A step that begins, ends and publishes no copy, and frees nothing.
LEMMA QuietStep ==
  ASSUME WholeOK, UNCHANGED <<published, clock, frozen>>,
         \A a \in Attempts : helper'[a] = "frozen" => helper[a] = "frozen",
         w'.mode = "run" => w'.at \notin Copying,
         \A a \in Attempts : Pending(a)' /\ phase'[a] \in {"released", "sealed"} =>
           Pending(a) /\ phase[a] \in {"released", "sealed"} /\ copy' = copy
  PROVE  WholeOK'
<1>1. FreshOK' /\ PublishedIsWhole'
  BY DEF WholeOK, FreshOK, PublishedIsWhole
<1>2. CopyOK'
  BY DEF WholeOK, CopyOK, At, Copying
<1> QED BY <1>1, <1>2 DEF WholeOK

\* Most of what the worker does is quiet.
LEMMA WorkerQuiet ==
  ASSUME Core, WholeOK,
         \/ Begin \/ StartWatchdog \/ OpenGuest \/ Ready \/ SendFreeze \/ Frozen \/ Stop
         \/ CheckPaused \/ Sealed \/ Complete \/ Fail \/ Abort \/ Look \/ Proof \/ Trouble
         \/ Misread
  PROVE  WholeOK'
<1>1. /\ TypeOK /\ OrderOK /\ WorkOK /\ Reached
      /\ op \in Attempts /\ Pending(op) /\ w.at # "idle"
      /\ \A a \in Attempts : Pending(a) => a = op
  BY WorkFacts DEF Core, Begin, StartWatchdog, OpenGuest, Ready, SendFreeze, Frozen, Stop,
     CheckPaused, Sealed, Complete, Fail, Abort, Look, Proof, Trouble, Misread, At, Trying
<1>2. CASE Begin
  <2>1. w'.at \notin Copying
    BY <1>1, <1>2 DEF Begin, Fails, Goto, TypeOK, Copying
  <2>2. \A a \in Attempts : phase'[a] \in {"released", "sealed"} =>
          phase[a] \in {"released", "sealed"}
    BY <1>1, <1>2 DEF Begin, Fails, Phase, TypeOK
  <2> QED BY <1>1, <1>2, <2>1, <2>2, QuietStep DEF Begin, Pending, guest
<1>3. CASE StartWatchdog \/ SendFreeze \/ Stop
  <2>1. w'.at \notin Copying
    BY <1>1, <1>3 DEF StartWatchdog, SendFreeze, Stop, Goto, TypeOK, Copying
  <2> QED BY <1>3, <2>1, QuietStep DEF StartWatchdog, SendFreeze, Stop, Pending, receipts, guest
<1>4. CASE OpenGuest
  <2>1. w'.at \notin Copying
    BY <1>1, <1>4 DEF OpenGuest, Goto, TypeOK, Copying
  <2>2. \A a \in Attempts : helper'[a] = "frozen" => helper[a] = "frozen"
    BY <1>1, <1>4 DEF OpenGuest, TypeOK
  <2> QED BY <1>4, <2>1, <2>2, QuietStep DEF OpenGuest, Pending, receipts
<1>5. CASE Ready \/ Frozen \/ CheckPaused \/ Sealed \/ Look \/ Proof
  <2>1. w'.mode = "run" => w'.at \notin Copying
    BY <1>1, <1>5 DEF Ready, Frozen, CheckPaused, Sealed, Look, Proof, Fails, Goto, TypeOK, WorkOK, At,
       Copying
  <2>2. \A a \in Attempts : phase'[a] \in {"released", "sealed"} =>
          phase[a] \in {"released", "sealed"}
    BY <1>1, <1>5
    DEF Ready, Frozen, CheckPaused, Sealed, Look, Proof, Fails, Phase, TypeOK, Reached, At
  <2> QED BY <1>5, <2>1, <2>2, QuietStep
          DEF Ready, Frozen, CheckPaused, Sealed, Look, Proof, Pending, guest
<1>6. CASE Complete \/ Fail
  <2>1. \A a \in Attempts : ~Pending(a)'
    BY <1>1, <1>6 DEF Complete, Fail, Pending, TypeOK
  <2> QED BY <1>6, <2>1, QuietStep DEF Complete, Fail, NoWork, Copying, guest
<1>7. CASE Abort \/ Trouble \/ Misread
  <2>1. w'.mode = "run" => w'.at \notin Copying
    BY <1>1, <1>7
    DEF Abort, Trouble, Misread, LeavePending, NoWork, Goto, TypeOK, WorkOK, At, Copying
  <2> QED BY <1>7, <2>1, QuietStep DEF Abort, Trouble, Misread, Pending, receipts, guest
<1> QED BY <1>2, <1>3, <1>4, <1>5, <1>6, <1>7

LEMMA RequestsQuiet ==
  ASSUME Core, WholeOK, Crash \/ \E a \in Attempts : Submit(a) \/ Resubmit(a)
  PROVE  WholeOK'
<1>1. CASE Crash
  BY <1>1, QuietStep DEF Crash, NoWork, Copying, Pending, receipts, guest
<1>2. ASSUME NEW a \in Attempts, Resubmit(a) PROVE WholeOK'
  BY <1>2, QuietStep DEF Resubmit, Copying, Pending, receipts, guest
<1>3. ASSUME NEW a \in Attempts, Submit(a) PROVE WholeOK'
  <2>1. phase[a] = "none" /\ \A b \in Attempts : b # a => status'[b] = status[b]
    BY <1>3 DEF Core, OrderOK, TypeOK, Submit
  <2> QED BY <1>3, <2>1, QuietStep DEF Submit, Copying, Pending, guest
<1> QED BY <1>1, <1>2, <1>3

\* The copy from its first byte to its publication.
LEMMA CopyWhole ==
  ASSUME Core, WholeOK, BeginCopy \/ EndCopy \/ Continue \/ SendThaw \/ Released \/ Seal
  PROVE  WholeOK'
<1>1. /\ TypeOK /\ OrderOK /\ WorkOK /\ Reached
      /\ op \in Attempts /\ Pending(op) /\ w.at # "idle"
      /\ \A a \in Attempts : Pending(a) => a = op
  BY WorkFacts DEF Core, BeginCopy, EndCopy, Continue, SendThaw, Released, Seal, At
<1>2. FreshOK'
  BY DEF WholeOK, FreshOK, BeginCopy, EndCopy, Continue, SendThaw, Released, Seal, guest
<1>3. PublishedIsWhole'
  <2>1. CASE Seal
    BY <1>1, <2>1 DEF WholeOK, CopyOK, PublishedIsWhole, Seal, TypeOK
  <2>2. CASE ~Seal
    BY <2>2 DEF WholeOK, PublishedIsWhole, BeginCopy, EndCopy, Continue, SendThaw, Released,
       receipts
  <2> QED BY <2>1, <2>2
<1>4. CopyOK'
  <2>1. CASE BeginCopy
    <3>1. /\ w.at = "copy" /\ w'.at = "copying" /\ phase[op] = "copying" /\ clock[op] = 0
          /\ frozen => copy' = "whole"
          /\ UNCHANGED <<status, phase, clock, helper>>
      BY <1>1, <2>1 DEF BeginCopy, Valid, WorkOK, Reached, At, Goto, TypeOK, guest
    <3> QED BY <1>1, <2>1, <3>1 DEF BeginCopy, WholeOK, FreshOK, CopyOK, Goto, TypeOK, Pending,
            op, At
  <2>2. CASE EndCopy
    <3>1. /\ w.at = "copying" /\ w.mode = "run" /\ w'.at = "cont" /\ w'.op = op
          /\ clock[op] = 0 /\ phase'[op] = "resuming" /\ "released" \notin msg[op]
          /\ \A a \in Attempts : a # op => phase'[a] = phase[a]
          /\ UNCHANGED <<status, copy, clock, helper, msg>>
      BY <1>1, <2>2 DEF EndCopy, Valid, WorkOK, Reached, At, Goto, Phase, TypeOK, channel, guest,
         op
    <3> QED BY <1>1, <3>1 DEF WholeOK, CopyOK, Pending, op, At
  <2>3. CASE Continue
    <3>1. /\ w.at = "cont" /\ w'.at \in {"thaw", "proof"} /\ w'.op = op /\ w'.mode = w.mode
          /\ UNCHANGED <<status, phase, copy, clock, helper, msg>>
      BY <1>1, <2>3 DEF Continue, At, Goto, TypeOK, receipts, channel, guest, op
    <3> QED BY <1>1, <3>1 DEF WholeOK, CopyOK, Pending, op, At
  <2>4. CASE SendThaw
    <3>1. /\ w.at = "thaw" /\ w'.at = "released" /\ w'.op = op /\ w'.mode = w.mode
          /\ UNCHANGED <<status, phase, copy, clock, helper, msg>>
      BY <1>1, <2>4 DEF SendThaw, At, Goto, TypeOK, receipts, guest, op
    <3> QED BY <1>1, <3>1 DEF WholeOK, CopyOK, Pending, op, At
  <2>5. CASE Released
    <3>1. /\ w.at = "released" /\ "released" \in msg[op] /\ w'.at \in {"seal", "fail"}
          /\ phase'[op] = "released" => w.mode # "undo" /\ clock[op] = 0
          /\ phase'[op] # "sealed"
          /\ UNCHANGED <<status, copy, clock>>
          /\ \A a \in Attempts : a # op => phase'[a] = phase[a]
      BY <1>1, <2>5 DEF Released, Receive, Valid, At, Goto, Phase, TypeOK, guest
    <3>2. phase'[op] = "released" => copy = "whole"
      BY <1>1, <3>1 DEF WholeOK, CopyOK, WorkOK, TypeOK
    <3> QED BY <1>1, <3>1, <3>2 DEF WholeOK, CopyOK, Pending, At
  <2>6. CASE Seal
    <3>1. w'.at = "sealed" /\ UNCHANGED <<status, phase, copy>>
      BY <1>1, <2>6 DEF Seal, Goto, TypeOK
    <3> QED BY <3>1 DEF WholeOK, CopyOK, Pending, At
  <2> QED BY <2>1, <2>2, <2>3, <2>4, <2>5, <2>6
<1> QED BY <1>2, <1>3, <1>4 DEF WholeOK

LEMMA WatchdogWhole ==
  ASSUME WholeOK, NEW a \in Attempts, Watching(a) \/ WatchdogDies(a)
  PROVE  WholeOK'
<1>1. UNCHANGED <<status, phase, copy, published, w, clock, msg, frozen, helper>>
  BY Zenon DEF Watching, WatchdogBreaks, WatchdogAborts, WatchdogContinues, WatchdogQueries,
     WatchdogCloses, WatchdogDies, receipts, channel, guest
<1> QED BY <1>1 DEF WholeOK, FreshOK, CopyOK, PublishedIsWhole, Pending, op, At

LEMMA TickWhole == ASSUME Core, WholeOK, NEW a \in Attempts, Tick(a) PROVE WholeOK'
<1>1. /\ \A b \in Attempts : /\ clock'[b] = 0 => clock[b] = 0
                             /\ clock'[b] < 2 => clock[b] < 2
      /\ UNCHANGED <<status, phase, copy, published, w, msg, frozen, helper>>
  BY DEF Core, TypeOK, Tick, receipts, channel, guest
<1>2. FreshOK' /\ PublishedIsWhole'
  BY <1>1 DEF WholeOK, FreshOK, PublishedIsWhole
<1>3. CopyOK'
  <2>1. w.at # "idle" => op \in Attempts
    BY WorkFacts DEF Core
  <2> QED BY <1>1, <2>1 DEF WholeOK, CopyOK, Pending, op, At
<1> QED BY <1>2, <1>3 DEF WholeOK

LEMMA GuestMoveWhole ==
  ASSUME Core, WholeOK, Apart, NEW a \in Attempts, GuestMove(a)
  PROVE  WholeOK'
<1>1. /\ TypeOK /\ WorkOK /\ Reached
      /\ w.at # "idle" => op \in Attempts
      /\ UNCHANGED <<status, phase, copy, published, w, clock>>
  BY WorkFacts DEF Core, GuestMove, host, receipts
<1>2. PublishedIsWhole'
  BY <1>1 DEF WholeOK, PublishedIsWhole
<1>3. FreshOK'
  <2> SUFFICES ASSUME NEW b \in Attempts, helper'[b] = "frozen", clock[b] < 2 PROVE frozen'
    BY <1>1 DEF FreshOK
  <2>1. CASE b = a
    BY <2>1 DEF GuestMove, WholeOK, FreshOK
  <2>2. CASE b # a
    BY <2>2 DEF GuestMove, Apart
  <2> QED BY <2>1, <2>2
<1>4. CopyOK'
  <2>1. CASE op = a
    BY <1>1, <2>1 DEF GuestMove, WholeOK, CopyOK, Reached, WorkOK, op, At, Past, Pending
  <2>2. CASE op # a /\ w.at # "idle"
    BY <1>1, <2>2 DEF GuestMove, WholeOK, CopyOK, op, At, Pending
  <2>3. CASE w.at = "idle"
    BY <1>1, <2>3 DEF WholeOK, CopyOK, op, At, Pending
  <2> QED BY <2>1, <2>2, <2>3
<1> QED BY <1>2, <1>3, <1>4 DEF WholeOK

\* The guest writes only where its file system is not frozen.
LEMMA GuestWritesWhole == ASSUME Core, WholeOK, GuestWrites PROVE WholeOK'
<1>1. /\ w.at = "copying" /\ w.mode = "run" /\ phase[op] = "copying" /\ ~frozen
      /\ op \in Attempts /\ \A a \in Attempts : Pending(a) => a = op
      /\ UNCHANGED <<status, phase, published, w, clock, frozen, helper>>
  BY WorkFacts DEF Core, TypeOK, WorkOK, GuestWrites, Reached, At, guest
<1>2. FreshOK' /\ PublishedIsWhole'
  BY <1>1 DEF WholeOK, FreshOK, PublishedIsWhole
<1>3. CopyOK'
  <2>1. clock[op] = 0 => helper[op] # "frozen"
    BY <1>1 DEF WholeOK, FreshOK
  <2> QED BY <1>1, <2>1 DEF CopyOK, Pending, op, At
<1> QED BY <1>2, <1>3 DEF WholeOK

LEMMA GuestEndsWhole == ASSUME Core, WholeOK, GuestReboots \/ QemuExits PROVE WholeOK'
<1>1. /\ \A a \in Attempts : helper'[a] # "frozen"
      /\ UNCHANGED <<status, phase, copy, published, w, clock, msg>>
  BY DEF Core, TypeOK, GuestReboots, QemuExits, GuestEnds, receipts
<1>2. w.at # "idle" => op \in Attempts
  BY WorkFacts DEF Core
<1> QED BY <1>1, <1>2 DEF WholeOK, FreshOK, CopyOK, PublishedIsWhole, Pending, op, At

LEMMA NextIInv == ASSUME IInv, Apart, [Next]_vars PROVE IInv'
<1>1. Core /\ WholeOK /\ Core'
  BY NextCore DEF IInv
<1> SUFFICES WholeOK'
  BY <1>1 DEF IInv
<1>2. ASSUME NEW a \in Attempts, Helping(a) \/ Guarding(a) \/ GuardianFails(a) PROVE WholeOK'
  BY <1>1, <1>2, GuestMoves, GuestMoveWhole
<1>3. ASSUME NEW a \in Attempts, Watching(a) \/ WatchdogDies(a) \/ Tick(a) PROVE WholeOK'
  BY <1>1, <1>3, WatchdogWhole, TickWhole
<1>4. CASE Coordinate \/ Trouble \/ Misread
  BY <1>1, <1>4, WorkerQuiet, CopyWhole DEF Coordinate
<1>5. CASE GuestWrites \/ GuestReboots \/ QemuExits
  BY <1>1, <1>5, GuestWritesWhole, GuestEndsWhole
<1>6. CASE Crash \/ \E a \in Attempts : Submit(a) \/ Resubmit(a)
  BY <1>1, <1>6, RequestsQuiet
<1>7. CASE UNCHANGED vars
  BY <1>1, <1>7
  DEF WholeOK, FreshOK, CopyOK, PublishedIsWhole, Pending, op, At, vars, receipts, channel, guest
<1> QED BY <1>2, <1>3, <1>4, <1>5, <1>6, <1>7 DEF Next

-----------------------------------------------------------------------------
(* Without lingering guest processes the attempts are apart.                *)

\* What an earlier attempt left in the guest is gone before a later one has a
\* helper.
Single == \A a, b \in Attempts : b < a /\ helper[a] # "none" => ~Active(b)

LEMMA SingleIsApart == ASSUME Core, Single PROVE Apart
<1> SUFFICES ASSUME NEW a \in Attempts, NEW b \in Attempts, helper[a] = "frozen", Active(b), a # b
             PROVE  FALSE
  BY DEF Apart
<1>1. helper[b] # "none"
  BY DEF Core, HelperOK, Active
<1>2. a < b \/ b < a
  BY LastAssumption DEF Attempts
<1> QED BY <1>1, <1>2 DEF Single, Active

LEMMA SingleKept ==
  ASSUME Single,
         \A a \in Attempts : (helper'[a] # "none" => helper[a] # "none") /\ (Active(a)' => Active(a))
  PROVE  Single'
BY DEF Single

LEMMA NextSingle == ASSUME Core, Single, "linger" \notin Faults, [Next]_vars PROVE Single'
<1>1. CASE UNCHANGED <<helper, guardian>>
  BY <1>1, SingleKept DEF Active
<1>2. ASSUME NEW a \in Attempts, GuestMove(a) PROVE Single'
  <2>1. helper[a] # "none"
    BY <1>2 DEF GuestMove, Core, HelperOK, Active
  <2>2. \A b \in Attempts : b # a => helper'[b] = helper[b] /\ (Active(b)' <=> Active(b))
    BY <1>2 DEF GuestMove, Active
  <2> QED BY <1>2, <2>1, <2>2, SingleKept DEF GuestMove
<1>3. CASE GuestReboots \/ QemuExits
  <2>1. \A a \in Attempts : ~Active(a)' /\ (helper'[a] # "none" => helper[a] # "none")
    BY <1>3 DEF Core, TypeOK, GuestReboots, QemuExits, GuestEnds, Active
  <2> QED BY <2>1 DEF Single
<1>4. CASE OpenGuest
  <2>1. /\ TypeOK /\ OrderOK /\ op \in Attempts /\ Pending(op)
        /\ helper'[op] = "starting" /\ \A b \in Attempts : b # op => helper'[b] = helper[b]
        /\ UNCHANGED guardian
    BY <1>4, WorkFacts DEF Core, OpenGuest, At, TypeOK
  <2>2. \A b \in Attempts : b < op => ~Active(b)
    BY <1>4, <2>1, LastAssumption DEF OpenGuest, Lingering, Active, Attempts
  <2>3. \A b \in Attempts : op < b => helper[b] = "none"
    <3> SUFFICES ASSUME NEW b \in Attempts, op < b PROVE helper[b] = "none"
      OBVIOUS
    <3>1. op \in 1 .. (b - 1)
      BY <2>1, LastAssumption DEF Attempts
    <3>2. status[b] = "none"
      BY <2>1, <3>1 DEF OrderOK, Pending
    <3> QED BY <3>2 DEF Core, OrderOK, HelperOK
  <2>4. SUFFICES ASSUME NEW a \in Attempts, NEW b \in Attempts, b < a, helper'[a] # "none"
                 PROVE  ~Active(b)'
    BY DEF Single
  <2>5. b # op
    BY <2>1, <2>3, <2>4, LastAssumption DEF Attempts
  <2> QED BY <2>1, <2>2, <2>4, <2>5 DEF Single, Active
<1>5. ASSUME NEW a \in Attempts,
             \/ Submit(a) \/ Resubmit(a) \/ Watching(a) \/ WatchdogDies(a) \/ Tick(a)
      PROVE  UNCHANGED <<helper, guardian>>
  BY <1>5, Zenon DEF Submit, Resubmit, Watching, WatchdogBreaks, WatchdogAborts,
     WatchdogContinues, WatchdogQueries, WatchdogCloses, WatchdogDies, Tick, guest
<1>6. ASSUME Coordinate \/ Trouble \/ Misread \/ Crash \/ GuestWrites, ~OpenGuest
      PROVE  UNCHANGED <<helper, guardian>>
  BY <1>6, Zenon DEF Coordinate, Begin, StartWatchdog, Ready, SendFreeze, Frozen, Stop, CheckPaused,
     BeginCopy, EndCopy, Continue, SendThaw, Released, Seal, Sealed, Complete, Fail, Abort, Look,
     Proof, Trouble, Misread, Crash, GuestWrites, guest
<1>7. CASE UNCHANGED vars
  BY <1>1, <1>7 DEF vars, guest
<1> QED BY <1>1, <1>2, <1>3, <1>4, <1>5, <1>6, <1>7, GuestMoves DEF Next

-----------------------------------------------------------------------------
(* Who will end what an attempt holds up.                                   *)

\* An attempt that may freeze the guest, or has, has a guardian in it.
Guarded(a) ==
  state[a] \in {"ready", "freezing", "frozen"} => guardian[a] \in {"watching", "thawing", "proving"}

LEMMA GuestGuarded ==
  ASSUME Core, NEW a \in Attempts, Guarded(a), Helping(a) \/ Guarding(a) \/ GuardianFails(a)
  PROVE  Guarded(a)'
<1>1. /\ TypeOK
      /\ helper[a] = "ready" => state[a] = "ready"
      /\ helper[a] \in {"freezing", "dying"} => state[a] = "freezing"
  BY DEF Core, HelperOK
<1>2. CASE HelperStarts(a)
  BY <1>1, <1>2 DEF HelperStarts, Marks, Guarded, TypeOK
<1>3. CASE HelperFreezes(a) \/ HelperFrozen(a)
  BY <1>1, <1>3 DEF HelperFreezes, HelperFrozen, Marks, Guarded, TypeOK
<1>4. CASE HelperThaws(a) \/ HelperHangsUp(a) \/ HelperEnds(a)
  BY <1>1, <1>4 DEF HelperThaws, HelperHangsUp, HelperEnds, Marks, Guarded, TypeOK
<1>5. CASE GuardianWakes(a) \/ GuardianThaws(a)
  BY <1>1, <1>5 DEF GuardianWakes, GuardianThaws, Guardian, Guarded, TypeOK
<1>6. CASE GuardianProves(a) \/ GuardianFails(a)
  <2>1. \/ guardian' = [guardian EXCEPT ![a] = "watching"]
        \/ state' = [state EXCEPT ![a] = "released"]
    BY <1>6 DEF GuardianProves, GuardianFails, Guardian, Marks
  <2> QED BY <1>1, <2>1 DEF Guarded, TypeOK
<1> QED BY <1>2, <1>3, <1>4, <1>5, <1>6 DEF Helping, Guarding

LEMMA NextGuarded ==
  ASSUME Core, \A a \in Attempts : Guarded(a), [Next]_vars
  PROVE  \A a \in Attempts : Guarded(a)'
<1>1. CASE UNCHANGED <<guardian, state>>
  BY <1>1 DEF Guarded
<1>2. ASSUME NEW a \in Attempts, Helping(a) \/ Guarding(a) \/ GuardianFails(a)
      PROVE  \A b \in Attempts : Guarded(b)'
  <2>1. Guarded(a)'
    BY <1>2, GuestGuarded
  <2>2. \A b \in Attempts : b # a => guardian'[b] = guardian[b] /\ state'[b] = state[b]
    BY <1>2, GuestMoves DEF GuestMove
  <2> QED BY <2>1, <2>2 DEF Guarded
<1>3. CASE GuestReboots \/ QemuExits
  BY <1>3 DEF GuestReboots, QemuExits, GuestEnds, Guarded
<1>4. ASSUME NEW a \in Attempts,
             \/ Submit(a) \/ Resubmit(a) \/ Watching(a) \/ WatchdogDies(a) \/ Tick(a)
      PROVE  UNCHANGED <<guardian, state>>
  BY <1>4, Zenon DEF Submit, Resubmit, Watching, WatchdogBreaks, WatchdogAborts,
     WatchdogContinues, WatchdogQueries, WatchdogCloses, WatchdogDies, Tick, guest
<1>5. ASSUME Coordinate \/ Trouble \/ Misread \/ Crash \/ GuestWrites
      PROVE  UNCHANGED <<guardian, state>>
  BY <1>5, Zenon DEF Coordinate, Begin, StartWatchdog, OpenGuest, Ready, SendFreeze, Frozen, Stop,
     CheckPaused, BeginCopy, EndCopy, Continue, SendThaw, Released, Seal, Sealed, Complete, Fail,
     Abort, Look, Proof, Trouble, Misread, Crash, GuestWrites, guest
<1>6. CASE UNCHANGED vars
  BY <1>1, <1>6 DEF vars, guest
<1> QED BY <1>1, <1>2, <1>3, <1>4, <1>5, <1>6 DEF Next

-----------------------------------------------------------------------------
(* What is answered, as long as a worker can read what it needs.            *)

Answered(a) == status[a] \in {"completed", "failed"}

\* An answer is given, and about to be given, only about a guest that runs and
\* that the attempt neither holds frozen nor will freeze.
Settled ==
  /\ \A a \in Attempts : Answered(a) => Safe(a)
  /\ At("fail") => Safe(op) /\ qemu # "paused"
  /\ qemu = "paused" => \E a \in Attempts : Pending(a) /\ phase[a] \in Pausing

\* A step that pauses nothing, and answers only what is safe.
LEMMA SettledStep ==
  ASSUME Core, Settled,
         \A a \in Attempts : Safe(a) => Safe(a)',
         \A a \in Attempts : Answered(a)' => Answered(a) \/ Safe(a),
         At("fail")' => (At("fail") /\ op' = op) \/ (op' \in Attempts /\ Safe(op')),
         qemu' = "paused" =>
           /\ qemu = "paused" /\ ~At("fail")'
           /\ \A a \in Attempts : Pending(a) /\ phase[a] \in Pausing =>
                Pending(a)' /\ phase'[a] \in Pausing
  PROVE  Settled'
<1>1. \A a \in Attempts : Answered(a)' => Safe(a)'
  BY DEF Settled
<1>2. ASSUME At("fail")' PROVE Safe(op)' /\ qemu' # "paused"
  <2>1. op' \in Attempts /\ Safe(op')
    <3>1. At("fail") => op \in Attempts
      BY WorkFacts DEF Core, At
    <3> QED BY <1>2, <3>1 DEF Settled
  <2>2. \A a \in Attempts : op' = a /\ Safe(a) => Safe(op)'
    BY DEF Safe
  <2> QED BY <1>2, <2>1, <2>2
<1>3. qemu' = "paused" => \E a \in Attempts : Pending(a)' /\ phase'[a] \in Pausing
  BY DEF Settled
<1> QED BY <1>1, <1>2, <1>3 DEF Settled

LEMMA RequestSettled ==
  ASSUME Core, Settled, NEW a \in Attempts, Submit(a) \/ Resubmit(a)
  PROVE  Settled'
<1>1. /\ TypeOK /\ UNCHANGED <<phase, qemu, state, cmd>> /\ ~At("fail")'
      /\ \A b \in Attempts : status'[b] \in {status[b], "pending"}
  BY DEF Core, TypeOK, Submit, Resubmit, receipts, channel, guest, At
<1>2. \A b \in Attempts : (Pending(b) => Pending(b)') /\ (Answered(b)' => Answered(b))
  BY <1>1 DEF Pending, Answered
<1> QED BY <1>1, <1>2, SettledStep DEF Safe

\* The steps of a worker that has paused QEMU, and of one that sends a freeze.
LEMMA HoldSettled ==
  ASSUME Core, Settled, SendFreeze \/ Stop
  PROVE  Settled'
<1>1. /\ TypeOK /\ op \in Attempts /\ Pending(op) /\ w.at \in {"freeze", "stop"} /\ w.mode = "run"
      /\ Reached
  BY WorkFacts DEF Core, TypeOK, WorkOK, SendFreeze, Stop, At
<1>2. /\ UNCHANGED <<status, phase, state>> /\ ~At("fail")'
      /\ \A a \in Attempts : a # op => cmd'[a] = cmd[a]
      /\ qemu' = "paused" => qemu = "paused" \/ w.at = "stop"
  BY <1>1 DEF SendFreeze, Stop, Sends, Goto, TypeOK, At, receipts, channel, guest
<1>3. \A a \in Attempts : Answered(a)' => Safe(a)'
  <2> SUFFICES ASSUME NEW a \in Attempts, Answered(a)' PROVE Safe(a)'
    OBVIOUS
  <2>1. Answered(a) /\ a # op
    BY <1>1, <1>2 DEF Answered, Pending
  <2> QED BY <1>2, <2>1 DEF Settled, Safe
<1>4. qemu' = "paused" => \E a \in Attempts : Pending(a)' /\ phase'[a] \in Pausing
  <2>1. CASE w.at = "stop"
    BY <1>1, <1>2, <2>1 DEF Reached, Pausing, Pending
  <2>2. CASE w.at # "stop"
    BY <1>2, <2>2 DEF Settled, Pending
  <2> QED BY <2>1, <2>2
<1> QED BY <1>2, <1>3, <1>4 DEF Settled

\* The steps of the worker before it has an answer.
LEMMA WorkSettled ==
  ASSUME Core, Settled,
         \/ StartWatchdog \/ OpenGuest \/ Ready \/ Frozen \/ CheckPaused \/ BeginCopy \/ EndCopy
         \/ Continue \/ SendThaw \/ Seal \/ Sealed \/ Abort \/ Crash \/ GuestWrites
  PROVE  Settled'
<1>1. /\ TypeOK /\ WorkOK /\ Reached /\ PauseOK
      /\ w.at # "idle" => op \in Attempts /\ Pending(op)
  BY WorkFacts DEF Core
<1>2. UNCHANGED <<status, state>> /\ (qemu' = "paused" => qemu = "paused")
  BY DEF StartWatchdog, OpenGuest, Ready, Frozen, CheckPaused, BeginCopy, EndCopy, Continue,
     SendThaw, Seal, Sealed, Abort, Crash, GuestWrites, receipts, guest
<1>3. \A a \in Attempts : "freeze" \in cmd'[a] => "freeze" \in cmd[a]
  <2>1. CASE SendThaw
    BY <1>1, <2>1 DEF SendThaw, Sends, TypeOK
  <2>2. CASE ~SendThaw
    <3>1. UNCHANGED cmd
      BY <2>2 DEF StartWatchdog, OpenGuest, Ready, Frozen, CheckPaused, BeginCopy, EndCopy, Continue,
         Seal, Sealed, Abort, Crash, GuestWrites, channel
    <3> QED BY <3>1
  <2> QED BY <2>1, <2>2
<1>4. At("fail")' => At("fail") /\ op' = op
  <2>1. CASE Crash \/ GuestWrites
    BY <1>1, <2>1 DEF Crash, GuestWrites, NoWork, At, op
  <2>2. CASE Abort
    BY <1>1, <2>2 DEF Abort, LeavePending, NoWork, Goto, TypeOK, At
  <2>3. CASE StartWatchdog \/ OpenGuest \/ Ready \/ Frozen \/ CheckPaused \/ BeginCopy \/ EndCopy
    BY <1>1, <2>3 DEF StartWatchdog, OpenGuest, Ready, Frozen, CheckPaused, BeginCopy, EndCopy, Goto,
       TypeOK, At
  <2>4. CASE Continue \/ SendThaw \/ Seal \/ Sealed
    BY <1>1, <2>4 DEF Continue, SendThaw, Seal, Sealed, Goto, TypeOK, At
  <2> QED BY <2>1, <2>2, <2>3, <2>4
<1>5. \A a \in Attempts : phase[a] \in Pausing => phase'[a] \in Pausing
  <2>1. CASE Ready \/ Frozen \/ CheckPaused \/ EndCopy
    BY <1>1, <2>1 DEF Ready, Frozen, CheckPaused, EndCopy, Phase, TypeOK, WorkOK, Reached, At, Pausing
  <2>2. CASE Sealed
    BY <1>1, <2>2 DEF Sealed, Phase, TypeOK, Reached, At, Pausing
  <2>3. CASE ~(Ready \/ Frozen \/ CheckPaused \/ EndCopy \/ Sealed)
    <3>1. UNCHANGED phase
      BY <2>3 DEF StartWatchdog, OpenGuest, BeginCopy, Continue, SendThaw, Seal, Abort, Crash,
         GuestWrites, receipts
    <3> QED BY <3>1
  <2> QED BY <2>1, <2>2, <2>3
<1>6. ~(At("fail")' /\ qemu' = "paused")
  BY <1>2, <1>4 DEF Settled
<1> QED BY <1>2, <1>3, <1>4, <1>5, <1>6, SettledStep DEF Safe, Answered, Pending

\* The steps that find an answer, and those that give it.
LEMMA AnswerSettled ==
  ASSUME Core, Settled, Begin \/ Released \/ Look \/ Proof \/ Trouble \/ Complete \/ Fail
  PROVE  Settled'
<1>1. /\ TypeOK /\ WorkOK /\ Reached /\ PauseOK /\ SafeOK(op) /\ HelperOK(op)
      /\ op \in Attempts /\ Pending(op)
      /\ \A a \in Attempts : Pending(a) => a = op
  BY WorkFacts DEF Core, Begin, Released, Look, Proof, Trouble, Complete, Fail, At, Trying
<1>2. UNCHANGED <<qemu, state, cmd>>
  BY DEF Begin, Released, Look, Proof, Trouble, Complete, Fail, channel, guest
<1>3. qemu = "paused" => phase[op] \in Pausing
  BY <1>1 DEF Settled
<1>4. \A a \in Attempts : a # op => phase'[a] = phase[a] /\ status'[a] = status[a]
  BY <1>1 DEF Begin, Released, Look, Proof, Trouble, Complete, Fail, Fails, Phase, TypeOK, receipts
<1>5. CASE Complete \/ Fail
  <2>1. w' = NoWork /\ UNCHANGED phase /\ Safe(op) /\ qemu # "paused"
    BY <1>1, <1>3, <1>5 DEF Complete, Fail, Settled, Reached, At, SafeOK, Settleable, Pausing
  <2> QED BY <1>2, <1>4, <2>1, SettledStep DEF Safe, Answered, At, NoWork
<1>6. ASSUME Begin \/ Released \/ Look \/ Proof \/ Trouble
      PROVE  Settled'
  <2>1. UNCHANGED status
    BY <1>6 DEF Begin, Released, Look, Proof, Trouble, receipts
  <2>2. At("fail")' => op' = op /\ Safe(op) /\ qemu # "paused"
    <3>1. CASE Begin
      <4>1. At("fail")' => op' = op /\ phase[op] \in {"none", "aborted"}
        BY <1>1, <3>1 DEF Begin, Fails, Goto, TypeOK, At, op
      <4> QED BY <1>1, <1>3, <4>1 DEF SafeOK, Settleable, Pausing
    <3>2. CASE Released
      <4>1. op' = op /\ qemu # "paused" /\ state[op] \in {"released", "lost"}
        BY <1>1, <3>2 DEF Released, Receive, Goto, TypeOK, PauseOK, HelperOK, At, op
      <4> QED BY <4>1 DEF Safe
    <3>3. CASE Look
      <4>1. At("fail")' => op' = op /\ (phase[op] = "preparing" \/ qemu = "exited")
        BY <1>1, <3>3 DEF Look, Fails, Goto, TypeOK, At, op
      <4> QED BY <1>1, <1>3, <4>1 DEF SafeOK, Safe, Settleable, Pausing
    <3>4. CASE Proof
      BY <1>1, <3>4 DEF Proof, Fails, Goto, TypeOK, At, op, Safe
    <3>5. CASE Trouble
      <4>1. At("fail")' => op' = op /\ phase[op] \in {"released", "sealed"}
        BY <1>1, <3>5 DEF Trouble, LeavePending, NoWork, Goto, TypeOK, Reached, At, op
      <4> QED BY <1>1, <1>3, <4>1 DEF SafeOK, Settleable, Pausing
    <3> QED BY <1>6, <3>1, <3>2, <3>3, <3>4, <3>5
  <2>3. qemu = "paused" => phase'[op] = phase[op]
    <3>1. CASE Begin
      BY <1>1, <1>3, <3>1 DEF Begin, Fails, Phase, Pausing
    <3>2. CASE Released
      BY <1>1, <3>2 DEF Released, PauseOK, At
    <3>3. CASE Look
      BY <1>1, <1>3, <3>3 DEF Look, Pausing
    <3>4. CASE Proof \/ Trouble
      BY <3>4 DEF Proof, Trouble, receipts
    <3> QED BY <1>6, <3>1, <3>2, <3>3, <3>4
  <2> QED BY <1>1, <1>2, <1>4, <2>1, <2>2, <2>3, SettledStep DEF Safe, Answered, Pending
<1> QED BY <1>5, <1>6

\* The steps of everybody but the worker.
LEMMA OthersSettled ==
  ASSUME Core, Settled,
         \/ \E a \in Attempts : Watching(a) \/ WatchdogDies(a) \/ Tick(a) \/ GuestMove(a)
         \/ GuestReboots \/ QemuExits \/ UNCHANGED vars
  PROVE  Settled'
<1>1. /\ UNCHANGED <<status, phase, w>>
      /\ qemu' = "paused" => qemu = "paused"
      /\ \A a \in Attempts : Safe(a) => Safe(a)'
  <2>1. ASSUME NEW a \in Attempts, Watching(a) \/ WatchdogDies(a) \/ Tick(a)
        PROVE  UNCHANGED <<status, phase, w, state, cmd>> /\ (qemu' = "paused" => qemu = "paused")
    BY <2>1 DEF Watching, WatchdogBreaks, WatchdogAborts, WatchdogContinues, WatchdogQueries,
       WatchdogCloses, WatchdogDies, Tick, receipts, channel, guest
  <2>2. ASSUME NEW a \in Attempts, GuestMove(a)
        PROVE  UNCHANGED <<status, phase, w, qemu>> /\ \A b \in Attempts : Safe(b) => Safe(b)'
    BY <2>2 DEF GuestMove, Safe, host, receipts
  <2>3. ASSUME GuestReboots \/ QemuExits
        PROVE  /\ UNCHANGED <<status, phase, w>> /\ (qemu' = "paused" => qemu = "paused")
               /\ \A a \in Attempts : Safe(a) => Safe(a)'
    BY <2>3 DEF Core, TypeOK, GuestReboots, QemuExits, GuestEnds, Safe, receipts
  <2>4. ASSUME UNCHANGED vars PROVE UNCHANGED <<status, phase, w, qemu, state, cmd>>
    BY <2>4 DEF vars, receipts, channel, guest
  <2> QED BY <2>1, <2>2, <2>3, <2>4 DEF Safe
<1>2. At("fail")' <=> At("fail")
  BY <1>1 DEF At
<1> QED BY <1>1, <1>2, SettledStep DEF Settled, Answered, Pending, op

LEMMA NextSettled == ASSUME Core, Settled, "misread" \notin Faults, [Next]_vars PROVE Settled'
<1>1. ~Misread
  BY DEF Misread
<1>2. ASSUME NEW a \in Attempts, Helping(a) \/ Guarding(a) \/ GuardianFails(a) PROVE Settled'
  BY <1>2, GuestMoves, OthersSettled
<1>3. CASE \/ \E a \in Attempts : Watching(a) \/ WatchdogDies(a) \/ Tick(a)
           \/ GuestReboots \/ QemuExits \/ UNCHANGED vars
  BY <1>3, OthersSettled
<1>4. CASE Coordinate \/ Trouble \/ Crash \/ GuestWrites
  BY <1>4, HoldSettled, WorkSettled, AnswerSettled DEF Coordinate
<1>5. ASSUME NEW a \in Attempts, Submit(a) \/ Resubmit(a) PROVE Settled'
  BY <1>5, RequestSettled
<1> QED BY <1>1, <1>2, <1>3, <1>4, <1>5 DEF Next

-----------------------------------------------------------------------------
(* What is answered as completed is published.                              *)

Kept == {"resuming", "released", "sealed"}

\* The staged copy is there until its operation is answered, and what the
\* journal calls sealed is published.
PubOK ==
  /\ \A a \in Attempts :
       /\ status[a] = "completed" \/ phase[a] = "sealed" => published[a] # "none"
       /\ Pending(a) /\ phase[a] \in Kept => copy # "none"
  /\ w.at \in {"sealed", "complete"} => published[op] # "none"
  /\ w.at = "copying" => copy # "none"

\* A step that publishes and copies nothing.
LEMMA PubStep ==
  ASSUME PubOK, UNCHANGED <<copy, published>>,
         \A a \in Attempts :
           /\ status'[a] = status[a] \/ (status'[a] = "pending" /\ phase'[a] = "none")
           /\ phase'[a] \in Kept => phase'[a] = phase[a] \/ (phase'[a] = "released" /\ phase[a] \in Kept),
         w' = w \/ w'.at \notin {"sealed", "complete", "copying"}
  PROVE  PubOK'
<1>1. ASSUME NEW a \in Attempts
      PROVE  /\ status'[a] = "completed" \/ phase'[a] = "sealed" => published'[a] # "none"
             /\ Pending(a)' /\ phase'[a] \in Kept => copy' # "none"
  BY DEF PubOK, Pending, Kept
<1> QED BY <1>1 DEF PubOK, op

LEMMA RequestPub ==
  ASSUME Core, PubOK, NEW a \in Attempts, Submit(a) \/ Resubmit(a)
  PROVE  PubOK'
<1>1. CASE Submit(a)
  BY <1>1, PubStep DEF Core, TypeOK, OrderOK, Submit
<1>2. CASE Resubmit(a)
  BY <1>2, PubStep DEF Resubmit, receipts
<1> QED BY <1>1, <1>2

\* The steps of the coordinator that leave the copy alone.
LEMMA WorkerPub ==
  ASSUME Core, PubOK,
         \/ Begin \/ StartWatchdog \/ OpenGuest \/ Ready \/ SendFreeze \/ Frozen \/ Stop \/ CheckPaused
         \/ Continue \/ SendThaw \/ Released \/ Abort \/ Look \/ Proof \/ Trouble \/ Misread
         \/ Crash
  PROVE  PubOK'
<1>1. TypeOK
  BY DEF Core
<1>2. ASSUME NEW p \in Places, Goto(p) PROVE w'.at = p
  BY <1>1, <1>2 DEF Goto, TypeOK
<1>3. LeavePending => w'.at = "idle"
  BY DEF LeavePending, NoWork
<1>4. ASSUME NEW p \in Phases \ Kept, Phase(p), op \in Attempts
      PROVE  \A a \in Attempts : phase'[a] \in Kept => phase'[a] = phase[a]
  BY <1>1, <1>4 DEF Phase, TypeOK
<1>5. w.at # "idle" => op \in Attempts
  BY WorkFacts DEF Core
<1>6. CASE Begin
  <2>1. /\ w'.at \notin {"sealed", "complete", "copying"}
        /\ \A a \in Attempts : phase'[a] \in Kept => phase'[a] = phase[a]
    BY <1>2, <1>4, <1>5, <1>6 DEF Begin, Fails, At, Places, Phases, Kept
  <2> QED BY <1>6, <2>1, PubStep DEF Begin
<1>7. CASE StartWatchdog \/ OpenGuest \/ SendFreeze \/ Stop
  BY <1>2, <1>7, PubStep DEF StartWatchdog, OpenGuest, SendFreeze, Stop, Places, receipts
<1>8. CASE Ready \/ Frozen \/ CheckPaused
  BY <1>2, <1>4, <1>5, <1>8, PubStep DEF Ready, Frozen, CheckPaused, At, Places, Phases, Kept
<1>9. CASE Continue \/ SendThaw
  BY <1>2, <1>9, PubStep DEF Continue, SendThaw, Places, receipts
<1>10. CASE Released
  <2>1. /\ op \in Attempts /\ w.at = "released" /\ UNCHANGED <<status, copy, published>>
        /\ w.mode = "run" => phase[op] = "resuming"
        /\ w.mode \in {"run", "undo", "recover"}
    BY <1>5, <1>10 DEF Core, TypeOK, Reached, Released, At
  <2>2. CASE w.mode = "undo"
    BY <1>2, <1>4, <1>10, <2>1, <2>2, PubStep DEF Released, Places, Phases, Kept
  <2>3. CASE w.mode # "undo"
    <3>1. w.mode = "run"
      BY <2>1, <2>3 DEF Core, WorkOK
    <3>2. Phase("released") /\ Goto("seal")
      BY <1>10, <2>3 DEF Released
    <3>3. phase'[op] = "released" /\ \A a \in Attempts : a # op => phase'[a] = phase[a]
      BY <1>1, <2>1, <3>2 DEF Phase, TypeOK
    <3> QED BY <1>2, <2>1, <3>1, <3>2, <3>3, PubStep DEF Places, Kept
  <2> QED BY <2>2, <2>3
<1>11. CASE Abort
  BY <1>2, <1>3, <1>11, PubStep DEF Abort, Places
<1>12. CASE Look \/ Proof
  BY <1>2, <1>4, <1>5, <1>12, PubStep DEF Look, Proof, Fails, At, Places, Phases, Kept
<1>13. CASE Trouble \/ Misread
  BY <1>2, <1>3, <1>13, PubStep DEF Trouble, Misread, Places, receipts
<1>14. CASE Crash
  BY <1>14, PubStep DEF Crash, receipts, NoWork
<1> QED BY <1>6, <1>7, <1>8, <1>9, <1>10, <1>11, <1>12, <1>13, <1>14

LEMMA CopyPub ==
  ASSUME Core, PubOK, BeginCopy \/ EndCopy \/ Seal \/ Sealed \/ Complete \/ Fail
  PROVE  PubOK'
<1>1. /\ TypeOK /\ op \in Attempts /\ Pending(op)
      /\ \A a \in Attempts : Pending(a) => a = op
  BY WorkFacts DEF Core, BeginCopy, EndCopy, Seal, Sealed, Complete, Fail, At
<1>2. ASSUME NEW p \in Places, Goto(p) PROVE w'.at = p /\ op' = op
  BY <1>1, <1>2 DEF Goto, TypeOK, op
<1>3. ASSUME NEW p \in Phases, Phase(p)
      PROVE  phase'[op] = p /\ \A a \in Attempts : a # op => phase'[a] = phase[a]
  BY <1>1, <1>3 DEF Phase, TypeOK
<1>4. CASE BeginCopy
  <2>1. copy' # "none" /\ w'.at = "copying" /\ UNCHANGED <<status, phase, published>>
    BY <1>2, <1>4 DEF BeginCopy, Places
  <2> QED BY <2>1 DEF PubOK, Pending
<1>5. CASE EndCopy
  <2>1. /\ copy # "none" /\ w'.at = "cont" /\ UNCHANGED <<status, copy, published>>
        /\ phase'[op] = "resuming" /\ \A a \in Attempts : a # op => phase'[a] = phase[a]
    BY <1>2, <1>3, <1>5 DEF EndCopy, At, Places, Phases, PubOK
  <2> QED BY <2>1 DEF PubOK, Pending
<1>6. CASE Seal
  <2>1. copy # "none"
    BY <1>1, <1>6 DEF Seal, PubOK, Kept
  <2>2. /\ w'.at = "sealed" /\ op' = op /\ UNCHANGED <<status, phase, copy>>
        /\ published'[op] = copy /\ \A a \in Attempts : a # op => published'[a] = published[a]
    BY <1>1, <1>2, <1>6 DEF Seal, Places, TypeOK
  <2> QED BY <2>1, <2>2 DEF PubOK, Pending
<1>7. CASE Sealed
  <2>1. published[op] # "none" /\ phase[op] \in Kept
    BY <1>7 DEF Core, Reached, Sealed, At, PubOK, Kept
  <2>2. /\ w'.at = "complete" /\ op' = op /\ UNCHANGED <<status, copy, published>>
        /\ phase'[op] = "sealed" /\ \A a \in Attempts : a # op => phase'[a] = phase[a]
    BY <1>2, <1>3, <1>7 DEF Sealed, Places, Phases
  <2> QED BY <1>1, <2>1, <2>2 DEF PubOK, Pending
<1>8. CASE Complete \/ Fail
  <2>1. /\ w'.at = "idle" /\ UNCHANGED <<phase, published>>
        /\ status'[op] = "completed" => published[op] # "none"
        /\ status'[op] # "pending" /\ \A a \in Attempts : a # op => status'[a] = status[a]
    BY <1>1, <1>8 DEF Complete, Fail, At, NoWork, TypeOK, PubOK
  <2>2. \A a \in Attempts : ~Pending(a)'
    BY <1>1, <2>1 DEF Pending
  <2> QED BY <2>1, <2>2 DEF PubOK
<1> QED BY <1>4, <1>5, <1>6, <1>7, <1>8

LEMMA NextPub == ASSUME Core, PubOK, [Next]_vars PROVE PubOK'
<1>1. CASE UNCHANGED <<status, phase, copy, published, w>>
  BY <1>1 DEF PubOK, Pending, op
<1>2. ASSUME NEW a \in Attempts, Helping(a) \/ Guarding(a) \/ GuardianFails(a)
      PROVE  PubOK'
  BY <1>1, <1>2, GuestMoves DEF GuestMove, host, receipts
<1>3. ASSUME NEW a \in Attempts, Watching(a) \/ WatchdogDies(a) \/ Tick(a)
      PROVE  PubOK'
  <2>1. UNCHANGED <<status, phase, copy, published, w>>
    BY <1>3, Zenon DEF Watching, WatchdogBreaks, WatchdogAborts, WatchdogContinues, WatchdogQueries,
       WatchdogCloses, WatchdogDies, Tick, receipts
  <2> QED BY <1>1, <2>1
<1>4. CASE GuestWrites
  BY <1>4 DEF GuestWrites, PubOK, Pending, op
<1>5. CASE GuestReboots \/ QemuExits
  BY <1>1, <1>5 DEF GuestReboots, QemuExits, GuestEnds, receipts
<1>6. CASE UNCHANGED vars
  BY <1>1, <1>6 DEF vars, receipts
<1> QED BY <1>2, <1>3, <1>4, <1>5, <1>6, RequestPub, WorkerPub, CopyPub DEF Next, Coordinate

-----------------------------------------------------------------------------
(* The theorems. *)

\* The core holds whatever lingers, reboots and crashes: the order of the
\* attempts, what the worker knows at each place, who may have paused QEMU,
\* and which guest state may stand behind which phase of the journal.
THEOREM CoreHolds == Spec => []Core
<1> QED BY InitCore, NextCore, PTL DEF Spec

\* The values of every variable of the checkpoint and of its guardians, at
\* every moment of live_checkpoint.py.
THEOREM TypeCorrect == Spec => []TypeOK
<1>1. Core => TypeOK
  BY DEF Core
<1> QED BY <1>1, CoreHolds, PTL

\* As long as a worker can read what it needs before it recovers, no answered
\* checkpoint leaves the guest paused or frozen, and nothing that is still under
\* way freezes it later: not even a helper that an earlier attempt left behind.
THEOREM SettledReleased == ASSUME "misread" \notin Faults PROVE Spec => []SettledIsReleased
<1>1. Init => Settled
  BY DEF Init, Settled, Answered, NoWork, At
<1>2. Core /\ Settled /\ [Next]_vars => Settled'
  BY NextSettled
<1>3. ASSUME Core, Settled, NothingPending PROVE qemu # "paused" /\ ~frozen
  <2>1. qemu # "paused"
    BY <1>3 DEF Settled, NothingPending
  <2>2. ASSUME NEW a \in Attempts PROVE state[a] \notin {"freezing", "frozen"}
    <3>1. CASE status[a] = "none"
      BY <1>3, <3>1 DEF Core, OrderOK, HelperOK
    <3>2. CASE status[a] # "none"
      <4>1. Answered(a)
        BY <1>3, <3>2 DEF Core, TypeOK, NothingPending, Pending, Answered
      <4> QED BY <1>3, <4>1 DEF Settled, Safe
    <3> QED BY <3>1, <3>2
  <2> QED BY <1>3, <2>1, <2>2 DEF Core, FrozenOK
<1>4. Core /\ Settled => SettledIsReleased
  BY <1>3 DEF SettledIsReleased
<1> QED BY <1>1, <1>2, <1>4, CoreHolds, PTL DEF Spec

\* As long as the attempts are apart in the guest, a copy keeps the worth its
\* phase claims.
THEOREM Inductive == Spec /\ []Apart => []IInv
<1>1. Init => IInv
  <2>1. Init => WholeOK
    BY DEF Init, WholeOK, FreshOK, CopyOK, PublishedIsWhole, NoWork, Pending, At
  <2> QED BY <2>1, InitCore DEF IInv
<1> QED BY <1>1, NextIInv, PTL DEF Spec

\* What _seal publishes was copied under one freeze of the guest, however many
\* attempts, crashes and guardians came between, as long as no process of
\* another attempt is left in a guest that a helper holds frozen.
THEOREM PublishedWhole == Spec /\ []Apart => []PublishedIsWhole
<1>1. IInv => PublishedIsWhole
  BY DEF IInv, WholeOK
<1> QED BY <1>1, Inductive, PTL

\* The attempts are apart when every one of them finds the guest processes of
\* those before it gone.
THEOREM AloneIsApart == ASSUME "linger" \notin Faults PROVE Spec => []Apart
<1>1. Init => Single
  BY DEF Init, Single, Active
<1>2. Core /\ Single /\ [Next]_vars => Single'
  BY NextSingle
<1>3. Core /\ Single => Apart
  BY SingleIsApart
<1> QED BY <1>1, <1>2, <1>3, CoreHolds, PTL DEF Spec

\* Whatever crashes, and whatever the host made of the attempt, a guest is
\* frozen only while a guardian in it is alive.
THEOREM FrozenOwed == Spec => []FrozenIsOwed
<1> DEFINE G == \A a \in Attempts : Guarded(a)
<1>1. Init => G
  BY DEF Init, Guarded
<1>2. Core /\ G /\ [Next]_vars => G'
  BY NextGuarded
<1>3. Core /\ G => FrozenIsOwed
  BY DEF Core, FrozenOK, FrozenIsOwed, Guarded
<1> QED BY <1>1, <1>2, <1>3, CoreHolds, PTL DEF Spec

\* As long as a worker can read what it needs before it recovers, QEMU is
\* paused only for a pending operation whose journal says so: its receipt, by
\* which a worker is launched again, is never answered before the resume.
THEOREM PausedIsOwed ==
  ASSUME "misread" \notin Faults
  PROVE  Spec => [](qemu = "paused" => \E a \in Attempts : Pending(a) /\ phase[a] \in Pausing)
<1>1. Init => Settled
  BY DEF Init, Settled, Answered, NoWork, At
<1>2. Core /\ Settled /\ [Next]_vars => Settled'
  BY NextSettled
<1>3. Settled => (qemu = "paused" => \E a \in Attempts : Pending(a) /\ phase[a] \in Pausing)
  BY DEF Settled
<1> QED BY <1>1, <1>2, <1>3, CoreHolds, PTL DEF Spec

\* A checkpoint that is answered as completed is published, whichever worker
\* ended it: with PublishedWhole, its copy is that of one moment.
THEOREM CompletedIsPublished ==
  Spec => [](\A a \in Attempts : status[a] = "completed" => published[a] # "none")
<1>1. Init => PubOK
  BY DEF Init, PubOK, NoWork, Pending
<1>2. Core /\ PubOK /\ [Next]_vars => PubOK'
  BY NextPub
<1>3. PubOK => \A a \in Attempts : status[a] = "completed" => published[a] # "none"
  BY DEF PubOK
<1> QED BY <1>1, <1>2, <1>3, CoreHolds, PTL DEF Spec
=============================================================================
