------------------------ MODULE HostLifecycle_proofs ------------------------
(***************************************************************************)
(* Proofs about HostLifecycle, for any set of commands: the type           *)
(* invariant, the inductive invariant that ties the request holding the    *)
(* lock to the journal, and from them that a pending operation can always  *)
(* be retried, that results are final, that the journal implements         *)
(* OperationJournal and that fences hold, whatever is lost, delayed or     *)
(* torn.  What an abandoned native call can spoil is stated with the calls *)
(* it depends on: NoLate(ops) says that no call of the operations ops      *)
(* changes the machine once the core gave up on it.  Launches and release  *)
(* evidence need it of start, deletion of create, fences over incarnations *)
(* of destroy, and the registration token of destroy and reseed.           *)
(***************************************************************************)
EXTENDS HostLifecycle, TLAPS

\* The request that holds the lock: admitted but not yet journaled, or
\* pending in the journal and at a stage its verb goes through.
CallOK ==
  /\ call.cmd = None => call = NoCall
  /\ call.cmd # None =>
       /\ call.at = "admit"  => Admissible(call.cmd)
       /\ call.at # "admit"  => Pending(call.cmd)
       /\ call.at = "look"   => call.cmd.verb = "start"
       /\ call.at = "settle" => call.cmd.verb = "destroy"
       /\ call.at = "reseed" => call.cmd.verb \in {"start", "restore"}
       /\ call.at = "finish" => call.cmd.verb # "destroy"
       /\ call.at = "finish" /\ call.cmd.verb \in StorageVerbs
            => journal[call.cmd] = "committed"
       /\ call.at \in {"reseed", "exec"} /\ call.cmd.verb = "start"
            => rec.desired = "running"

IInv == TypeOK /\ CallOK /\ PendingIsRetriable

\* What a poll knew of the journal when it began, it still knows; and if all
\* it knew is settled and is all there is, the machine it saw stopped still is.
PollOK ==
  poll # NoPoll =>
    /\ \A c \in poll.rev.settled : c \in Commands /\ Settled(c)
    /\ \A c \in poll.rev.known : c \in Commands /\ journal[c] # "none"
    /\ /\ poll.seen = "stopped"
       /\ \A c \in Commands : journal[c] # "none" => c \in poll.rev.known /\ c \in poll.rev.settled
       => vm.run = "stopped"

\* What keeps a fenced machine fenced while it is not being destroyed.
Undestroyed == \A c \in Commands : c.verb = "destroy" => journal[c] = "none"
FenceNative ==
  /\ ~vm.torn
  /\ \A c \in Commands : receipts[c] # "none" => vm.disk # None
  /\ \A c \in Commands : c.verb = "fence" /\ receipts[c] = "completed"
       => vm.fenced /\ vm.run = "stopped"
FenceSaved ==
  \A c \in Commands : c.verb = "fence" /\ journal[c] \in {"committed", "ok"}
    => receipts[c] = "completed"
FenceOK == Undestroyed => FenceNative /\ FenceSaved /\ \A n \in late : n.op # "destroy"
-----------------------------------------------------------------------------
(* Types. *)

LEMMA NoneIsNoCommand == \A c \in Commands : c # None
  BY NoneAssumption

LEMMA CommandFields ==
  \A c \in Commands : /\ c.verb \in LifecycleVerbs \cup StorageVerbs
                      /\ c.gen \in Nat
                      /\ c.flag \in BOOLEAN
  BY CommandsAssumption DEF Command

\* A native call leaves a machine and a set of receipts.
LEMMA DispatchType ==
  ASSUME TypeOK, NEW n \in NativeCall, NEW r \in Reply, Dispatch(n, r)
  PROVE  vm' \in VM /\ receipts' \in [Commands -> {"none", "pending", "completed", "failed"}]
<1> USE DEF TypeOK, VM, NativeCall, NativeSame, Absent, Token
<1>1. CASE NativeSame
  BY <1>1
<1>2. CASE n.op = "submit" /\ NativeSubmit(n, r)
  BY <1>2, CommandFields DEF NativeSubmit
<1>3. CASE n.op = "create" /\ NativeCreate(n, r)
  <2>1. CASE /\ vm' = [disk |-> n.cmd, torn |-> FALSE, retained |-> FALSE, fenced |-> FALSE,
                       run |-> "stopped", seed |-> n.token, sgen |-> n.inc]
             /\ receipts' = [c \in Commands |-> "none"]
    BY <2>1
  <2>2. QED
    BY <1>1, <1>3, <2>1 DEF NativeCreate
<1>4. CASE n.op = "start" /\ NativeStart(r)
  BY <1>4 DEF NativeStart
<1>5. CASE n.op \in {"shutdown", "force-stop"} /\ NativeStop(n.op = "force-stop", r)
  BY <1>5 DEF NativeStop
<1>6. CASE n.op = "destroy" /\ NativeDestroy(n.cmd.flag, r)
  BY <1>6, CommandFields DEF NativeDestroy
<1>7. CASE n.op = "reseed" /\ NativeReseed(n, r)
  BY <1>7 DEF NativeReseed
<1>8. QED
  BY <1>1, <1>2, <1>3, <1>4, <1>5, <1>6, <1>7 DEF Dispatch

\* The native call of a stage is made for a command that is pending.
LEMMA NativeOfType ==
  ASSUME TypeOK, CallOK, Calls
  PROVE  NativeOf \in NativeCall /\ cmd \in Commands /\ Pending(cmd)
<1>1. call.cmd # None
  BY DEF CallOK, NoCall, Calls
<1>2. cmd \in Commands /\ Pending(cmd)
  BY <1>1 DEF TypeOK, Call, Token, CallOK, Calls, cmd
<1>3. cmd.verb \in StorageVerbs \/ cmd.verb \in LifecycleVerbs
  BY <1>2, CommandFields
<1>4. rec.token \in Token /\ rec.inc \in Nat
  BY DEF TypeOK, Rec
<1>5. NativeOf.op \in NativeOp
  BY <1>3 DEF Calls, NativeOf, NativeOp, LifecycleVerbs
<1>6. QED
  BY <1>2, <1>4, <1>5 DEF NativeOf, NativeCall

LEMMA InitType == Init => TypeOK
  BY DEF Init, TypeOK, Rec, Token, Outcome, Call, NoCall, Stage, Sight, VM, NativeCall, NoPoll

LEMMA AcceptType ==
  ASSUME TypeOK, NEW c \in Commands, Accept(c)
  PROVE  TypeOK'
<1> USE DEF TypeOK
<1>1. rec' \in Rec
  BY CommandFields DEF Accept, Accepted, Rec, Token, Desire, Marked
<1>2. FirstStage(c) \in Stage
  BY DEF FirstStage, Stage
<1>3. call' \in Call
  BY <1>2 DEF Accept, Call, Token, Sight
<1>4. journal' \in [Commands -> Outcome]
  BY DEF Accept, Outcome
<1>5. QED
  BY <1>1, <1>3, <1>4 DEF Accept

LEMMA SettleType ==
  ASSUME TypeOK, NEW outcome \in Outcome, NEW r \in Rec, Settle(outcome, r)
  PROVE  rec' \in Rec /\ journal' \in [Commands -> Outcome] /\ call' \in Call
  BY DEF TypeOK, Settle, NoCall, Call, Token, Stage, Sight

LEMMA AnsweredType ==
  ASSUME TypeOK, CallOK, Answered
  PROVE  TypeOK'
<1>1. PICK r \in Reply : Dispatch(NativeOf, r)
  BY DEF Answered
<1>2. vm' \in VM /\ receipts' \in [Commands -> {"none", "pending", "completed", "failed"}]
  BY <1>1, NativeOfType, DispatchType DEF Answered
<1>3. Destroyed \in Rec /\ [rec EXCEPT !.desired = "stopped"] \in Rec /\ rec \in Rec
  BY DEF Destroyed, TypeOK, Rec, Token
<1>4. \A o \in Outcome, e \in Rec : Settle(o, e) =>
        rec' \in Rec /\ journal' \in [Commands -> Outcome] /\ call' \in Call
  BY SettleType
<1>5. \A at \in Stage : Goto(at) => call' \in Call
  BY DEF Goto, TypeOK, Call
<1>6. NoCall \in Call
  BY DEF NoCall, Call, Token, Stage, Sight
<1>7. RestoreOutcome \in Outcome /\ "ok" \in Outcome /\ "refused" \in Outcome
  BY DEF RestoreOutcome, Outcome
<1>8. {"exec", "wait", "finish"} \subseteq Stage
  BY DEF Stage
<1>9. rec' \in Rec /\ journal' \in [Commands -> Outcome] /\ call' \in Call
  BY <1>3, <1>4, <1>5, <1>6, <1>7, <1>8 DEF Answered, TypeOK
<1>10. QED
  BY <1>2, <1>9 DEF Answered, TypeOK

LEMMA TypeStep == TypeOK /\ CallOK /\ [Next]_vars => TypeOK'
<1> SUFFICES ASSUME TypeOK, CallOK, [Next]_vars
             PROVE  TypeOK'
  OBVIOUS
<1>1. ASSUME NEW c \in Commands, Receive(c) PROVE TypeOK'
  <2>1. CASE Accept(c)
    BY <2>1, AcceptType
  <2>2. CASE \E s \in Sights : call' = [cmd |-> c, at |-> "admit", seen |-> s]
    <3>1. Sights \subseteq Sight
      BY DEF Sights, Sight, TypeOK, VM
    <3>2. call' \in Call
      BY <2>2, <3>1 DEF Call, Token, Stage
    <3>3. CASE Looks(c)
      BY <1>1, <3>2, <3>3 DEF Receive, TypeOK
    <3>4. CASE ~Looks(c)
      BY <1>1, <3>4, AcceptType DEF Receive
    <3>5. QED
      BY <3>3, <3>4
  <2>3. QED
    BY <1>1, <2>1, <2>2 DEF Receive
<1>2. ASSUME NEW c \in Commands, Retry(c) PROVE TypeOK'
  <2>1. FirstStage(c) \in Stage
    BY DEF FirstStage, Stage
  <2>2. call' \in Call
    BY <1>2, <2>1 DEF Retry, Call, Token, Sight
  <2>3. rec' \in Rec
    BY <1>2 DEF Retry, TypeOK, Rec, Desire
  <2>4. QED
    BY <1>2, <2>2, <2>3 DEF Retry, TypeOK
<1>3. CASE Admit
  <2>1. call.cmd \in Commands
    <3>1. call # NoCall
      BY <1>3 DEF Admit, NoCall
    <3>2. QED
      BY <3>1 DEF CallOK, TypeOK, Call, Token
  <2>2. QED
    BY <1>3, <2>1, AcceptType DEF Admit
<1>4. CASE Look
  <2>1. call' \in Call
    BY <1>4 DEF Look, Goto, TypeOK, Call, Stage
  <2>2. rec' \in Rec
    BY <1>4 DEF Look, TypeOK, Rec
  <2>3. QED
    BY <1>4, <2>1, <2>2 DEF Look, TypeOK
<1>5. CASE Answered
  BY <1>5, AnsweredType
<1>6. CASE SettleSees
  BY <1>6 DEF SettleSees, Goto, TypeOK, Call, Stage
<1>7. CASE ReadReceipt
  <2>1. call' \in Call
    BY <1>7 DEF ReadReceipt, Goto, Settle, TypeOK, Call, Stage, NoCall, Token, Sight
  <2>2. journal' \in [Commands -> Outcome]
    BY <1>7 DEF ReadReceipt, Settle, TypeOK, Outcome
  <2>3. rec' \in Rec
    BY <1>7 DEF ReadReceipt, Settle, TypeOK
  <2>4. QED
    BY <1>7, <2>1, <2>2, <2>3 DEF ReadReceipt, TypeOK
<1>8. CASE Finish
  <2>1. rec' \in Rec /\ journal' \in [Commands -> Outcome] /\ call' \in Call
    BY <1>8, SettleType DEF Finish, TypeOK, Outcome
  <2>2. QED
    BY <1>8, <2>1 DEF Finish, TypeOK
<1>9. CASE Refused \/ Interrupted
  BY <1>9 DEF Refused, Interrupted, TypeOK, NoCall, Call, Token, Stage, Sight
<1>10. CASE ReplyLost
  <2>1. vm' \in VM /\ receipts' \in [Commands -> {"none", "pending", "completed", "failed"}]
    BY <1>10, NativeOfType, DispatchType DEF ReplyLost
  <2>2. QED
    BY <1>10, <2>1 DEF ReplyLost, TypeOK, NoCall, Call, Token, Stage, Sight
<1>11. CASE Abandon
  BY <1>11, NativeOfType DEF Abandon, TypeOK, NoCall, Call, Token, Stage, Sight
<1>12. CASE Native
  <2>1. vm' \in VM /\ receipts' \in [Commands -> {"none", "pending", "completed", "failed"}]
    BY <1>12 DEF Native, StorageFence, StorageCompletes, StorageFails, GuestPowersOff,
                 QemuExits, TypeOK, VM
  <2>2. UNCHANGED <<rec, journal, call, late, poll>>
    BY <1>12 DEF Native, StorageFence, StorageCompletes, StorageFails, GuestPowersOff, QemuExits
  <2>3. QED
    BY <2>1, <2>2 DEF TypeOK
<1>13. CASE LateCallRuns
  <2>1. vm' \in VM /\ receipts' \in [Commands -> {"none", "pending", "completed", "failed"}]
    <3>1. PICK n \in late, r \in Reply : Dispatch(n, r)
      BY <1>13 DEF LateCallRuns
    <3>2. n \in NativeCall
      BY DEF TypeOK
    <3>3. QED
      BY <3>1, <3>2, DispatchType
  <2>2. late' \subseteq late
    BY <1>13 DEF LateCallRuns
  <2>3. QED
    BY <1>13, <2>1, <2>2 DEF LateCallRuns, TypeOK
<1>14. CASE NativeRestarts
  BY <1>14 DEF NativeRestarts, TypeOK
<1>15. CASE StartPoll
  <2>1. Sights \subseteq Sight
    BY DEF Sights, Sight, TypeOK, VM
  <2>2. QED
    BY <1>15, <2>1 DEF StartPoll, TypeOK
<1>16. CASE EndPoll
  BY <1>16 DEF EndPoll, NoPoll, TypeOK, Sight
<1>17. CASE UNCHANGED vars
  BY <1>17 DEF vars, TypeOK
<1>18. QED
  BY <1>1, <1>2, <1>3, <1>4, <1>5, <1>6, <1>7, <1>8, <1>9, <1>10, <1>11, <1>12,
     <1>13, <1>14, <1>15, <1>16, <1>17 DEF Next, Advance, Disturbance
-----------------------------------------------------------------------------
(* The request that holds the lock, and the operation that is pending. *)

LEMMA ControlSame ==
  CallOK /\ PendingIsRetriable /\ UNCHANGED <<rec, journal, call>>
    => CallOK' /\ PendingIsRetriable'
  BY DEF CallOK, PendingIsRetriable, Pending, Retriable, NotRetired, Admissible, KeyUsed,
         SameKey, MayCreate, RemovedDisk, NothingPending, PriorIntent

LEMMA LockFreed ==
  CallOK /\ PendingIsRetriable /\ UNCHANGED <<rec, journal>> /\ call' = NoCall
    => CallOK' /\ PendingIsRetriable'
  BY DEF CallOK, NoCall, PendingIsRetriable, Pending, Retriable, NotRetired

\* A command that is admitted becomes the one pending operation.
LEMMA AcceptOK ==
  ASSUME TypeOK, CallOK, PendingIsRetriable,
         NEW c \in Commands, Admissible(c), Accept(c)
  PROVE  CallOK' /\ PendingIsRetriable'
<1>1. journal[c] = "none" /\ \A d \in Commands : ~Pending(d)
  BY DEF Admissible, KeyUsed, SameKey, NothingPending
<1>2. /\ journal' = [journal EXCEPT ![c] = "pending"]
      /\ rec' = Accepted(c)
      /\ call' = [cmd |-> c, at |-> FirstStage(c), seen |-> "unknown"]
  BY DEF Accept
<1>3. journal'[c] = "pending" /\ \A d \in Commands : d # c => journal'[d] = journal[d]
  BY <1>2 DEF TypeOK
<1>4. FirstStage(c) = IF c.verb = "start" THEN "look"
                      ELSE IF c.verb = "destroy" THEN "settle" ELSE "exec"
  BY <1>1 DEF FirstStage
<1>5. c # None
  BY NoneIsNoCommand
<1>6. CallOK'
  BY <1>2, <1>3, <1>4, <1>5 DEF CallOK, Pending
<1>7. Retriable(c)'
  <2>1. CASE c.verb = "create"
    BY <1>2, <2>1, CommandFields DEF Accepted, Retriable, NotRetired
  <2>2. CASE c.verb # "create"
    BY <1>2, <2>2, CommandFields
       DEF Accepted, Marked, Retriable, NotRetired, Admissible, TypeOK, Rec
  <2>3. QED
    BY <2>1, <2>2
<1>8. PendingIsRetriable'
  BY <1>1, <1>3, <1>7 DEF PendingIsRetriable, Pending
<1>9. QED
  BY <1>6, <1>8

\* Once it is settled nothing is pending.
LEMMA SettleOK ==
  ASSUME TypeOK, CallOK, PendingIsRetriable, cmd \in Commands, Pending(cmd),
         NEW o \in {"ok", "refused"}, NEW r, Settle(o, r)
  PROVE  CallOK' /\ PendingIsRetriable'
<1>1. journal'[cmd] = o /\ \A d \in Commands : d # cmd => journal'[d] = journal[d]
  BY DEF Settle, TypeOK
<1>2. \A d \in Commands : ~Pending(d)'
  BY <1>1 DEF PendingIsRetriable, Pending
<1>3. call' = NoCall
  BY DEF Settle
<1>4. QED
  BY <1>2, <1>3 DEF CallOK, NoCall, PendingIsRetriable

\* A stage that moves on without touching the journal.
LEMMA GotoOK ==
  ASSUME TypeOK, CallOK, PendingIsRetriable, cmd \in Commands, Pending(cmd),
         UNCHANGED <<rec, journal>>, NEW at \in {"exec", "wait", "finish"}, Goto(at),
         at = "finish" => cmd.verb \notin StorageVerbs \cup {"destroy"},
         at = "exec" /\ cmd.verb = "start" => rec.desired = "running"
  PROVE  CallOK' /\ PendingIsRetriable'
<1>1. call'.cmd = cmd /\ call'.at = at
  BY DEF Goto, cmd, TypeOK, Call
<1>2. CallOK'
  BY <1>1, NoneIsNoCommand DEF CallOK, Pending
<1>3. QED
  BY <1>2 DEF PendingIsRetriable, Pending, Retriable, NotRetired

LEMMA AnsweredOK ==
  ASSUME TypeOK, CallOK, PendingIsRetriable, Answered
  PROVE  CallOK' /\ PendingIsRetriable'
<1>1. cmd \in Commands /\ Pending(cmd)
  BY NativeOfType DEF Answered
<1>2. ASSUME NEW o \in {"ok", "refused"}, NEW r, Settle(o, r)
      PROVE  CallOK' /\ PendingIsRetriable'
  BY <1>1, <1>2, SettleOK
<1>3. ASSUME UNCHANGED <<rec, journal>>, NEW at \in {"exec", "wait", "finish"}, Goto(at),
             at = "finish" => cmd.verb \notin StorageVerbs \cup {"destroy"},
             at = "exec" /\ cmd.verb = "start" => rec.desired = "running"
      PROVE  CallOK' /\ PendingIsRetriable'
  BY <1>1, <1>3, GotoOK
<1>4. RestoreOutcome \in {"ok", "refused"}
  BY DEF RestoreOutcome
<1>5. CASE call.at = "reseed" /\ IF cmd.verb = "start" THEN Goto("exec") /\ UNCHANGED <<rec, journal>>
                                                     ELSE Settle(RestoreOutcome, rec)
  <2>1. cmd.verb = "start" => rec.desired = "running"
    BY <1>1, <1>5, NoneIsNoCommand DEF CallOK, cmd
  <2>2. QED
    BY <1>2, <1>3, <1>4, <1>5, <2>1
<1>6. CASE Goto("wait") /\ UNCHANGED <<rec, journal>>
  BY <1>3, <1>6
<1>7. CASE Settle("ok", Destroyed) \/ Settle("refused", [rec EXCEPT !.desired = "stopped"])
  BY <1>2, <1>7
<1>8. CASE /\ cmd.verb # "destroy"
           /\ Goto(IF cmd.verb \in StorageVerbs THEN "wait" ELSE "finish")
           /\ UNCHANGED <<rec, journal>>
  BY <1>3, <1>8
<1>9. CASE call' = NoCall /\ UNCHANGED <<rec, journal>>
  BY <1>9, LockFreed
<1>10. QED
  BY <1>5, <1>6, <1>7, <1>8, <1>9 DEF Answered

LEMMA ReadReceiptOK ==
  ASSUME TypeOK, CallOK, PendingIsRetriable, ReadReceipt
  PROVE  CallOK' /\ PendingIsRetriable'
<1>1. cmd \in Commands /\ Pending(cmd) /\ cmd # None
  BY NoneIsNoCommand DEF ReadReceipt, CallOK, NoCall, TypeOK, Call, Token, cmd
<1>2. CASE call' = NoCall /\ UNCHANGED <<rec, journal>>
  BY <1>2, LockFreed
<1>3. CASE Settle("refused", rec)
  BY <1>1, <1>3, SettleOK
<1>4. CASE Goto("reseed") /\ cmd.verb = "restore" /\ UNCHANGED <<rec, journal>>
  <2>1. call'.cmd = cmd /\ call'.at = "reseed"
    BY <1>4 DEF Goto, cmd, TypeOK, Call
  <2>2. CallOK'
    BY <1>1, <1>4, <2>1 DEF CallOK, Pending
  <2>3. QED
    BY <1>4, <2>2 DEF PendingIsRetriable, Pending, Retriable, NotRetired
<1>5. CASE /\ journal' = [journal EXCEPT ![cmd] = "committed"]
           /\ Goto(IF cmd.verb = "restore" THEN "reseed" ELSE "finish")
           /\ UNCHANGED rec
  <2>1. call'.cmd = cmd /\ call'.at = IF cmd.verb = "restore" THEN "reseed" ELSE "finish"
    BY <1>5 DEF Goto, cmd, TypeOK, Call
  <2>2. journal'[cmd] = "committed" /\ \A d \in Commands : d # cmd => journal'[d] = journal[d]
    BY <1>1, <1>5 DEF TypeOK
  <2>3. cmd.verb # "destroy"
    BY DEF ReadReceipt, StorageVerbs
  <2>4. CallOK'
    BY <1>1, <2>1, <2>2, <2>3 DEF CallOK, Pending
  <2>5. \A d \in Commands : Pending(d)' => d = cmd
    BY <1>1, <2>2 DEF PendingIsRetriable, Pending
  <2>6. PendingIsRetriable'
    BY <1>1, <1>5, <2>5 DEF PendingIsRetriable, Retriable, NotRetired
  <2>7. QED
    BY <2>4, <2>6
<1>6. QED
  BY <1>2, <1>3, <1>4, <1>5 DEF ReadReceipt

LEMMA ControlStep ==
  TypeOK /\ CallOK /\ PendingIsRetriable /\ [Next]_vars => CallOK' /\ PendingIsRetriable'
<1> SUFFICES ASSUME TypeOK, CallOK, PendingIsRetriable, [Next]_vars
             PROVE  CallOK' /\ PendingIsRetriable'
  OBVIOUS
<1>1. ASSUME NEW c \in Commands, Receive(c) PROVE CallOK' /\ PendingIsRetriable'
  <2>1. CASE Looks(c)
    <3>1. PICK s \in Sights : call' = [cmd |-> c, at |-> "admit", seen |-> s]
      BY <1>1, <2>1 DEF Receive
    <3>2. Admissible(c)' /\ UNCHANGED <<rec, journal>>
      BY <1>1, <2>1 DEF Receive, Admissible, NotRetired, KeyUsed, SameKey, MayCreate,
                        RemovedDisk, NothingPending, Pending, PriorIntent
    <3>3. CallOK'
      BY <3>1, <3>2, NoneIsNoCommand DEF CallOK
    <3>4. QED
      BY <3>2, <3>3 DEF PendingIsRetriable, Pending, Retriable, NotRetired
  <2>2. CASE ~Looks(c)
    BY <1>1, <2>2, AcceptOK DEF Receive
  <2>3. QED
    BY <2>1, <2>2
<1>2. ASSUME NEW c \in Commands, Retry(c) PROVE CallOK' /\ PendingIsRetriable'
  <2>1. /\ call'.cmd = c /\ call'.at = FirstStage(c) /\ Pending(c) /\ c # None
        /\ UNCHANGED journal
    BY <1>2, NoneIsNoCommand DEF Retry
  <2>2. CallOK'
    BY <2>1 DEF CallOK, FirstStage, Pending, StorageVerbs
  <2>3. PendingIsRetriable'
    BY <1>2 DEF Retry, PendingIsRetriable, Pending, Retriable, NotRetired, TypeOK, Rec
  <2>4. QED
    BY <2>2, <2>3
<1>3. CASE Admit
  <2>1. call # NoCall
    BY <1>3 DEF Admit, NoCall
  <2>2. call.cmd \in Commands /\ Admissible(call.cmd)
    BY <1>3, <2>1 DEF Admit, CallOK, TypeOK, Call, Token
  <2>3. QED
    BY <1>3, <2>2, AcceptOK DEF Admit
<1>4. CASE Look
  <2>1. cmd \in Commands /\ Pending(cmd) /\ cmd # None /\ cmd.verb = "start"
    BY <1>4, NoneIsNoCommand DEF Look, CallOK, NoCall, TypeOK, Call, Token, cmd
  <2>2. call'.cmd = cmd /\ call'.at \in {"exec", "reseed"} /\ UNCHANGED journal
    BY <1>4 DEF Look, Goto, cmd, TypeOK, Call
  <2>3. rec'.desired = "running"
    BY <1>4 DEF Look, TypeOK, Rec
  <2>4. CallOK'
    BY <2>1, <2>2, <2>3 DEF CallOK, Pending
  <2>5. QED
    BY <1>4, <2>4 DEF Look, PendingIsRetriable, Pending, Retriable, NotRetired, TypeOK, Rec
<1>5. CASE Answered
  BY <1>5, AnsweredOK
<1>6. CASE SettleSees
  <2>1. cmd \in Commands /\ Pending(cmd)
    BY <1>6 DEF SettleSees, CallOK, NoCall, TypeOK, Call, Token, cmd
  <2>2. QED
    BY <1>6, <2>1, GotoOK DEF SettleSees
<1>7. CASE ReadReceipt
  BY <1>7, ReadReceiptOK
<1>8. CASE Finish
  <2>1. cmd \in Commands /\ Pending(cmd)
    BY <1>8 DEF Finish, CallOK, TypeOK, Call, Token, cmd
  <2>2. QED
    BY <1>8, <2>1, SettleOK DEF Finish
<1>9. CASE Refused \/ Disturbance
  BY <1>9, LockFreed DEF Refused, Disturbance, Interrupted, ReplyLost, Abandon
<1>10. CASE Native \/ LateCallRuns \/ NativeRestarts \/ StartPoll \/ EndPoll \/ UNCHANGED vars
  BY <1>10, ControlSame DEF Native, StorageFence, StorageCompletes, StorageFails, GuestPowersOff,
     QemuExits, LateCallRuns, NativeRestarts, StartPoll, EndPoll, vars
<1>11. QED
  BY <1>1, <1>2, <1>3, <1>4, <1>5, <1>6, <1>7, <1>8, <1>9, <1>10 DEF Next, Advance

\* The inductive invariant holds in every reachable state, whatever calls
\* are lost, delayed or torn.
THEOREM Inductive == Spec => []IInv
<1>1. Init => IInv
  <2>1. Init => CallOK /\ PendingIsRetriable
    BY DEF Init, CallOK, NoCall, PendingIsRetriable, Pending
  <2>2. QED
    BY <2>1, InitType DEF IInv
<1>2. IInv /\ [Next]_vars => IInv'
  BY TypeStep, ControlStep DEF IInv
<1>3. QED
  BY <1>1, <1>2, PTL DEF Spec

\* Type correctness of HostLifecycle, for any commands and faults.
THEOREM TypeCorrect == Spec => []TypeOK
  BY Inductive, PTL DEF IInv

\* At most one operation is unfinished and its request is still accepted as a
\* retry (host-api.js, mutate), for any commands and faults.
THEOREM RetriableAlways == Spec => []PendingIsRetriable
  BY Inductive, PTL DEF IInv
-----------------------------------------------------------------------------
(* What a step does to the journal: nothing, open one command or complete  *)
(* the one that is pending.                                                *)

Opens(c) == Admissible(c) /\ Accept(c)

Completes(c, o) ==
  /\ Pending(c)
  /\ journal' = [journal EXCEPT ![c] = o]
  /\ rec'.gen = rec.gen
  /\ rec'.state = IF c.verb = "destroy" /\ o = "ok" THEN "deleted" ELSE rec.state

KeepsJournal ==
  /\ rec'.gen = rec.gen
  /\ rec'.state = rec.state
  /\ \A c \in Commands : OutcomeOf(journal'[c]) = OutcomeOf(journal[c])

LEMMA JournalStep ==
  ASSUME IInv, [Next]_vars
  PROVE  \/ KeepsJournal
         \/ \E c \in Commands : Opens(c)
         \/ \E c \in Commands, o \in {"ok", "refused"} : Completes(c, o)
<1> USE DEF IInv
<1>1. CASE UNCHANGED <<rec, journal>>
  BY <1>1 DEF KeepsJournal
<1>2. ASSUME NEW c \in Commands, Receive(c)
      PROVE  KeepsJournal \/ Opens(c)
  BY <1>2 DEF Receive, Opens, KeepsJournal
<1>3. ASSUME NEW c \in Commands, Retry(c) PROVE KeepsJournal
  BY <1>3 DEF Retry, KeepsJournal, TypeOK, Rec
<1>4. CASE Admit
  <2>1. call # NoCall
    BY <1>4 DEF Admit, NoCall
  <2>2. call.cmd \in Commands /\ Admissible(call.cmd)
    BY <1>4, <2>1 DEF Admit, CallOK, TypeOK, Call, Token
  <2>3. QED
    BY <1>4, <2>2 DEF Admit, Opens
<1>5. CASE Look
  BY <1>5 DEF Look, KeepsJournal, TypeOK, Rec
<1>6. CASE Answered
  <2>1. cmd \in Commands /\ Pending(cmd)
    BY <1>6, NativeOfType DEF Answered
  <2>2. CASE cmd.verb # "destroy" /\ Settle(RestoreOutcome, rec)
    BY <2>1, <2>2 DEF Settle, Completes, RestoreOutcome
  <2>3. CASE cmd.verb = "destroy" /\ Settle("ok", Destroyed)
    BY <2>1, <2>3 DEF Settle, Completes, Destroyed, TypeOK, Rec
  <2>4. CASE Settle("refused", [rec EXCEPT !.desired = "stopped"])
    BY <2>1, <2>4 DEF Settle, Completes, TypeOK, Rec
  <2>5. call.at = "reseed" => cmd.verb # "destroy"
    BY <2>1, NoneIsNoCommand DEF CallOK, cmd
  <2>6. QED
    BY <1>1, <1>6, <2>2, <2>3, <2>4, <2>5 DEF Answered
<1>7. CASE ReadReceipt
  <2>1. cmd \in Commands /\ Pending(cmd)
    BY <1>7 DEF ReadReceipt, CallOK, NoCall, TypeOK, Call, Token, cmd
  <2>2. CASE Settle("refused", rec)
    BY <2>1, <2>2 DEF Settle, Completes
  <2>3. CASE journal' = [journal EXCEPT ![cmd] = "committed"] /\ UNCHANGED rec
    <3>1. journal'[cmd] = "committed" /\ \A d \in Commands : d # cmd => journal'[d] = journal[d]
      BY <2>1, <2>3 DEF TypeOK
    <3>2. QED
      BY <2>1, <2>3, <3>1 DEF KeepsJournal, OutcomeOf, Pending
  <2>4. QED
    BY <1>1, <1>7, <2>2, <2>3 DEF ReadReceipt
<1>8. CASE Finish
  <2>1. cmd \in Commands /\ Pending(cmd) /\ cmd.verb # "destroy"
    BY <1>8, NoneIsNoCommand DEF Finish, CallOK, TypeOK, Call, Token, cmd
  <2>2. QED
    BY <1>8, <2>1 DEF Finish, Settle, Completes
<1>9. CASE SettleSees \/ Refused \/ Disturbance \/ Native \/ LateCallRuns \/ NativeRestarts
            \/ StartPoll \/ EndPoll \/ UNCHANGED vars
  BY <1>1, <1>9 DEF SettleSees, Refused, Disturbance, Interrupted, ReplyLost, Abandon, Native,
     StorageFence, StorageCompletes, StorageFails, GuestPowersOff, QemuExits, LateCallRuns,
     NativeRestarts, StartPoll, EndPoll, vars
<1>10. QED
  BY <1>2, <1>3, <1>4, <1>5, <1>6, <1>7, <1>8, <1>9 DEF Next, Advance

LEMMA FinalStep ==
  IInv /\ [Next]_vars => \A c \in Commands : Settled(c) => journal'[c] = journal[c]
<1> SUFFICES ASSUME IInv, [Next]_vars, NEW c \in Commands, Settled(c)
             PROVE  journal'[c] = journal[c]
  OBVIOUS
<1>1. TypeOK'
  BY TypeStep DEF IInv
<1>2. CASE KeepsJournal
  BY <1>1, <1>2 DEF KeepsJournal, OutcomeOf, Settled, TypeOK, Outcome
<1>3. ASSUME NEW d \in Commands, Opens(d) PROVE journal'[c] = journal[c]
  <2>1. c # d
    BY <1>3 DEF Opens, Admissible, KeyUsed, SameKey, Settled
  <2>2. QED
    BY <1>3, <2>1 DEF Opens, Accept, IInv, TypeOK
<1>4. ASSUME NEW d \in Commands, NEW o \in {"ok", "refused"}, Completes(d, o)
      PROVE  journal'[c] = journal[c]
  BY <1>4 DEF Completes, Pending, Settled, IInv, TypeOK
<1>5. QED
  BY <1>2, <1>3, <1>4, JournalStep

\* A saved result never changes (host-api.js, the operations map of a record).
THEOREM FinalResults == Spec => ResultsAreFinal
<1>1. IInv /\ [Next]_vars => [\A c \in Commands : Settled(c) => journal'[c] = journal[c]]_vars
  BY FinalStep
<1>2. QED
  BY <1>1, Inductive, PTL DEF Spec, ResultsAreFinal

LEMMA OutcomeFacts ==
  \A o : /\ o \in {"pending", "committed"} => OutcomeOf(o) = "open"
        /\ o \notin {"pending", "committed"} => OutcomeOf(o) = o
  BY DEF OutcomeOf

\* A machine that was never created has seen no generation.
Unborn == rec.state = "none" => rec.gen = 0

LEMMA UnbornAlways == Spec => []Unborn
<1>1. Init => Unborn
  BY DEF Init, Unborn
<1>2. ASSUME IInv, Unborn, [Next]_vars PROVE Unborn'
  <2>1. CASE KeepsJournal
    BY <1>2, <2>1 DEF KeepsJournal, Unborn
  <2>2. ASSUME NEW c \in Commands, Opens(c) PROVE Unborn'
    BY <2>2 DEF Opens, Admissible, Accept, Accepted, Unborn, IInv, TypeOK, Rec
  <2>3. ASSUME NEW c \in Commands, NEW o \in {"ok", "refused"}, Completes(c, o) PROVE Unborn'
    BY <1>2, <2>3 DEF Completes, Unborn
  <2>4. QED
    BY <1>2, <2>1, <2>2, <2>3, JournalStep
<1>3. QED
  BY <1>1, <1>2, Inductive, PTL DEF Spec

\* The handlers, with their retries, lost replies, crashes and late native
\* calls, implement the one-operation-at-a-time journal.
THEOREM Refinement == Spec => ImplementsJournal
<1>1. Init => Journal!JournalInit
  BY DEF Init, Journal!JournalInit, OutcomeOf
<1>2. ASSUME IInv, Unborn, [Next]_vars
      PROVE  [Journal!JournalNext]_(Journal!journalVars)
  <2>1. CASE KeepsJournal
    BY <2>1 DEF KeepsJournal, Journal!journalVars
  <2>2. ASSUME NEW c \in Commands, Opens(c)
        PROVE  Journal!Open(c)
    <3>1. \A d \in Commands : OutcomeOf(journal[d]) # "open"
      BY <1>2, <2>2, OutcomeFacts DEF Opens, Admissible, NothingPending, Pending, IInv, TypeOK, Outcome
    <3>2. \A d \in Commands : d.verb = c.verb /\ d.id = c.id => OutcomeOf(journal[d]) = "none"
      BY <2>2 DEF Opens, Admissible, KeyUsed, SameKey, OutcomeOf
    <3>3. c.gen >= rec.gen
      BY <1>2, <2>2, CommandFields DEF Opens, Admissible, MayCreate, Unborn, IInv, TypeOK, Rec
    <3>4. IF c.verb = "create" THEN rec.state # "live" /\ (rec.state = "deleted" => c.gen > rec.gen)
                               ELSE rec.state = "live"
      BY <2>2 DEF Opens, Admissible, MayCreate
    <3>5. rec'.gen = c.gen /\ rec'.state = "live"
      BY <2>2, <3>4 DEF Opens, Accept, Accepted, IInv, TypeOK, Rec
    <3>6. \A d \in Commands : OutcomeOf(journal'[d]) = (IF d = c THEN "open" ELSE OutcomeOf(journal[d]))
      <4>1. \A d \in Commands : journal'[d] = IF d = c THEN "pending" ELSE journal[d]
        BY <1>2, <2>2 DEF Opens, Accept, IInv, TypeOK
      <4>2. OutcomeOf("pending") = "open"
        BY DEF OutcomeOf
      <4>3. QED
        BY <4>1, <4>2
    <3>7. QED
      BY <3>1, <3>2, <3>3, <3>4, <3>5, <3>6 DEF Journal!Open
  <2>3. ASSUME NEW c \in Commands, NEW o \in {"ok", "refused"}, Completes(c, o)
        PROVE  Journal!Complete(c)
    <3>1. \A d \in Commands : OutcomeOf(journal'[d]) = (IF d = c THEN o ELSE OutcomeOf(journal[d]))
      <4>1. \A d \in Commands : journal'[d] = IF d = c THEN o ELSE journal[d]
        BY <1>2, <2>3 DEF Completes, IInv, TypeOK
      <4>2. OutcomeOf(o) = o
        BY OutcomeFacts
      <4>3. QED
        BY <4>1, <4>2
    <3>2. OutcomeOf(journal[c]) = "open"
      BY <2>3 DEF Completes, OutcomeOf, Pending
    <3>3. QED
      BY <2>3, <3>1, <3>2 DEF Completes, Journal!Complete
  <2>4. QED
    BY <1>2, <2>1, <2>2, <2>3, JournalStep DEF Journal!JournalNext
<1>3. QED
  BY <1>1, <1>2, Inductive, UnbornAlways, PTL DEF Spec, ImplementsJournal, Journal!JournalSpec
-----------------------------------------------------------------------------
(* What a native call may do to the machine. *)

LEMMA DispatchRun ==
  ASSUME TypeOK, NEW n \in NativeCall, NEW r \in Reply, Dispatch(n, r), vm.run = "stopped"
  PROVE  /\ n.op # "start" \/ vm.fenced => vm'.run = "stopped"
         /\ vm.disk = None => vm'.run = "stopped"
<1> USE DEF TypeOK, VM, NativeCall, NativeSame, Absent, NativeOp
<1>1. CASE NativeSame
  BY <1>1
<1>2. CASE n.op = "submit" /\ NativeSubmit(n, r)
  BY <1>2 DEF NativeSubmit
<1>3. CASE n.op = "create" /\ NativeCreate(n, r)
  BY <1>3 DEF NativeCreate
<1>4. CASE n.op = "start" /\ NativeStart(r)
  BY <1>4 DEF NativeStart
<1>5. CASE n.op \in {"shutdown", "force-stop"} /\ NativeStop(n.op = "force-stop", r)
  BY <1>5 DEF NativeStop
<1>6. CASE n.op = "destroy" /\ NativeDestroy(n.cmd.flag, r)
  BY <1>6 DEF NativeDestroy
<1>7. CASE n.op = "reseed" /\ NativeReseed(n, r)
  BY <1>7 DEF NativeReseed
<1>8. QED
  BY <1>1, <1>2, <1>3, <1>4, <1>5, <1>6, <1>7 DEF Dispatch

\* Only destroy removes a folder, and only one that is stopped; nothing but
\* destroy and create touches its fence; submissions are all that adds to
\* the receipts of a disk.
LEMMA DispatchDisk ==
  ASSUME TypeOK, NEW n \in NativeCall, NEW r \in Reply, Dispatch(n, r)
  PROVE  /\ vm'.disk = None => vm'.run = vm.run /\ (vm.disk = None \/ vm.run = "stopped")
         /\ n.op # "destroy" /\ ~vm.torn => ~vm'.torn
         /\ n.op # "destroy" /\ vm.disk # None => vm'.disk # None /\ vm'.fenced = vm.fenced
         /\ \/ \A c \in Commands : receipts'[c] = receipts[c]
            \/ \A c \in Commands : receipts'[c] = "none"
            \/ vm'.disk # None /\ \A c \in Commands : receipts'[c] # receipts[c] => receipts'[c] = "pending" /\ receipts[c] = "none"
         /\ vm.disk # None => \A c \in Commands : receipts'[c] # "none" \/ receipts[c] = "none"
<1> USE DEF TypeOK, VM, NativeCall, NativeSame, Absent, NativeOp
<1>1. CASE NativeSame
  BY <1>1
<1>2. CASE n.op = "submit" /\ NativeSubmit(n, r)
  <2>1. CASE /\ ~Absent
             /\ \A d \in Commands : SameKey(n.cmd, d) => receipts[d] = "none"
             /\ receipts' = [receipts EXCEPT ![n.cmd] = "pending"]
             /\ vm' = [vm EXCEPT !.sgen = n.cmd.gen]
    <3>1. receipts[n.cmd] = "none"
      BY <2>1 DEF SameKey
    <3>2. vm'.disk = vm.disk /\ vm'.run = vm.run /\ vm'.torn = vm.torn /\ vm'.fenced = vm.fenced
      BY <2>1
    <3>3. \A c \in Commands : receipts'[c] = IF c = n.cmd THEN "pending" ELSE receipts[c]
      BY <2>1
    <3>4. QED
      BY <2>1, <3>1, <3>2, <3>3
  <2>2. QED
    BY <1>1, <1>2, <2>1 DEF NativeSubmit
<1>3. CASE n.op = "create" /\ NativeCreate(n, r)
  <2>1. n.cmd # None
    BY NoneIsNoCommand
  <2>2. CASE /\ vm.disk = None
             /\ vm' = [disk |-> n.cmd, torn |-> FALSE, retained |-> FALSE, fenced |-> FALSE,
                       run |-> "stopped", seed |-> n.token, sgen |-> n.inc]
             /\ receipts' = [c \in Commands |-> "none"]
    BY <2>1, <2>2
  <2>3. QED
    BY <1>1, <1>3, <2>2 DEF NativeCreate
<1>4. CASE n.op = "start" /\ NativeStart(r)
  BY <1>4 DEF NativeStart
<1>5. CASE n.op \in {"shutdown", "force-stop"} /\ NativeStop(n.op = "force-stop", r)
  BY <1>5 DEF NativeStop
<1>6. CASE n.op = "destroy" /\ NativeDestroy(n.cmd.flag, r)
  BY <1>6 DEF NativeDestroy
<1>7. CASE n.op = "reseed" /\ NativeReseed(n, r)
  BY <1>7 DEF NativeReseed
<1>8. QED
  BY <1>1, <1>2, <1>3, <1>4, <1>5, <1>6, <1>7 DEF Dispatch

\* Only a create makes a folder, of its own command, and only a destroy
\* removes one.
LEMMA DispatchFolder ==
  ASSUME TypeOK, NEW n \in NativeCall, NEW r \in Reply, Dispatch(n, r)
  PROVE  /\ n.op # "create" => vm'.disk \in {vm.disk, None}
         /\ n.op # "destroy" /\ vm.disk # None => vm'.disk = vm.disk
         /\ vm.disk = None /\ vm'.disk # None => n.op = "create" /\ vm'.disk = n.cmd
         /\ n.op = "create" => vm'.disk \in {vm.disk, n.cmd}
<1> USE DEF TypeOK, VM, NativeCall, NativeSame, Absent, NativeOp
<1>1. CASE NativeSame
  BY <1>1
<1>2. CASE n.op = "submit" /\ NativeSubmit(n, r)
  BY <1>2 DEF NativeSubmit
<1>3. CASE n.op = "create" /\ NativeCreate(n, r)
  BY <1>3 DEF NativeCreate
<1>4. CASE n.op = "start" /\ NativeStart(r)
  BY <1>4 DEF NativeStart
<1>5. CASE n.op \in {"shutdown", "force-stop"} /\ NativeStop(n.op = "force-stop", r)
  BY <1>5 DEF NativeStop
<1>6. CASE n.op = "destroy" /\ NativeDestroy(n.cmd.flag, r)
  BY <1>6 DEF NativeDestroy
<1>7. CASE n.op = "reseed" /\ NativeReseed(n, r)
  BY <1>7 DEF NativeReseed
<1>8. QED
  BY <1>1, <1>2, <1>3, <1>4, <1>5, <1>6, <1>7 DEF Dispatch

\* What a native call does to the folder and to the token on its disk.
LEMMA SeedDispatch ==
  ASSUME TypeOK, NEW n \in NativeCall, NEW r \in Reply, Dispatch(n, r)
  PROVE  /\ n.op \notin {"create", "destroy", "reseed"} => vm'.disk = vm.disk /\ vm'.seed = vm.seed
         /\ n.op = "create" =>
              /\ vm.disk # None => vm'.disk = vm.disk /\ vm'.seed = vm.seed
              /\ vm'.disk # None /\ vm.disk = None => vm'.seed = n.token
              /\ r = "ok" => vm'.disk = n.cmd
         /\ n.op = "reseed" =>
              /\ vm'.disk = vm.disk /\ vm'.seed \in {vm.seed, n.token}
              /\ r = "ok" => vm.disk # None /\ vm'.seed = n.token
         /\ r = "limit" => n.op = "start"
<1> USE DEF TypeOK, VM, NativeCall, NativeSame, Absent, NativeOp
<1>1. CASE n.op # "submit" /\ ~Absent /\ StoragePending /\ r = "error" /\ NativeSame
  BY <1>1
<1>2. CASE n.op = "submit" /\ NativeSubmit(n, r)
  BY <1>2 DEF NativeSubmit
<1>3. CASE n.op = "create" /\ NativeCreate(n, r)
  BY <1>3, NoneIsNoCommand DEF NativeCreate
<1>4. CASE n.op = "start" /\ NativeStart(r)
  BY <1>4 DEF NativeStart
<1>5. CASE n.op \in {"shutdown", "force-stop"} /\ NativeStop(n.op = "force-stop", r)
  BY <1>5 DEF NativeStop
<1>6. CASE n.op = "destroy" /\ NativeDestroy(n.cmd.flag, r)
  BY <1>6 DEF NativeDestroy
<1>7. CASE n.op = "reseed" /\ NativeReseed(n, r)
  BY <1>7 DEF NativeReseed
<1>8. QED
  BY <1>1, <1>2, <1>3, <1>4, <1>5, <1>6, <1>7 DEF Dispatch

\* While a receipt is pending nothing but a submission touches the machine,
\* and a new folder has no receipts and no fence.
LEMMA FolderDispatch ==
  ASSUME TypeOK, NEW n \in NativeCall, NEW r \in Reply, Dispatch(n, r)
  PROVE  /\ vm.disk = None /\ vm'.disk # None =>
              ~vm'.fenced /\ \A c \in Commands : receipts'[c] = "none"
         /\ vm.disk # None /\ vm'.disk = None =>
              n.op = "destroy" /\ ~vm'.fenced /\ \A c \in Commands : receipts'[c] # "pending"
         /\ vm.disk = None /\ vm'.disk = None => vm'.fenced = vm.fenced /\ receipts' = receipts
         /\ vm.disk # None /\ vm'.disk # None =>
              /\ vm'.fenced = vm.fenced
              /\ vm'.torn => vm.torn \/ \A c \in Commands : receipts'[c] # "pending"
              /\ \A c \in Commands :
                   \/ receipts'[c] = receipts[c]
                   \/ n.op = "submit" /\ c = n.cmd /\ receipts'[c] = "pending" /\ ~vm'.torn
<1> USE DEF TypeOK, VM, NativeCall, NativeSame, Absent, NativeOp
<1>1. CASE NativeSame
  BY <1>1
<1>2. CASE n.op = "submit" /\ NativeSubmit(n, r)
  <2>1. CASE /\ ~Absent
             /\ receipts' = [receipts EXCEPT ![n.cmd] = "pending"]
             /\ vm' = [vm EXCEPT !.sgen = n.cmd.gen]
    BY <1>2, <2>1
  <2>2. QED
    BY <1>1, <1>2, <2>1 DEF NativeSubmit
<1>3. CASE n.op = "create" /\ NativeCreate(n, r)
  <2>1. CASE /\ vm.disk = None
             /\ vm' = [disk |-> n.cmd, torn |-> FALSE, retained |-> FALSE, fenced |-> FALSE,
                       run |-> "stopped", seed |-> n.token, sgen |-> n.inc]
             /\ receipts' = [c \in Commands |-> "none"]
    <3>1. vm'.disk # None
      BY <2>1, NoneIsNoCommand
    <3>2. QED
      BY <2>1, <3>1
  <2>2. QED
    BY <1>1, <1>3, <2>1 DEF NativeCreate
<1>4. CASE n.op = "start" /\ NativeStart(r)
  BY <1>4 DEF NativeStart
<1>5. CASE n.op \in {"shutdown", "force-stop"} /\ NativeStop(n.op = "force-stop", r)
  BY <1>5 DEF NativeStop
<1>6. CASE n.op = "destroy" /\ NativeDestroy(n.cmd.flag, r) /\ (Absent \/ ~StoragePending)
  BY <1>6 DEF NativeDestroy, StoragePending
<1>7. CASE n.op = "reseed" /\ NativeReseed(n, r)
  BY <1>7 DEF NativeReseed
<1>8. QED
  BY <1>1, <1>2, <1>3, <1>4, <1>5, <1>6, <1>7 DEF Dispatch
-----------------------------------------------------------------------------
(* Launches, release evidence and deletion: which abandoned calls they     *)
(* need never to run.                                                      *)

\* No abandoned call of one of these operations changes the machine.
NoLate(ops) ==
  LateCallRuns => \/ UNCHANGED <<vm, receipts>>
                  \/ \E n \in late, r \in Reply : n.op \notin ops /\ Dispatch(n, r)

LEMMA NoLateFewer ==
  ASSUME NEW ops, NEW more, ops \subseteq more, [NoLate(more)]_vars
  PROVE  [NoLate(ops)]_vars
BY DEF NoLate

\* Where nothing is abandoned none of them ever does.
LEMMA NoLateAlways ==
  ASSUME "late" \notin Faults, NEW ops
  PROVE  Spec => [][NoLate(ops)]_vars
<1> DEFINE None_ == late = {}
<1>1. Init => None_
  BY DEF Init
<1>2. None_ /\ [Next]_vars => None_'
  BY DEF Next, Receive, Accept, Retry, Advance, Admit, Refused, Look, Answered, SettleSees,
     ReadReceipt, Finish, Disturbance, Interrupted, ReplyLost, Abandon, Native, StorageFence,
     StorageCompletes, StorageFails, GuestPowersOff, QemuExits, LateCallRuns, NativeRestarts,
     StartPoll, EndPoll, vars
<1>3. None_ => [NoLate(ops)]_vars
  BY DEF NoLate, LateCallRuns
<1>4. QED
  BY <1>1, <1>2, <1>3, PTL DEF Spec

\* A stopped machine is launched by the native call of a pending start.
LEMMA LaunchStep ==
  ASSUME IInv, [NoLate({"start"})]_vars, [Next]_vars, vm.run = "stopped", vm'.run # "stopped"
  PROVE  /\ vm.disk # None
         /\ rec.desired = "running"
         /\ \E c \in Commands : c.verb = "start" /\ Pending(c)
<1> USE DEF IInv
<1>1. ASSUME Calls, NEW r \in Reply, Dispatch(NativeOf, r)
      PROVE  /\ vm.disk # None
             /\ rec.desired = "running"
             /\ \E c \in Commands : c.verb = "start" /\ Pending(c)
  <2>1. NativeOf \in NativeCall /\ cmd \in Commands /\ Pending(cmd)
    BY <1>1, NativeOfType
  <2>2. NativeOf.op = "start" /\ vm.disk # None
    BY <1>1, <2>1, DispatchRun
  <2>3. cmd.verb = "start" /\ call.at = "exec"
    BY <1>1, <2>2 DEF NativeOf, Calls, StorageVerbs
  <2>4. rec.desired = "running"
    BY <2>1, <2>3, NoneIsNoCommand DEF CallOK, cmd
  <2>5. QED
    BY <2>1, <2>2, <2>3, <2>4
<1>2. CASE Answered
  BY <1>1, <1>2 DEF Answered
<1>3. CASE ReplyLost
  BY <1>1, <1>3 DEF ReplyLost
<1>4. CASE Native
  BY <1>4 DEF Native, StorageFence, StorageCompletes, StorageFails, GuestPowersOff, QemuExits, TypeOK, VM
<1>5. CASE UNCHANGED vm
  BY <1>5
<1>6. ~LateCallRuns
  <2>1. SUFFICES ASSUME LateCallRuns PROVE FALSE
    OBVIOUS
  <2>2. vm' # vm
    OBVIOUS
  <2>3. PICK n \in late, r \in Reply : n.op # "start" /\ Dispatch(n, r)
    BY <2>1, <2>2 DEF NoLate, vars
  <2>4. n \in NativeCall
    BY DEF TypeOK
  <2>5. QED
    BY <2>3, <2>4, DispatchRun
<1>7. QED
  BY <1>2, <1>3, <1>4, <1>5, <1>6 DEF Next, Receive, Accept, Retry, Advance, Admit, Refused, Look,
     SettleSees, ReadReceipt, Finish, Disturbance, Interrupted, Abandon, NativeRestarts,
     StartPoll, EndPoll, vars

\* QEMU is launched only for a pending start whose intent is saved
\* (host.py, start), unless a start the core gave up on launches it.
THEOREM LaunchesWanted == Spec /\ [][NoLate({"start"})]_vars => LaunchIsWanted
<1>1. IInv /\ [NoLate({"start"})]_vars /\ [Next]_vars =>
        [vm.run = "stopped" /\ vm'.run = "running"
           => rec.desired = "running" /\ \E c \in Commands : c.verb = "start" /\ Pending(c)]_vars
  BY LaunchStep
<1>2. QED
  BY <1>1, Inductive, PTL DEF Spec, LaunchIsWanted

LEMMA KnownStep ==
  ASSUME IInv, [Next]_vars, NEW c \in Commands, journal[c] # "none"
  PROVE  journal'[c] # "none"
<1>1. CASE KeepsJournal
  BY <1>1 DEF KeepsJournal, OutcomeOf, IInv, TypeOK, Outcome
<1>2. ASSUME NEW d \in Commands, Opens(d) PROVE journal'[c] # "none"
  BY <1>2 DEF Opens, Accept, IInv, TypeOK
<1>3. ASSUME NEW d \in Commands, NEW o \in {"ok", "refused"}, Completes(d, o)
      PROVE  journal'[c] # "none"
  BY <1>3 DEF Completes, IInv, TypeOK
<1>4. QED
  BY <1>1, <1>2, <1>3, JournalStep

LEMMA PollStep == IInv /\ [NoLate({"start"})]_vars /\ PollOK /\ [Next]_vars => PollOK'
<1> SUFFICES ASSUME IInv, [NoLate({"start"})]_vars, PollOK, [Next]_vars
             PROVE  PollOK'
  OBVIOUS
<1>1. CASE UNCHANGED poll
  <2> SUFFICES ASSUME poll # NoPoll PROVE PollOK'
    BY <1>1 DEF PollOK, NoPoll
  <2>1. \A c \in poll.rev.settled : c \in Commands /\ Settled(c) /\ Settled(c)'
    BY FinalStep DEF PollOK, Settled
  <2>2. \A c \in poll.rev.known : c \in Commands /\ journal'[c] # "none"
    BY KnownStep DEF PollOK
  <2>3. ASSUME poll.seen = "stopped",
               \A c \in Commands : journal'[c] # "none" => c \in poll.rev.known /\ c \in poll.rev.settled
        PROVE  vm'.run = "stopped"
    <3>1. \A c \in Commands : journal[c] # "none" => Settled(c) /\ c \in poll.rev.known /\ c \in poll.rev.settled
      BY <2>1, <2>3, KnownStep
    <3>2. vm.run = "stopped"
      BY <2>3, <3>1 DEF PollOK
    <3>3. \A c \in Commands : ~Pending(c)
      BY <3>1 DEF Settled, Pending
    <3>4. QED
      BY <3>2, <3>3, LaunchStep
  <2>4. QED
    BY <1>1, <2>1, <2>2, <2>3 DEF PollOK
<1>2. CASE StartPoll
  <2>1. PICK s \in Sights : poll' = [rev |-> Revision, seen |-> s]
    BY <1>2 DEF StartPoll
  <2>2. UNCHANGED <<journal, vm>>
    BY <1>2 DEF StartPoll
  <2>3. s = "stopped" => vm.run = "stopped"
    BY DEF Sights, IInv, TypeOK, VM
  <2>4. QED
    BY <2>1, <2>2, <2>3 DEF PollOK, Revision, Settled
<1>3. CASE EndPoll
  BY <1>3 DEF EndPoll, PollOK, NoPoll
<1>4. QED
  BY <1>1, <1>2, <1>3 DEF Next, Receive, Accept, Retry, Advance, Admit, Refused, Look, Answered,
     SettleSees, ReadReceipt, Finish, Disturbance, Interrupted, ReplyLost, Abandon, Native,
     StorageFence, StorageCompletes, StorageFails, GuestPowersOff, QemuExits, LateCallRuns,
     NativeRestarts, vars

\* A stopped report is release evidence (host-api.js, hostDescription and
\* describe), whatever else the core gave up on, as long as no start does.
THEOREM Releases == Spec /\ [][NoLate({"start"})]_vars => []ReleaseEvidence
<1>1. Init => PollOK
  BY DEF Init, PollOK
<1>2. IInv /\ PollOK => ReleaseEvidence
  <2> SUFFICES ASSUME IInv, PollOK, ReportsStopped
               PROVE  vm.run = "stopped"
    BY DEF ReleaseEvidence
  <2>1. poll.rev = Revision /\ poll.seen = "stopped" /\ poll # NoPoll
    BY DEF ReportsStopped
  <2>2. \A c \in Commands : journal[c] # "none" => Settled(c)
    BY DEF ReportsStopped, NothingPending, Pending, Settled, IInv, TypeOK, Outcome
  <2>3. QED
    BY <2>1, <2>2 DEF PollOK, Revision
<1>3. QED
  BY <1>1, <1>2, PollStep, Inductive, PTL DEF Spec

\* A machine without a folder does not run, and none but a live one has a
\* folder.
GoneOK ==
  /\ vm.disk = None => vm.run = "stopped"
  /\ rec.state # "live" => vm.disk = None

LEMMA GoneStep == IInv /\ [NoLate({"create"})]_vars /\ GoneOK /\ [Next]_vars => GoneOK'
<1> SUFFICES ASSUME IInv, [NoLate({"create"})]_vars, GoneOK, [Next]_vars
             PROVE  GoneOK'
  OBVIOUS
<1> USE DEF GoneOK, IInv
<1>1. ASSUME Calls, NEW r \in Reply, Dispatch(NativeOf, r)
      PROVE  /\ rec.state = "live"
             /\ vm'.disk = None => vm'.run = "stopped"
  <2>1. NativeOf \in NativeCall /\ cmd \in Commands /\ Pending(cmd)
    BY <1>1, NativeOfType
  <2>2. QED
    BY <1>1, <2>1, DispatchDisk DEF PendingIsRetriable, Retriable
<1>2. CASE Answered
  <2>1. PICK r \in Reply : Dispatch(NativeOf, r) /\ Calls
    BY <1>2 DEF Answered
  <2>2. CASE rec'.state = "live"
    BY <1>1, <2>1, <2>2
  <2>3. CASE rec'.state # "live"
    <3>1. PICK q \in Reply : /\ Dispatch(NativeOf, q)
                             /\ Confirms(q) /\ call.at = "exec" /\ cmd.verb = "destroy"
      <4>1. rec.state = "live"
        BY <1>1, <2>1
      <4>2. [rec EXCEPT !.desired = "stopped"].state = "live"
        BY <4>1 DEF TypeOK, Rec
      <4>3. QED
        BY <1>2, <2>3, <4>1, <4>2 DEF Answered, Settle
    <3>2. q = "ok" /\ NativeOf.op = "destroy"
      BY <3>1 DEF Confirms, NativeOf, StorageVerbs
    <3>3. NativeDestroy(NativeOf.cmd.flag, q)
      BY <3>1, <3>2 DEF Dispatch
    <3>4. vm'.disk = None
      BY <3>2, <3>3 DEF NativeDestroy, TypeOK, VM
    <3>5. QED
      BY <1>1, <2>1, <3>4
  <2>4. QED
    BY <2>2, <2>3
<1>3. CASE ReplyLost
  BY <1>1, <1>3 DEF ReplyLost
<1>4. CASE Native
  BY <1>4 DEF Native, StorageFence, StorageCompletes, StorageFails, GuestPowersOff, QemuExits, TypeOK, VM
<1>5. CASE LateCallRuns
  <2>1. UNCHANGED rec
    BY <1>5 DEF LateCallRuns
  <2>2. CASE UNCHANGED vm
    BY <2>1, <2>2
  <2>3. CASE vm' # vm
    <3>1. PICK n \in late, r \in Reply : n.op # "create" /\ Dispatch(n, r)
      BY <1>5, <2>3 DEF NoLate, vars
    <3>2. n \in NativeCall
      BY DEF TypeOK
    <3>3. vm'.disk = None => vm'.run = "stopped"
      BY <3>1, <3>2, DispatchDisk
    <3>4. vm.disk = None => vm'.disk = None
      BY <3>1, <3>2, DispatchFolder
    <3>5. QED
      BY <2>1, <3>3, <3>4
  <2>4. QED
    BY <2>2, <2>3
<1>6. CASE UNCHANGED vm /\ (rec'.state = rec.state \/ rec'.state = "live")
  BY <1>6
<1>7. ASSUME NEW c \in Commands, Accept(c) PROVE UNCHANGED vm /\ (rec'.state = rec.state \/ rec'.state = "live")
  BY <1>7 DEF Accept, Accepted, TypeOK, Rec
<1>8. ASSUME NEW c \in Commands, Receive(c) \/ Retry(c)
      PROVE  UNCHANGED vm /\ (rec'.state = rec.state \/ rec'.state = "live")
  BY <1>7, <1>8 DEF Receive, Retry, TypeOK, Rec
<1>9. CASE Admit
  <2>1. call.cmd \in Commands /\ Accept(call.cmd)
    BY <1>9 DEF Admit, CallOK, NoCall, TypeOK, Call, Token
  <2>2. QED
    BY <1>6, <1>7, <2>1
<1>10. CASE Look \/ ReadReceipt \/ Finish
  BY <1>6, <1>10 DEF Look, ReadReceipt, Finish, Settle, TypeOK, Rec
<1>11. CASE UNCHANGED <<rec, vm>>
  BY <1>6, <1>11
<1>12. QED
  BY <1>2, <1>3, <1>4, <1>5, <1>6, <1>8, <1>9, <1>10, <1>11 DEF Next, Advance, Refused, SettleSees,
     Disturbance, Interrupted, Abandon, NativeRestarts, StartPoll, EndPoll, vars

\* A deleted machine stays gone (host.py, destroy), unless a create the core
\* gave up on brings it back.
THEOREM StaysGone == Spec /\ [][NoLate({"create"})]_vars => []DestroyedStaysGone
<1>1. Init => GoneOK
  BY DEF Init, GoneOK
<1>2. GoneOK => DestroyedStaysGone
  BY DEF GoneOK, DestroyedStaysGone
<1>3. QED
  BY <1>1, <1>2, GoneStep, Inductive, PTL DEF Spec
-----------------------------------------------------------------------------
(* What every step leaves to the operations that are pending.              *)

\* Unless an operation opens, nothing becomes pending and the record keeps
\* its incarnation and its fence.
LEMMA OpenedOnly ==
  ASSUME IInv, [Next]_vars, \A c \in Commands : ~Opens(c)
  PROVE  /\ \A c \in Commands : Pending(c)' => Pending(c)
         /\ rec'.inc = rec.inc /\ rec'.fenced = rec.fenced
         /\ rec'.state = "live" => rec.state = "live"
<1> USE DEF IInv
<1>1. ASSUME NEW c \in Commands, Pending(c)' PROVE Pending(c)
  <2>1. CASE KeepsJournal
    <3>1. journal'[c] \in {"pending", "committed"}
      BY <1>1 DEF Pending
    <3>2. OutcomeOf(journal'[c]) = "open"
      BY <3>1 DEF OutcomeOf
    <3>3. OutcomeOf(journal[c]) = "open"
      BY <2>1, <3>2 DEF KeepsJournal
    <3>4. QED
      BY <3>3, OutcomeFacts DEF TypeOK, Outcome, Pending
  <2>2. ASSUME NEW d \in Commands, NEW o \in {"ok", "refused"}, Completes(d, o) PROVE Pending(c)
    BY <1>1, <2>2 DEF Completes, TypeOK, Pending
  <2>3. QED
    BY <2>1, <2>2, JournalStep
<1>2. rec'.state = "live" => rec.state = "live"
  BY JournalStep DEF KeepsJournal, Completes
<1>3. \A c \in Commands : ~(Receive(c) /\ ~Looks(c)) /\ ~(Admit /\ c = call.cmd)
  BY DEF Receive, Opens, Admit, CallOK, NoCall, TypeOK, Call, Token
<1>4. ~Admit
  BY <1>3 DEF Admit, CallOK, NoCall, TypeOK, Call, Token
<1>5. rec'.inc = rec.inc /\ rec'.fenced = rec.fenced
  <2>1. CASE Answered
    BY <2>1 DEF Answered, Settle, Destroyed, TypeOK, Rec
  <2>2. ASSUME NEW c \in Commands, Receive(c) \/ Retry(c)
        PROVE  rec'.inc = rec.inc /\ rec'.fenced = rec.fenced
    BY <1>3, <2>2 DEF Receive, Retry, TypeOK, Rec
  <2>3. CASE Look \/ ReadReceipt \/ Finish
    BY <2>3 DEF Look, ReadReceipt, Finish, Settle, TypeOK, Rec
  <2>4. CASE UNCHANGED rec
    BY <2>4
  <2>5. QED
    BY <1>4, <2>1, <2>2, <2>3, <2>4 DEF Next, Advance, Refused, SettleSees, Disturbance, Interrupted,
       ReplyLost, Abandon, Native, StorageFence, StorageCompletes, StorageFails, GuestPowersOff,
       QemuExits, LateCallRuns, NativeRestarts, StartPoll, EndPoll, vars
<1>6. QED
  BY <1>1, <1>2, <1>5

\* What opens is new, and alone.
LEMMA OpenedFacts ==
  ASSUME IInv, NEW c \in Commands, Opens(c)
  PROVE  /\ journal[c] = "none" /\ \A d \in Commands : ~Pending(d)
         /\ \A d \in Commands : journal'[d] = IF d = c THEN "pending" ELSE journal[d]
         /\ rec' = Accepted(c) /\ rec'.state = "live" /\ UNCHANGED <<vm, receipts, late>>
         /\ call'.cmd = c /\ call'.at # "finish"
         /\ c.verb = "create" => rec.state \in {"none", "deleted"} /\ rec'.token = c
         /\ c.verb # "create" => rec.state = "live"
<1> USE DEF IInv, TypeOK
<1>1. journal[c] = "none" /\ \A d \in Commands : ~Pending(d)
  BY DEF Opens, Admissible, KeyUsed, SameKey, NothingPending
<1>2. /\ \A d \in Commands : journal'[d] = IF d = c THEN "pending" ELSE journal[d]
      /\ rec' = Accepted(c) /\ UNCHANGED <<vm, receipts, late>>
      /\ call' = [cmd |-> c, at |-> FirstStage(c), seen |-> "unknown"]
  BY DEF Opens, Accept
<1>3. FirstStage(c) # "finish"
  BY <1>1 DEF FirstStage
<1>4. CASE c.verb = "create"
  BY <1>1, <1>2, <1>3, <1>4 DEF Opens, Admissible, MayCreate, Accepted
<1>5. CASE c.verb # "create"
  BY <1>1, <1>2, <1>3, <1>5 DEF Opens, Admissible, Accepted, Rec
<1>6. QED
  BY <1>4, <1>5

\* The native call of the pending command, and of which operation it is.
LEMMA CallFacts ==
  ASSUME IInv, Calls
  PROVE  /\ NativeOf \in NativeCall /\ cmd \in Commands /\ Pending(cmd) /\ cmd # None
         /\ rec.state = "live" /\ \A c \in Commands : Pending(c) => c = cmd
         /\ NativeOf.cmd = cmd /\ NativeOf.token = rec.token /\ NativeOf.inc = rec.inc
         /\ call.at = "reseed" => cmd.verb \in {"start", "restore"}
         /\ call.at = "settle" => cmd.verb = "destroy"
         /\ NativeOf.op = "create" => cmd.verb = "create"
         /\ NativeOf.op = "destroy" => cmd.verb = "destroy"
         /\ NativeOf.op = "start" => cmd.verb = "start"
         /\ call.at = "exec" /\ cmd.verb = "create" => NativeOf.op = "create"
         /\ call.at = "reseed" => NativeOf.op = "reseed"
         /\ NativeOf.op = "reseed" => call.at = "reseed"
         /\ call.at = "exec" => NativeOf.op = IF cmd.verb \in StorageVerbs THEN "submit" ELSE cmd.verb
<1>1. /\ NativeOf \in NativeCall /\ cmd \in Commands /\ Pending(cmd) /\ cmd # None
      /\ rec.state = "live" /\ \A c \in Commands : Pending(c) => c = cmd
  BY NativeOfType, NoneIsNoCommand DEF IInv, PendingIsRetriable, Retriable
<1>2. NativeOf.cmd = cmd /\ NativeOf.token = rec.token /\ NativeOf.inc = rec.inc
  BY DEF NativeOf
<1>3. /\ call.at = "reseed" => cmd.verb \in {"start", "restore"}
      /\ call.at = "settle" => cmd.verb = "destroy"
  BY <1>1 DEF IInv, CallOK, cmd
<1>4. call.at = "exec" /\ cmd.verb = "create" => NativeOf.op = "create"
  BY DEF NativeOf, StorageVerbs
<1>5. /\ NativeOf.op = "create" => cmd.verb = "create"
      /\ NativeOf.op = "destroy" => cmd.verb = "destroy"
      /\ NativeOf.op = "start" => cmd.verb = "start"
  BY DEF NativeOf
<1>6. call.at = "reseed" => NativeOf.op = "reseed"
  BY DEF NativeOf
<1>7. NativeOf.op = "reseed" => call.at = "reseed"
  BY <1>1, CommandFields DEF NativeOf, LifecycleVerbs, StorageVerbs
<1>8. call.at = "exec" => NativeOf.op = IF cmd.verb \in StorageVerbs THEN "submit" ELSE cmd.verb
  <2>1. CASE cmd.verb \in StorageVerbs
    BY <2>1 DEF NativeOf
  <2>2. CASE cmd.verb \notin StorageVerbs
    BY <2>2 DEF NativeOf
  <2>3. QED
    BY <2>1, <2>2
<1>9. QED
  BY <1>1, <1>2, <1>3, <1>4, <1>5, <1>6, <1>7, <1>8

\* What the answer to a native call is taken for.
AnswerTaken(r) ==
  \/ /\ Confirms(r) /\ call.at = "reseed"
     /\ IF cmd.verb = "start" THEN Goto("exec") /\ UNCHANGED <<rec, journal>>
                              ELSE Settle(RestoreOutcome, rec)
  \/ /\ Confirms(r) /\ call.at = "settle"
     /\ Goto("wait") /\ UNCHANGED <<rec, journal>>
  \/ /\ Confirms(r) /\ call.at = "exec" /\ cmd.verb = "destroy"
     /\ Settle("ok", Destroyed)
  \/ /\ Confirms(r) /\ call.at = "exec" /\ cmd.verb # "destroy"
     /\ Goto(IF cmd.verb \in StorageVerbs THEN "wait" ELSE "finish")
     /\ UNCHANGED <<rec, journal>>
  \/ /\ r = "limit" /\ call.at = "exec"
     /\ Settle("refused", [rec EXCEPT !.desired = "stopped"])
  \/ /\ r \in {"gone", "unfit"} /\ ~Confirms(r)
     /\ call' = NoCall /\ UNCHANGED <<rec, journal>>

LEMMA AnswerFacts ==
  ASSUME Answered
  PROVE  /\ Calls
         /\ \E r \in Reply : Dispatch(NativeOf, r) /\ AnswerTaken(r)
         /\ UNCHANGED <<late, poll>>
BY DEF Answered, AnswerTaken

-----------------------------------------------------------------------------
(* Clones and folders, whatever runs late. *)

\* A folder was cloned by a create the journal knows; a create that is still
\* pending, or late, clones the token and the incarnation it was accepted with.
ClonesKnown ==
  /\ vm.disk # None => journal[vm.disk] # "none"
  /\ \A c \in Commands : c.verb = "create" /\ Pending(c) => rec.token = c
  /\ \A n \in late : journal[n.cmd] # "none"
  /\ \A n \in late : n.op = "create" =>
       n.token = n.cmd /\ (Pending(n.cmd) => n.inc = rec.inc)

\* An answer leaves the token alone, unless it settles what was pending.
LEMMA TokenKept ==
  ASSUME IInv, [Next]_vars, \A c \in Commands : ~Opens(c),
         NEW c \in Commands, Pending(c), Pending(c)'
  PROVE  rec'.token = rec.token
<1> USE DEF IInv
<1>1. CASE Answered
  <2>1. cmd \in Commands /\ Pending(cmd) /\ c = cmd
    BY <1>1, CallFacts, AnswerFacts
  <2>2. \A r : \A o \in {"ok", "refused"} : ~Settle(o, r)
    BY <2>1 DEF Settle, Pending, TypeOK
  <2>3. RestoreOutcome \in {"ok", "refused"}
    BY DEF RestoreOutcome
  <2>4. QED
    BY <1>1, <2>2, <2>3 DEF Answered
<1>2. ~Admit
  BY DEF Opens, Admit, CallOK, NoCall, TypeOK, Call, Token
<1>3. CASE \E d \in Commands : Receive(d) \/ Retry(d)
  BY <1>3 DEF Receive, Opens, Retry, TypeOK, Rec
<1>4. CASE Look \/ ReadReceipt \/ Finish
  BY <1>4 DEF Look, ReadReceipt, Finish, Settle, TypeOK, Rec
<1>5. CASE UNCHANGED rec
  BY <1>5
<1>6. QED
  BY <1>1, <1>2, <1>3, <1>4, <1>5 DEF Next, Advance, Refused, SettleSees, Disturbance, Interrupted,
     ReplyLost, Abandon, Native, StorageFence, StorageCompletes, StorageFails, GuestPowersOff,
     QemuExits, LateCallRuns, NativeRestarts, StartPoll, EndPoll, vars

\* Only a create the journal knows makes a folder.
LEMMA FolderKnown ==
  ASSUME IInv, ClonesKnown, [Next]_vars
  PROVE  vm'.disk # None => journal[vm'.disk] # "none"
<1> USE DEF IInv
<1>1. ASSUME NEW n \in NativeCall, NEW r \in Reply, Dispatch(n, r), journal[n.cmd] # "none"
      PROVE  vm'.disk # None => journal[vm'.disk] # "none"
  BY <1>1, DispatchFolder DEF ClonesKnown, NativeCall
<1>2. Calls => NativeOf \in NativeCall /\ journal[NativeOf.cmd] # "none"
  BY CallFacts DEF Pending
<1>3. CASE Answered \/ ReplyLost
  BY <1>1, <1>2, <1>3 DEF Answered, ReplyLost
<1>4. CASE LateCallRuns
  BY <1>1, <1>4 DEF LateCallRuns, ClonesKnown, TypeOK
<1>5. CASE Native
  BY <1>5 DEF Native, StorageFence, StorageCompletes, StorageFails, GuestPowersOff, QemuExits,
              TypeOK, VM, ClonesKnown
<1>6. CASE UNCHANGED vm
  BY <1>6 DEF ClonesKnown
<1>7. QED
  BY <1>3, <1>4, <1>5, <1>6 DEF Next, Receive, Accept, Retry, Advance, Admit, Refused, Look,
     SettleSees, ReadReceipt, Finish, Disturbance, Interrupted, Abandon, NativeRestarts,
     StartPoll, EndPoll, vars

\* What is late was late before, or is the call that is abandoned.
LEMMA LateOnly ==
  ASSUME [Next]_vars, NEW n \in late', n \notin late
  PROVE  Abandon /\ Calls /\ n = NativeOf /\ UNCHANGED <<rec, journal, vm, receipts>>
<1>1. Abandon
  BY DEF Next, Receive, Accept, Retry, Advance, Admit, Refused, Look, Answered, SettleSees,
     ReadReceipt, Finish, Disturbance, Interrupted, ReplyLost, Native, StorageFence,
     StorageCompletes, StorageFails, GuestPowersOff, QemuExits, LateCallRuns, NativeRestarts,
     StartPoll, EndPoll, vars
<1>2. QED
  BY <1>1 DEF Abandon

LEMMA CloneStep == IInv /\ ClonesKnown /\ [Next]_vars => ClonesKnown'
<1> SUFFICES ASSUME IInv, ClonesKnown, [Next]_vars
             PROVE  ClonesKnown'
  OBVIOUS
<1> USE DEF IInv
<1>1. vm'.disk # None => journal'[vm'.disk] # "none"
  <2>1. vm'.disk \in Commands \cup {None}
    BY TypeStep DEF TypeOK, VM, Token
  <2>2. QED
    BY <2>1, FolderKnown, KnownStep
<1>2. ASSUME NEW n \in late'
      PROVE  /\ journal'[n.cmd] # "none"
             /\ n.op = "create" => n.token = n.cmd /\ (Pending(n.cmd)' => n.inc = rec'.inc)
  <2>1. CASE n \in late
    <3>1. n.cmd \in Commands /\ journal[n.cmd] # "none"
      BY <2>1 DEF ClonesKnown, TypeOK, NativeCall
    <3>2. ASSUME Pending(n.cmd)' PROVE Pending(n.cmd) /\ rec'.inc = rec.inc
      <4>1. \A c \in Commands : ~Opens(c)
        BY <3>1, <3>2, OpenedFacts DEF Pending
      <4>2. QED
        BY <3>1, <3>2, <4>1, OpenedOnly
    <3>3. QED
      BY <2>1, <3>1, <3>2, KnownStep DEF ClonesKnown
  <2>2. CASE n \notin late
    <3>1. Abandon /\ Calls /\ n = NativeOf /\ UNCHANGED <<rec, journal, vm, receipts>>
      BY <2>2, LateOnly
    <3>2. /\ n.cmd \in Commands /\ Pending(n.cmd) /\ n.token = rec.token /\ n.inc = rec.inc
          /\ n.op = "create" => n.cmd.verb = "create"
      BY <3>1, CallFacts
    <3>3. QED
      BY <3>1, <3>2 DEF ClonesKnown, Pending
  <2>3. QED
    BY <2>1, <2>2
<1>3. ASSUME NEW c \in Commands, c.verb = "create", Pending(c)'
      PROVE  rec'.token = c
  <2>1. ASSUME NEW d \in Commands, Opens(d) PROVE rec'.token = c
    BY <1>3, <2>1, OpenedFacts DEF Pending
  <2>2. CASE \A d \in Commands : ~Opens(d)
    BY <1>3, <2>2, OpenedOnly, TokenKept DEF ClonesKnown
  <2>3. QED
    BY <2>1, <2>2
<1>4. QED
  BY <1>1, <1>2, <1>3 DEF ClonesKnown

LEMMA ClonesAlways == Spec => []ClonesKnown
<1>1. Init => ClonesKnown
  BY DEF Init, ClonesKnown, Pending
<1>2. QED
  BY <1>1, CloneStep, Inductive, PTL DEF Spec

\* A live machine has a folder, unless it is being created or destroyed.
Present ==
  /\ rec.state = "live" =>
       vm.disk # None \/ \E c \in Commands : Pending(c) /\ c.verb \in {"create", "destroy"}
  /\ call # NoCall /\ call.at = "finish" =>
       vm.disk # None /\ (cmd.verb = "create" => vm.disk = cmd)

LEMMA PresentKept ==
  ASSUME Present, UNCHANGED journal, rec'.state = rec.state, vm.disk # None => vm'.disk = vm.disk,
         UNCHANGED call \/ call' = NoCall \/ call'.at # "finish"
  PROVE  Present'
BY DEF Present, Pending, cmd

LEMMA PresentPending ==
  ASSUME IInv, Present, NEW c \in Commands, Pending(c), c.verb \notin {"create", "destroy"}
  PROVE  vm.disk # None
BY DEF IInv, Present, PendingIsRetriable, Retriable

LEMMA PresentOpened ==
  ASSUME IInv, Present, NEW c \in Commands, Opens(c)
  PROVE  Present'
<1>1. CASE c.verb = "create"
  BY <1>1, OpenedFacts DEF Present, Pending
<1>2. CASE c.verb # "create"
  BY <1>2, OpenedFacts DEF Present, Pending
<1>3. QED
  BY <1>1, <1>2

LEMMA PresentAnswered ==
  ASSUME IInv, Present, Answered
  PROVE  Present'
<1> USE DEF IInv
<1>1. PICK r \in Reply : Dispatch(NativeOf, r) /\ AnswerTaken(r)
  BY AnswerFacts
<1>2. Calls
  BY AnswerFacts
<1>3. /\ cmd \in Commands /\ Pending(cmd) /\ cmd # None /\ rec.state = "live"
      /\ NativeOf \in NativeCall /\ NativeOf.cmd = cmd
      /\ call.at = "reseed" => cmd.verb \in {"start", "restore"}
      /\ call.at = "settle" => cmd.verb = "destroy"
      /\ NativeOf.op = "destroy" => cmd.verb = "destroy"
      /\ call.at = "exec" /\ cmd.verb = "create" => NativeOf.op = "create"
      /\ r = "limit" => cmd.verb = "start"
  <2>1. r = "limit" => NativeOf.op = "start"
    BY <1>1, <1>2, CallFacts, SeedDispatch
  <2>2. QED
    BY <1>2, <2>1, CallFacts
<1>4. \A at : Goto(at) => call'.at = at /\ call'.cmd = cmd
  BY DEF Goto, TypeOK, Call, cmd
<1>5. CASE cmd.verb \notin {"create", "destroy"}
  <2>1. vm'.disk # None
    BY <1>1, <1>3, <1>5, PresentPending, DispatchFolder
  <2>2. call' = NoCall \/ call'.cmd = cmd
    BY <1>1, <1>4 DEF AnswerTaken, Settle
  <2>3. QED
    BY <1>5, <2>1, <2>2 DEF Present, cmd
<1>6. CASE cmd.verb = "create"
  <2>1. CASE call' = NoCall /\ UNCHANGED <<rec, journal>>
    BY <1>3, <1>6, <2>1 DEF Present, Pending
  <2>2. CASE Confirms(r) /\ call.at = "exec" /\ Goto("finish") /\ UNCHANGED <<rec, journal>>
    <3>1. vm'.disk = cmd
      BY <1>1, <1>3, <1>6, <2>2, SeedDispatch DEF Confirms
    <3>2. call'.cmd = cmd /\ call'.at = "finish"
      BY <1>4, <2>2
    <3>3. QED
      BY <1>3, <3>1, <3>2 DEF Present, cmd
  <2>3. QED
    BY <1>1, <1>3, <1>6, <2>1, <2>2 DEF AnswerTaken, StorageVerbs
<1>7. CASE cmd.verb = "destroy"
  <2>1. CASE UNCHANGED <<rec, journal>> /\ (call' = NoCall \/ call'.at # "finish")
    BY <1>3, <1>7, <2>1 DEF Present, Pending
  <2>2. CASE Settle("ok", Destroyed)
    BY <2>2 DEF Settle, Destroyed, Present, TypeOK, Rec
  <2>3. QED
    BY <1>1, <1>3, <1>4, <1>7, <2>1, <2>2 DEF AnswerTaken
<1>8. QED
  BY <1>5, <1>6, <1>7

LEMMA PresentStep ==
  IInv /\ [NoLate({"destroy"})]_vars /\ Present /\ [Next]_vars => Present'
<1> SUFFICES ASSUME IInv, [NoLate({"destroy"})]_vars, Present, [Next]_vars
             PROVE  Present'
  OBVIOUS
<1> USE DEF IInv
<1>1. ASSUME NEW c \in Commands, Receive(c) PROVE Present'
  <2>1. CASE Looks(c)
    BY <1>1, <2>1, PresentKept DEF Receive
  <2>2. CASE ~Looks(c)
    BY <1>1, <2>2, PresentOpened DEF Receive, Opens
  <2>3. QED
    BY <2>1, <2>2
<1>2. CASE Admit
  <2>1. call.cmd \in Commands /\ Opens(call.cmd)
    BY <1>2 DEF Admit, CallOK, NoCall, TypeOK, Call, Token, Opens
  <2>2. QED
    BY <2>1, PresentOpened
<1>3. ASSUME NEW c \in Commands, Retry(c) PROVE Present'
  <2>1. /\ call'.cmd = c /\ call'.at = FirstStage(c) /\ Pending(c) /\ UNCHANGED <<journal, vm>>
        /\ rec'.state = rec.state
    BY <1>3 DEF Retry, TypeOK, Rec
  <2>2. CASE call'.at # "finish"
    BY <2>1, <2>2, PresentKept
  <2>3. CASE call'.at = "finish"
    <3>1. c.verb \notin {"destroy", "create"}
      BY <2>1, <2>3 DEF FirstStage, StorageVerbs
    <3>2. vm.disk # None
      BY <2>1, <3>1, PresentPending
    <3>3. QED
      BY <2>1, <3>1, <3>2 DEF Present, cmd
  <2>4. QED
    BY <2>2, <2>3
<1>4. CASE Look
  BY <1>4, PresentKept DEF Look, Goto, TypeOK, Rec, Call
<1>5. CASE Answered
  BY <1>5, PresentAnswered
<1>6. CASE ReadReceipt
  <2>1. cmd \in Commands /\ Pending(cmd) /\ cmd.verb \notin {"create", "destroy"}
    BY <1>6 DEF ReadReceipt, CallOK, NoCall, TypeOK, Call, Token, cmd, StorageVerbs
  <2>2. vm'.disk # None
    BY <1>6, <2>1, PresentPending DEF ReadReceipt
  <2>3. call' = NoCall \/ call'.cmd = cmd
    BY <1>6 DEF ReadReceipt, Goto, Settle, TypeOK, Call, cmd
  <2>4. QED
    BY <2>1, <2>2, <2>3 DEF Present, cmd
<1>7. CASE Finish
  BY <1>7 DEF Finish, Settle, Present
<1>8. CASE ReplyLost
  <2>1. PICK r \in Reply : Dispatch(NativeOf, r) /\ Calls
    BY <1>8 DEF ReplyLost
  <2>2. CASE NativeOf.op = "destroy"
    BY <1>8, <2>1, <2>2, CallFacts DEF ReplyLost, Present, Pending
  <2>3. CASE NativeOf.op # "destroy"
    BY <1>8, <2>1, <2>3, CallFacts, DispatchFolder, PresentKept DEF ReplyLost
  <2>4. QED
    BY <2>2, <2>3
<1>9. CASE Native
  <2>1. vm'.disk = vm.disk /\ UNCHANGED <<rec, journal, call>>
    BY <1>9 DEF Native, StorageFence, StorageCompletes, StorageFails, GuestPowersOff, QemuExits,
                TypeOK, VM
  <2>2. QED
    BY <2>1, PresentKept
<1>10. CASE LateCallRuns
  <2>1. UNCHANGED <<rec, journal, call>>
    BY <1>10 DEF LateCallRuns
  <2>2. CASE UNCHANGED vm
    BY <2>1, <2>2, PresentKept
  <2>3. CASE vm' # vm
    <3>1. PICK n \in late, r \in Reply : n.op # "destroy" /\ Dispatch(n, r)
      BY <1>10, <2>3 DEF NoLate, vars
    <3>2. n \in NativeCall
      BY DEF TypeOK
    <3>3. QED
      BY <2>1, <3>1, <3>2, DispatchFolder, PresentKept
  <2>4. QED
    BY <2>2, <2>3
<1>11. CASE SettleSees
  BY <1>11, PresentKept DEF SettleSees, Goto, TypeOK, Call
<1>12. CASE Refused \/ Interrupted \/ Abandon \/ NativeRestarts \/ StartPoll \/ EndPoll \/ UNCHANGED vars
  BY <1>12, PresentKept DEF Refused, Interrupted, Abandon, NativeRestarts, StartPoll, EndPoll, vars
<1>13. QED
  BY <1>1, <1>2, <1>3, <1>4, <1>5, <1>6, <1>7, <1>8, <1>9, <1>10, <1>11, <1>12
  DEF Next, Advance, Disturbance

-----------------------------------------------------------------------------
(* The token on the disk. *)

Seeded == vm.disk # None /\ vm.seed = rec.token

\* What may be without the token of the record: a machine that is being
\* destroyed, not yet cloned, or whose restore has rotated the token.
Unseeded(c) ==
  \/ c.verb = "destroy"
  \/ c.verb = "create" /\ vm.disk # c
  \/ c.verb = "restore" /\ vm.disk # None

IdentityOK ==
  /\ rec.state = "live" => Seeded \/ \E c \in Commands : Pending(c) /\ Unseeded(c)
  /\ call # NoCall /\ call.at = "finish" => Seeded /\ cmd.verb # "restore"

\* The native call of the pending command keeps the token where it must be.
LEMMA SeedCall ==
  ASSUME IInv, IdentityOK, Calls, NEW r \in Reply, Dispatch(NativeOf, r)
  PROVE  /\ cmd \in Commands /\ Pending(cmd) /\ rec.state = "live"
         /\ \/ vm'.disk # None /\ vm'.seed = rec.token
            \/ cmd.verb = "destroy"
            \/ cmd.verb = "create" /\ vm'.disk # cmd
            \/ cmd.verb = "restore" /\ vm'.disk # None
         /\ cmd.verb = "create" /\ call.at = "exec" /\ r = "ok" => vm'.disk = cmd
         /\ cmd.verb = "restore" /\ call.at = "reseed" /\ r = "ok"
              => vm'.disk # None /\ vm'.seed = rec.token
         /\ r = "limit" => cmd.verb = "start"
<1>1. /\ NativeOf \in NativeCall /\ cmd \in Commands /\ Pending(cmd) /\ cmd # None
      /\ rec.state = "live" /\ \A c \in Commands : Pending(c) => c = cmd
      /\ NativeOf.cmd = cmd /\ NativeOf.token = rec.token
      /\ call.at = "reseed" => cmd.verb \in {"start", "restore"} /\ NativeOf.op = "reseed"
      /\ call.at = "settle" => cmd.verb = "destroy"
      /\ call.at = "exec" => NativeOf.op = IF cmd.verb \in StorageVerbs THEN "submit" ELSE cmd.verb
      /\ NativeOf.op = "create" => cmd.verb = "create"
      /\ NativeOf.op = "destroy" => cmd.verb = "destroy"
      /\ NativeOf.op = "start" => cmd.verb = "start"
      /\ NativeOf.op = "reseed" => call.at = "reseed"
      /\ cmd.verb \in LifecycleVerbs \cup StorageVerbs /\ call.at \in {"reseed", "settle", "exec"}
  BY CallFacts, CommandFields DEF Calls
<1>2. Seeded \/ Unseeded(cmd)
  BY <1>1 DEF IdentityOK
<1>3. TypeOK
  BY DEF IInv
<1> HIDE DEF NativeOf
<1>4. CASE NativeOf.op = "create"
  BY <1>1, <1>2, <1>3, <1>4, SeedDispatch, DispatchFolder DEF Seeded, Unseeded
<1>5. CASE NativeOf.op = "reseed"
  BY <1>1, <1>2, <1>3, <1>5, SeedDispatch DEF Seeded, Unseeded
<1>6. CASE NativeOf.op = "destroy"
  BY <1>1, <1>3, <1>6, SeedDispatch
<1>7. CASE NativeOf.op \notin {"create", "reseed", "destroy"}
  <2>1. cmd.verb = "create" => FALSE
    BY <1>1, <1>7 DEF StorageVerbs
  <2>2. call.at # "reseed" /\ (r = "limit" => cmd.verb = "start")
    BY <1>1, <1>3, <1>7, SeedDispatch
  <2>3. QED
    BY <1>1, <1>2, <1>3, <1>7, <2>1, <2>2, SeedDispatch DEF Seeded, Unseeded
<1>8. QED
  BY <1>4, <1>5, <1>6, <1>7

LEMMA SeedOpened ==
  ASSUME IInv, ClonesKnown, IdentityOK, NEW c \in Commands, Opens(c)
  PROVE  IdentityOK'
<1>1. /\ journal[c] = "none" /\ journal'[c] = "pending" /\ rec' = Accepted(c)
      /\ UNCHANGED vm /\ call'.at # "finish" /\ \A d \in Commands : ~Pending(d)
      /\ c.verb # "create" => rec.state = "live"
  BY OpenedFacts
<1>2. CASE c.verb = "create"
  <2>1. vm'.disk # c
    BY <1>1, NoneIsNoCommand DEF ClonesKnown
  <2>2. QED
    BY <1>1, <1>2, <2>1 DEF IdentityOK, Unseeded, Pending
<1>3. CASE c.verb # "create"
  <2>1. Seeded
    BY <1>1, <1>3 DEF IdentityOK
  <2>2. c.verb # "restore" => rec'.token = rec.token
    BY <1>1, <1>3 DEF Accepted, IInv, TypeOK, Rec
  <2>3. QED
    BY <1>1, <2>1, <2>2 DEF IdentityOK, Seeded, Unseeded, Pending
<1>4. QED
  BY <1>2, <1>3

\* The lock is let go, or goes on to a stage that is not the last, and the
\* machine is as the pending command leaves it.
LEMMA SeedKept ==
  ASSUME IdentityOK, UNCHANGED journal, rec'.state = rec.state, rec'.token = rec.token,
         vm'.disk = vm.disk, vm'.seed = vm.seed,
         UNCHANGED call \/ call' = NoCall \/ call'.at # "finish"
  PROVE  IdentityOK'
BY DEF IdentityOK, Seeded, Unseeded, Pending, cmd

LEMMA SeedAnswered ==
  ASSUME IInv, IdentityOK, Answered
  PROVE  IdentityOK'
<1> USE DEF IInv
<1>1. PICK r \in Reply : Dispatch(NativeOf, r) /\ AnswerTaken(r)
  BY AnswerFacts
<1>2. /\ cmd \in Commands /\ Pending(cmd) /\ rec.state = "live"
      /\ \/ vm'.disk # None /\ vm'.seed = rec.token
         \/ cmd.verb = "destroy"
         \/ cmd.verb = "create" /\ vm'.disk # cmd
         \/ cmd.verb = "restore" /\ vm'.disk # None
      /\ cmd.verb = "create" /\ call.at = "exec" /\ r = "ok" => vm'.disk = cmd
      /\ cmd.verb = "restore" /\ call.at = "reseed" /\ r = "ok"
           => vm'.disk # None /\ vm'.seed = rec.token
      /\ r = "limit" => cmd.verb = "start"
  BY <1>1, AnswerFacts, SeedCall
<1>3. call.at = "reseed" => cmd.verb \in {"start", "restore"}
  BY AnswerFacts, CallFacts
<1>4. \A at : Goto(at) => call'.at = at /\ call'.cmd = cmd
  BY DEF Goto, TypeOK, Call, cmd
<1>5. CASE UNCHANGED <<rec, journal>> /\ (call' = NoCall \/ Goto("exec") \/ Goto("wait"))
  BY <1>2, <1>4, <1>5 DEF IdentityOK, Seeded, Unseeded, Pending, NoCall
<1>6. CASE Confirms(r) /\ call.at = "reseed" /\ cmd.verb # "start" /\ Settle(RestoreOutcome, rec)
  BY <1>2, <1>3, <1>6 DEF Confirms, Settle, IdentityOK, Seeded, NoCall
<1>7. CASE Settle("ok", Destroyed)
  BY <1>7 DEF Settle, Destroyed, IdentityOK, NoCall, TypeOK, Rec
<1>8. CASE /\ Confirms(r) /\ call.at = "exec" /\ cmd.verb \notin StorageVerbs \cup {"destroy"}
           /\ Goto("finish") /\ UNCHANGED <<rec, journal>>
  <2>1. vm'.disk # None /\ vm'.seed = rec.token /\ cmd.verb # "restore"
    BY <1>2, <1>8 DEF Confirms, StorageVerbs
  <2>2. call'.cmd = cmd /\ rec'.state = "live"
    BY <1>2, <1>4, <1>8
  <2>3. QED
    BY <1>8, <2>1, <2>2 DEF IdentityOK, Seeded, cmd
<1>9. CASE r = "limit" /\ Settle("refused", [rec EXCEPT !.desired = "stopped"])
  <2>1. vm'.disk # None /\ vm'.seed = rec.token
    BY <1>2, <1>9
  <2>2. rec'.state = "live" /\ rec'.token = rec.token /\ call' = NoCall
    BY <1>2, <1>9 DEF Settle, TypeOK, Rec
  <2>3. QED
    BY <2>1, <2>2 DEF IdentityOK, Seeded
<1>10. QED
  BY <1>1, <1>5, <1>6, <1>7, <1>8, <1>9 DEF AnswerTaken

LEMMA SeedRead ==
  ASSUME IInv, IdentityOK, ReadReceipt
  PROVE  IdentityOK'
<1> USE DEF IInv
<1>1. cmd \in Commands /\ Pending(cmd) /\ cmd.verb \in StorageVerbs /\ rec.state = "live"
  BY DEF ReadReceipt, CallOK, NoCall, TypeOK, Call, Token, cmd, PendingIsRetriable, Retriable
<1>2. \A d \in Commands : Pending(d) => d = cmd
  BY <1>1 DEF PendingIsRetriable
<1>3. vm.disk # None /\ (cmd.verb # "restore" => Seeded)
  BY <1>1, <1>2 DEF IdentityOK, Unseeded, StorageVerbs, Seeded
<1>4. CASE UNCHANGED <<rec, journal>> /\ (call' = NoCall \/ Goto("reseed"))
  BY <1>4, SeedKept DEF ReadReceipt, Goto, TypeOK, Call
<1>5. CASE cmd.verb # "restore" /\ Settle("refused", rec)
  BY <1>3, <1>5 DEF ReadReceipt, Settle, IdentityOK, Seeded
<1>6. CASE /\ journal' = [journal EXCEPT ![cmd] = "committed"] /\ UNCHANGED rec
           /\ Goto(IF cmd.verb = "restore" THEN "reseed" ELSE "finish")
  <2>1. /\ call'.cmd = cmd /\ call'.at = IF cmd.verb = "restore" THEN "reseed" ELSE "finish"
        /\ journal'[cmd] = "committed" /\ UNCHANGED vm /\ cmd' = cmd
    BY <1>1, <1>6 DEF ReadReceipt, Goto, TypeOK, Call, cmd
  <2>2. CASE cmd.verb = "restore"
    <3>1. Pending(cmd)' /\ Unseeded(cmd)'
      BY <1>3, <2>1, <2>2 DEF Pending, Unseeded
    <3>2. QED
      BY <1>1, <1>6, <2>1, <2>2, <3>1 DEF IdentityOK
  <2>3. CASE cmd.verb # "restore"
    BY <1>1, <1>3, <1>6, <2>1, <2>3 DEF IdentityOK, Seeded
  <2>4. QED
    BY <2>2, <2>3
<1>7. QED
  BY <1>4, <1>5, <1>6 DEF ReadReceipt

\* Late creates put the token of the record on the disk of the record's own
\* create, or make a folder that keeps it from ever being settled.
LEMMA SeedLate ==
  ASSUME IInv, ClonesKnown, IdentityOK, [NoLate({"destroy", "reseed"})]_vars, LateCallRuns
  PROVE  IdentityOK'
<1> USE DEF IInv
<1>1. UNCHANGED <<rec, journal, call>>
  BY DEF LateCallRuns
<1>2. CASE UNCHANGED vm
  BY <1>1, <1>2, SeedKept
<1>3. CASE vm' # vm
  <2>1. PICK n \in late, r \in Reply : n.op \notin {"destroy", "reseed"} /\ Dispatch(n, r)
    BY <1>3 DEF NoLate, vars
  <2>2. n \in NativeCall
    BY DEF TypeOK
  <2>3. CASE vm.disk # None \/ vm'.disk = None
    <3>1. vm'.disk = vm.disk
      BY <2>1, <2>2, <2>3, DispatchFolder
    <3>2. vm.disk # None => vm'.seed = vm.seed
      BY <2>1, <2>2, SeedDispatch
    <3>3. QED
      BY <1>1, <3>1, <3>2 DEF IdentityOK, Seeded, Unseeded, Pending, cmd
  <2>4. CASE vm.disk = None /\ vm'.disk # None
    <3>1. n.op = "create" /\ vm'.disk = n.cmd /\ vm'.seed = n.token /\ n.token = n.cmd
      BY <2>1, <2>2, <2>4, DispatchFolder, SeedDispatch DEF ClonesKnown
    <3>2. ~(call # NoCall /\ call.at = "finish")
      BY <2>4 DEF IdentityOK, Seeded
    <3>3. ASSUME rec.state = "live"
          PROVE  \E c \in Commands : Pending(c) /\ (c.verb = "destroy" \/ (c.verb = "create" /\ rec.token = c))
      BY <2>4, <3>3 DEF IdentityOK, Seeded, Unseeded, ClonesKnown
    <3>4. rec'.state = "live" => Seeded' \/ \E c \in Commands : Pending(c)' /\ Unseeded(c)'
      BY <1>1, <2>4, <3>1, <3>3 DEF Seeded, Unseeded, Pending
    <3>5. QED
      BY <1>1, <3>2, <3>4 DEF IdentityOK
  <2>5. QED
    BY <2>3, <2>4
<1>4. QED
  BY <1>2, <1>3

LEMMA SeedStep ==
  IInv /\ ClonesKnown /\ [NoLate({"destroy", "reseed"})]_vars /\ IdentityOK /\ [Next]_vars => IdentityOK'
<1> SUFFICES ASSUME IInv, ClonesKnown, [NoLate({"destroy", "reseed"})]_vars, IdentityOK, [Next]_vars
             PROVE  IdentityOK'
  OBVIOUS
<1> USE DEF IInv
<1>1. ASSUME NEW c \in Commands, Receive(c) PROVE IdentityOK'
  <2>1. CASE Looks(c)
    BY <1>1, <2>1, SeedKept DEF Receive
  <2>2. CASE ~Looks(c)
    BY <1>1, <2>2, SeedOpened DEF Receive, Opens
  <2>3. QED
    BY <2>1, <2>2
<1>2. CASE Admit
  <2>1. call.cmd \in Commands /\ Opens(call.cmd)
    BY <1>2 DEF Admit, CallOK, NoCall, TypeOK, Call, Token, Opens
  <2>2. QED
    BY <2>1, SeedOpened
<1>3. ASSUME NEW c \in Commands, Retry(c) PROVE IdentityOK'
  <2>1. /\ call'.cmd = c /\ call'.at = FirstStage(c) /\ Pending(c) /\ UNCHANGED <<journal, vm>>
        /\ rec'.state = rec.state /\ rec'.token = rec.token
    BY <1>3 DEF Retry, TypeOK, Rec
  <2>2. CASE call'.at # "finish"
    BY <2>1, <2>2, SeedKept
  <2>3. CASE call'.at = "finish"
    <3>1. c.verb \notin {"destroy", "create", "restore"}
      BY <2>1, <2>3 DEF FirstStage, StorageVerbs
    <3>2. rec.state = "live" /\ \A d \in Commands : Pending(d) => d = c
      BY <2>1 DEF PendingIsRetriable, Retriable
    <3>3. Seeded
      BY <3>1, <3>2 DEF IdentityOK, Unseeded
    <3>4. QED
      BY <2>1, <3>1, <3>2, <3>3 DEF IdentityOK, Seeded, cmd
  <2>4. QED
    BY <2>2, <2>3
<1>4. CASE Look
  BY <1>4, SeedKept DEF Look, Goto, TypeOK, Rec, Call
<1>5. CASE Answered
  BY <1>5, SeedAnswered
<1>6. CASE ReadReceipt
  BY <1>6, SeedRead
<1>7. CASE Finish
  BY <1>7 DEF Finish, Settle, IdentityOK, Seeded
<1>8. CASE ReplyLost
  <2>1. PICK r \in Reply : Dispatch(NativeOf, r) /\ Calls
    BY <1>8 DEF ReplyLost
  <2>2. QED
    BY <1>8, <2>1, SeedCall DEF ReplyLost, IdentityOK, Seeded, Unseeded, Pending
<1>9. CASE Native
  <2>1. vm'.disk = vm.disk /\ vm'.seed = vm.seed
    BY <1>9 DEF Native, StorageFence, StorageCompletes, StorageFails, GuestPowersOff, QemuExits,
                TypeOK, VM
  <2>2. UNCHANGED <<rec, journal, call>>
    BY <1>9 DEF Native, StorageFence, StorageCompletes, StorageFails, GuestPowersOff, QemuExits
  <2>3. QED
    BY <2>1, <2>2, SeedKept
<1>10. CASE SettleSees
  BY <1>10, SeedKept DEF SettleSees, Goto, TypeOK, Call
<1>11. CASE Refused \/ Interrupted \/ Abandon \/ NativeRestarts \/ StartPoll \/ EndPoll \/ UNCHANGED vars
  BY <1>11, SeedKept DEF Refused, Interrupted, Abandon, NativeRestarts, StartPoll, EndPoll, vars
<1>12. CASE LateCallRuns
  BY <1>12, SeedLate
<1>13. QED
  BY <1>1, <1>2, <1>3, <1>4, <1>5, <1>6, <1>7, <1>8, <1>9, <1>10, <1>11, <1>12
  DEF Next, Advance, Disturbance

\* Whenever nothing is pending the disk holds the token the registry expects
\* (host-api.js, the reseeds of start and restore), unless a destroy or a reseed
\* the core gave up on runs late.
THEOREM IdentityKept == Spec /\ [][NoLate({"destroy", "reseed"})]_vars => []IdentityReconciled
<1>1. Init => IdentityOK
  BY DEF Init, IdentityOK, NoCall
<1>2. IdentityOK => IdentityReconciled
  BY DEF IdentityOK, IdentityReconciled, NothingPending, Seeded
<1>3. QED
  BY <1>1, <1>2, SeedStep, Inductive, ClonesAlways, PTL DEF Spec

-----------------------------------------------------------------------------
(* Fences over incarnations. *)

Held == vm.disk # None /\ vm.fenced /\ vm.run = "stopped"

\* What the journal says of fences; the generations it knows are not newer
\* than the record's, and a fence that is still late is not newer than the
\* incarnation unless the record is fenced.
JournalFenced ==
  /\ rec.state = "none" => \A c \in Commands : journal[c] = "none"
  /\ \A c \in Commands : journal[c] # "none" => c.gen <= rec.gen
  /\ \A c \in Commands : c.verb = "fence" /\ Pending(c) => rec.fenced
  /\ \A n \in late : n.op = "submit" /\ n.cmd.verb = "fence" => rec.fenced \/ n.cmd.gen < rec.inc

\* What the folder says of them.
FolderFenced ==
  /\ \A c \in Commands : receipts[c] = "pending" => ~Absent
  /\ vm.fenced => vm.disk # None
  /\ \A c \in Commands : c.verb = "fence" /\ receipts[c] = "completed" /\ vm.disk # None => Held

\* The folder is the one the record means: the machine is not being destroyed,
\* nor created on a folder that a late create has left.
Ours ==
  /\ rec.state = "live"
  /\ \A c \in Commands : Pending(c) => /\ c.verb # "destroy"
                                       /\ c.verb = "create" => vm.disk \in {None, c}

\* What the record knows of the fences of its folder.
RecordFenced ==
  Ours => /\ vm.fenced => rec.fenced
          /\ \A c \in Commands : c.verb = "fence" /\ receipts[c] = "pending" => rec.fenced
          /\ vm.disk # None => vm.sgen >= rec.inc

\* A fence that succeeded in the incarnation of the record.
Saved(c) == c.verb = "fence" /\ journal[c] \in {"committed", "ok"} /\ c.gen >= rec.inc
SavedHeld == Ours => \A c \in Commands : Saved(c) => Held

LEMMA JournalFencedStep ==
  IInv /\ ClonesKnown /\ JournalFenced /\ [Next]_vars => JournalFenced'
<1> SUFFICES ASSUME IInv, ClonesKnown, JournalFenced, [Next]_vars
             PROVE  JournalFenced'
  OBVIOUS
<1> USE DEF IInv
<1>1. ASSUME NEW n \in late', n.op = "submit", n.cmd.verb = "fence"
      PROVE  /\ n.cmd \in Commands /\ journal[n.cmd] # "none"
             /\ rec.fenced \/ n.cmd.gen < rec.inc
  <2>1. CASE n \in late
    BY <1>1, <2>1 DEF ClonesKnown, JournalFenced, TypeOK, NativeCall
  <2>2. CASE n \notin late
    <3>1. n.cmd \in Commands /\ Pending(n.cmd)
      BY <2>2, LateOnly, CallFacts
    <3>2. QED
      BY <1>1, <3>1 DEF JournalFenced, Pending
  <2>3. QED
    BY <2>1, <2>2
<1>2. ASSUME NEW c \in Commands, Opens(c) PROVE JournalFenced'
  <2>1. /\ \A d \in Commands : ~Pending(d) /\ journal'[d] = IF d = c THEN "pending" ELSE journal[d]
        /\ rec' = Accepted(c) /\ rec'.state = "live" /\ UNCHANGED late
        /\ \A d \in Commands : d.gen \in Nat
        /\ rec.gen \in Nat /\ rec.inc \in Nat
    BY <1>2, OpenedFacts, CommandFields DEF TypeOK, Rec
  <2>2. CASE c.verb = "create"
    <3>1. rec.state = "none" \/ (rec.state = "deleted" /\ c.gen > rec.gen)
      BY <1>2, <2>2, Zenon DEF Opens, Admissible, MayCreate
    <3>2. rec'.gen = c.gen /\ rec'.inc = IF rec.state = "deleted" THEN c.gen ELSE 0
      BY <2>1, <2>2 DEF Accepted
    <3>3. \A d \in Commands : journal[d] # "none" => d.gen < c.gen /\ rec.state = "deleted"
      BY <2>1, <3>1 DEF JournalFenced
    <3>4. \A d \in Commands : journal'[d] # "none" => d.gen <= rec'.gen
      BY <2>1, <3>2, <3>3
    <3>5. \A d \in Commands : Pending(d)' => d.verb # "fence"
      BY <2>1, <2>2 DEF Pending
    <3>6. \A n \in late' : n.op = "submit" /\ n.cmd.verb = "fence" => n.cmd.gen < rec'.inc
      BY <1>1, <3>2, <3>3
    <3>7. QED
      BY <2>1, <3>4, <3>5, <3>6 DEF JournalFenced
  <2>3. CASE c.verb # "create"
    <3>1. rec.state = "live" /\ c.gen >= rec.gen
      BY <1>2, <2>3 DEF Opens, Admissible
    <3>2. /\ rec'.gen = c.gen /\ rec'.inc = rec.inc
          /\ rec'.fenced = (rec.fenced \/ c.verb = "fence")
      BY <2>1, <2>3 DEF Accepted, Marked, TypeOK, Rec
    <3>3. \A d \in Commands : journal'[d] # "none" => d.gen <= rec'.gen
      BY <2>1, <3>1, <3>2 DEF JournalFenced
    <3>4. \A d \in Commands : Pending(d)' /\ d.verb = "fence" => rec'.fenced
      BY <2>1, <3>2 DEF Pending
    <3>5. \A n \in late' : n.op = "submit" /\ n.cmd.verb = "fence" => rec'.fenced \/ n.cmd.gen < rec'.inc
      BY <1>1, <3>2
    <3>6. QED
      BY <2>1, <3>3, <3>4, <3>5 DEF JournalFenced
  <2>4. QED
    BY <2>2, <2>3
<1>3. CASE \A c \in Commands : ~Opens(c)
  <2>1. /\ \A c \in Commands : Pending(c)' => Pending(c)
        /\ rec'.inc = rec.inc /\ rec'.fenced = rec.fenced
    BY <1>3, OpenedOnly
  <2>2. rec'.gen = rec.gen /\ (rec'.state = "none" => rec.state = "none")
        /\ \A c \in Commands : journal[c] = "none" => journal'[c] = "none"
    <3>1. CASE KeepsJournal
      <4>1. ASSUME NEW c \in Commands, journal[c] = "none" PROVE journal'[c] = "none"
        BY <3>1, <4>1 DEF KeepsJournal, OutcomeOf
      <4>2. QED
        BY <3>1, <4>1 DEF KeepsJournal
    <3>2. ASSUME NEW c \in Commands, NEW o \in {"ok", "refused"}, Completes(c, o)
          PROVE  /\ rec'.gen = rec.gen /\ (rec'.state = "none" => rec.state = "none")
                 /\ \A d \in Commands : journal[d] = "none" => journal'[d] = "none"
      BY <3>2 DEF Completes, TypeOK, Pending
    <3>3. QED
      BY <1>3, <3>1, <3>2, JournalStep
  <2>3. QED
    BY <1>1, <2>1, <2>2 DEF JournalFenced
<1>4. QED
  BY <1>2, <1>3

\* The receipts and the fence of a folder agree, whatever call runs.
LEMMA FolderCall ==
  ASSUME TypeOK, FolderFenced, NEW n \in NativeCall, NEW r \in Reply, Dispatch(n, r)
  PROVE  FolderFenced'
<1> USE DEF FolderFenced
<1>1. ASSUME NEW c \in Commands, receipts'[c] = "pending"
      PROVE  vm'.disk # None /\ ~vm'.torn
  BY <1>1, FolderDispatch DEF Absent
<1>2. vm'.fenced => vm'.disk # None
  BY FolderDispatch
<1>3. Held /\ vm'.disk # None => Held'
  BY FolderDispatch, DispatchRun DEF Held
<1>4. ASSUME NEW c \in Commands, c.verb = "fence", receipts'[c] = "completed", vm'.disk # None
      PROVE  Held'
  <2>1. vm.disk # None /\ receipts[c] = "completed"
    BY <1>4, FolderDispatch
  <2>2. QED
    BY <1>3, <1>4, <2>1
<1>5. QED
  BY <1>1, <1>2, <1>4 DEF Absent

\* What the native workers do to fences.
LEMMA NativeFacts ==
  ASSUME TypeOK, Native
  PROVE  /\ UNCHANGED <<rec, journal, call, late>>
         /\ vm'.disk = vm.disk /\ vm'.torn = vm.torn /\ vm'.sgen = vm.sgen
         /\ \A c \in Commands : receipts'[c] = "pending" => receipts[c] = "pending"
         /\ Held => Held'
         /\ vm'.fenced => vm.fenced \/ \E c \in Commands : c.verb = "fence" /\ receipts[c] = "pending"
         /\ \A c \in Commands :
              c.verb = "fence" /\ receipts'[c] = "completed" /\ receipts[c] # "completed" /\ vm.disk # None
                => Held'
BY DEF TypeOK, VM, Held, Native, StorageFence, StorageCompletes, StorageFails, GuestPowersOff, QemuExits

LEMMA FolderFencedStep == IInv /\ FolderFenced /\ [Next]_vars => FolderFenced'
<1> SUFFICES ASSUME IInv, FolderFenced, [Next]_vars
             PROVE  FolderFenced'
  OBVIOUS
<1> USE DEF IInv
<1>1. CASE Answered \/ ReplyLost
  BY <1>1, CallFacts, FolderCall DEF Answered, ReplyLost
<1>2. CASE LateCallRuns
  BY <1>2, FolderCall DEF LateCallRuns, TypeOK
<1>3. CASE Native
  <2>1. vm'.fenced => vm'.disk # None
    BY <1>3, NativeFacts DEF FolderFenced, Absent
  <2>2. \A c \in Commands : receipts'[c] = "pending" => ~Absent'
    BY <1>3, NativeFacts DEF FolderFenced, Absent
  <2>3. \A c \in Commands : c.verb = "fence" /\ receipts'[c] = "completed" /\ vm'.disk # None => Held'
    BY <1>3, NativeFacts DEF FolderFenced
  <2>4. QED
    BY <2>1, <2>2, <2>3 DEF FolderFenced
<1>4. CASE UNCHANGED <<vm, receipts>>
  BY <1>4 DEF FolderFenced, Held, Absent
<1>5. QED
  BY <1>1, <1>2, <1>3, <1>4 DEF Next, Receive, Accept, Retry, Advance, Admit, Refused, Look,
     SettleSees, ReadReceipt, Finish, Disturbance, Interrupted, Abandon, NativeRestarts,
     StartPoll, EndPoll, vars

\* These hold whatever is lost, late or torn.
LEMMA FencesKnown == Spec => [](JournalFenced /\ FolderFenced)
<1>1. Init => JournalFenced /\ FolderFenced
  BY DEF Init, JournalFenced, FolderFenced, Pending
<1>2. QED
  BY <1>1, JournalFencedStep, FolderFencedStep, Inductive, ClonesAlways, PTL DEF Spec

\* The generation of a folder is the incarnation that cloned it, and then
\* that of the storage it accepts, which never goes back.
LEMMA GenerationDispatch ==
  ASSUME TypeOK, NEW n \in NativeCall, NEW r \in Reply, Dispatch(n, r)
  PROVE  /\ vm.disk = None /\ vm'.disk # None => vm'.sgen = n.inc
         /\ vm.disk # None /\ vm'.disk # None => vm'.sgen >= vm.sgen
         /\ \A c \in Commands : receipts'[c] = "pending" /\ receipts[c] # "pending"
              => n.op = "submit" /\ c = n.cmd /\ c.gen >= vm.sgen
<1> USE DEF TypeOK, VM, NativeCall, NativeSame, Absent, NativeOp
<1>1. CASE NativeSame
  BY <1>1
<1>2. CASE n.op = "submit" /\ NativeSubmit(n, r)
  BY <1>2, CommandFields DEF NativeSubmit
<1>3. CASE n.op = "create" /\ NativeCreate(n, r)
  BY <1>3 DEF NativeCreate
<1>4. CASE n.op = "start" /\ NativeStart(r)
  BY <1>4 DEF NativeStart
<1>5. CASE n.op \in {"shutdown", "force-stop"} /\ NativeStop(n.op = "force-stop", r)
  BY <1>5 DEF NativeStop
<1>6. CASE n.op = "destroy" /\ NativeDestroy(n.cmd.flag, r)
  <2>1. vm'.sgen = vm.sgen /\ (vm.disk = None => vm'.disk = None) /\ UNCHANGED receipts
    BY <1>6 DEF NativeDestroy
  <2>2. vm.sgen \in Nat
    OBVIOUS
  <2>3. QED
    BY <2>1, <2>2
<1>7. CASE n.op = "reseed" /\ NativeReseed(n, r)
  BY <1>7 DEF NativeReseed
<1>8. QED
  BY <1>1, <1>2, <1>3, <1>4, <1>5, <1>6, <1>7 DEF Dispatch

\* A call that is no destroy, made for the folder of the record, leaves it as
\* the record knows it.
LEMMA RecordCall ==
  ASSUME TypeOK, FolderFenced, RecordFenced, Ours,
         NEW n \in NativeCall, NEW r \in Reply, Dispatch(n, r), n.op # "destroy",
         n.op = "submit" /\ n.cmd.verb = "fence" => rec.fenced \/ n.cmd.gen < rec.inc,
         vm.disk = None /\ vm'.disk # None => n.inc = rec.inc
  PROVE  /\ vm'.fenced => rec.fenced
         /\ \A c \in Commands : c.verb = "fence" /\ receipts'[c] = "pending" => rec.fenced
         /\ vm'.disk # None => vm'.sgen >= rec.inc
         /\ Held => Held'
<1>1. vm'.fenced => rec.fenced
  BY FolderDispatch DEF RecordFenced, FolderFenced
<1>2. rec.inc \in Nat /\ vm.sgen \in Nat /\ vm'.sgen \in Nat
  BY DispatchType DEF TypeOK, Rec, VM
<1>3. vm'.disk # None => vm'.sgen >= rec.inc
  BY <1>2, GenerationDispatch DEF RecordFenced
<1>4. ASSUME NEW c \in Commands, c.verb = "fence", receipts'[c] = "pending"
      PROVE  rec.fenced
  <2>1. CASE receipts[c] = "pending"
    BY <1>4, <2>1 DEF RecordFenced
  <2>2. CASE receipts[c] # "pending"
    <3>1. n.op = "submit" /\ c = n.cmd /\ c.gen >= vm.sgen /\ c.gen \in Nat
      BY <1>4, <2>2, GenerationDispatch, CommandFields
    <3>2. vm'.disk # None /\ vm.disk # None
      <4>1. CASE vm.disk = None
        BY <1>4, <2>2, <4>1, FolderDispatch
      <4>2. CASE vm.disk # None /\ vm'.disk = None
        BY <1>4, <4>2, FolderDispatch
      <4>3. QED
        BY <4>1, <4>2
    <3>3. vm.sgen >= rec.inc
      BY <3>2 DEF RecordFenced
    <3>4. QED
      BY <1>2, <1>4, <3>1, <3>3
  <2>3. QED
    BY <2>1, <2>2
<1>5. Held => Held'
  BY FolderDispatch, DispatchFolder, DispatchRun DEF Held
<1>6. QED
  BY <1>1, <1>3, <1>4, <1>5

\* A folder does not become the record's but by the create that opens.
LEMMA OursBefore ==
  ASSUME IInv, ClonesKnown, Present, [NoLate({"destroy"})]_vars, [Next]_vars,
         \A c \in Commands : ~Opens(c), Ours'
  PROVE  Ours
<1> USE DEF IInv
<1>1. rec.state = "live" /\ rec'.state = "live"
  BY OpenedOnly DEF Ours
<1>2. ASSUME NEW c \in Commands, Pending(c), c.verb \in {"create", "destroy"}, ~Pending(c)'
      PROVE  c.verb = "create" /\ vm.disk = c
  <2>1. call # NoCall /\ c = cmd /\ (Answered \/ (Finish /\ call.at = "finish"))
    <3>1. CASE Answered
      BY <1>2, <3>1, CallFacts, AnswerFacts DEF NoCall, Calls
    <3>2. CASE Finish
      <4>1. cmd \in Commands /\ Pending(cmd)
        BY <3>2 DEF Finish, CallOK, TypeOK, Call, Token, cmd
      <4>2. QED
        BY <1>2, <3>2, <4>1 DEF Finish, PendingIsRetriable
    <3>3. CASE ReadReceipt
      <4>1. cmd \in Commands /\ Pending(cmd) /\ cmd.verb \notin {"create", "destroy"}
        BY <3>3 DEF ReadReceipt, CallOK, NoCall, TypeOK, Call, Token, cmd, StorageVerbs
      <4>2. QED
        BY <1>2, <4>1 DEF PendingIsRetriable
    <3>4. CASE UNCHANGED journal
      BY <1>2, <3>4 DEF Pending
    <3>5. ~Admit
      BY DEF Opens, Admit, CallOK, NoCall, TypeOK, Call, Token
    <3>6. ASSUME NEW d \in Commands, Receive(d) \/ Retry(d) PROVE UNCHANGED journal
      BY <3>6 DEF Receive, Opens, Retry
    <3>7. QED
      BY <3>1, <3>2, <3>3, <3>4, <3>5, <3>6 DEF Next, Advance, Look, Refused, SettleSees, Disturbance,
         Interrupted, ReplyLost, Abandon, Native, StorageFence, StorageCompletes, StorageFails,
         GuestPowersOff, QemuExits, LateCallRuns, NativeRestarts, StartPoll, EndPoll, vars
  <2>2. CASE Finish /\ call.at = "finish"
    BY <1>2, <2>1, <2>2, NoneIsNoCommand DEF Present, CallOK, cmd
  <2>3. CASE Answered
    <3>1. PICK r \in Reply : Dispatch(NativeOf, r) /\ AnswerTaken(r)
      BY <2>3, AnswerFacts
    <3>2. /\ NativeOf \in NativeCall
          /\ call.at = "reseed" => cmd.verb \in {"start", "restore"}
          /\ NativeOf.op = "start" => cmd.verb = "start"
      BY <2>3, CallFacts, AnswerFacts
    <3>3. r # "limit" /\ call.at # "reseed"
      BY <1>2, <2>1, <3>1, <3>2, SeedDispatch
    <3>4. journal' # journal
      BY <1>2 DEF Pending
    <3>5. rec' = Destroyed
      BY <3>1, <3>3, <3>4 DEF AnswerTaken, Settle
    <3>6. QED
      BY <1>1, <3>5 DEF Destroyed, TypeOK, Rec
  <2>4. QED
    BY <2>1, <2>2, <2>3
<1>3. ASSUME NEW c \in Commands, Pending(c), c.verb = "create", vm.disk \notin {None, c}
      PROVE  vm'.disk = vm.disk
  <2>1. CASE Answered \/ ReplyLost
    <3>1. Calls /\ \E r \in Reply : Dispatch(NativeOf, r)
      BY <2>1 DEF Answered, ReplyLost
    <3>2. NativeOf \in NativeCall /\ NativeOf.op # "destroy"
      BY <1>3, <3>1, CallFacts
    <3>3. QED
      BY <1>3, <3>1, <3>2, DispatchFolder
  <2>2. CASE LateCallRuns
    <3>1. CASE vm' = vm
      BY <3>1
    <3>2. CASE vm' # vm
      <4>1. PICK n \in late, r \in Reply : n.op # "destroy" /\ Dispatch(n, r)
        BY <2>2, <3>2 DEF NoLate, vars
      <4>2. n \in NativeCall
        BY DEF TypeOK
      <4>3. QED
        BY <1>3, <4>1, <4>2, DispatchFolder
    <3>3. QED
      BY <3>1, <3>2
  <2>3. CASE Native
    BY <2>3, NativeFacts
  <2>4. CASE UNCHANGED vm
    BY <2>4
  <2>5. QED
    BY <2>1, <2>2, <2>3, <2>4 DEF Next, Receive, Accept, Retry, Advance, Admit, Refused, Look,
       SettleSees, ReadReceipt, Finish, Disturbance, Interrupted, Abandon, NativeRestarts,
       StartPoll, EndPoll, vars
<1>4. ASSUME NEW c \in Commands, Pending(c)
      PROVE  c.verb # "destroy" /\ (c.verb = "create" => vm.disk \in {None, c})
  <2>1. CASE Pending(c)'
    BY <1>3, <1>4, <2>1 DEF Ours
  <2>2. CASE ~Pending(c)'
    BY <1>2, <1>4, <2>2
  <2>3. QED
    BY <2>1, <2>2
<1>5. QED
  BY <1>1, <1>4 DEF Ours

\* A fence is saved once its receipt is complete.
LEMMA SavedOnce ==
  ASSUME IInv, [Next]_vars, \A c \in Commands : ~Opens(c), NEW c \in Commands, Saved(c)'
  PROVE  /\ UNCHANGED <<vm, receipts>> \/ Saved(c)
         /\ Saved(c) \/ (c.verb = "fence" /\ Pending(c) /\ receipts[c] = "completed")
<1> USE DEF IInv
<1>1. rec'.inc = rec.inc /\ c.verb = "fence" /\ journal'[c] \in {"committed", "ok"} /\ c.gen >= rec.inc
  BY OpenedOnly DEF Saved
<1>2. CASE UNCHANGED journal
  BY <1>1, <1>2 DEF Saved
<1>3. CASE Answered
  <2>1. PICK r \in Reply : Dispatch(NativeOf, r) /\ AnswerTaken(r)
    BY <1>3, AnswerFacts
  <2>2. cmd \in Commands /\ (call.at = "reseed" => cmd.verb \in {"start", "restore"})
    BY <1>3, CallFacts, AnswerFacts
  <2>3. cmd = c => UNCHANGED journal \/ journal'[c] = "refused"
    BY <1>1, <2>1, <2>2 DEF AnswerTaken, Settle, TypeOK
  <2>4. cmd # c => journal'[c] = journal[c]
    BY <2>1, <2>2 DEF AnswerTaken, Settle, TypeOK
  <2>5. QED
    BY <1>1, <1>2, <2>3, <2>4 DEF Saved
<1>4. CASE Finish
  <2>1. cmd \in Commands /\ (cmd.verb = "fence" => journal[cmd] = "committed")
    BY <1>4, NoneIsNoCommand DEF Finish, CallOK, TypeOK, Call, Token, cmd, StorageVerbs
  <2>2. QED
    BY <1>1, <1>4, <2>1 DEF Finish, Settle, Saved, TypeOK
<1>5. CASE ReadReceipt
  <2>1. cmd \in Commands /\ Pending(cmd)
    BY <1>5 DEF ReadReceipt, CallOK, NoCall, TypeOK, Call, Token, cmd
  <2>2. QED
    BY <1>1, <1>5, <2>1 DEF ReadReceipt, Settle, Saved, TypeOK
<1>6. ~Admit
  BY DEF Opens, Admit, CallOK, NoCall, TypeOK, Call, Token
<1>7. CASE \E d \in Commands : Receive(d) \/ Retry(d)
  BY <1>2, <1>7 DEF Receive, Opens, Retry
<1>8. QED
  BY <1>2, <1>3, <1>4, <1>5, <1>6, <1>7 DEF Next, Advance, Look, Refused, SettleSees, Disturbance,
     Interrupted, ReplyLost, Abandon, Native, StorageFence, StorageCompletes, StorageFails,
     GuestPowersOff, QemuExits, LateCallRuns, NativeRestarts, StartPoll, EndPoll, vars

IncarnationOK == RecordFenced /\ SavedHeld

LEMMA IncarnationOpened ==
  ASSUME IInv, ClonesKnown, JournalFenced, FolderFenced, IncarnationOK,
         NEW c \in Commands, Opens(c)
  PROVE  IncarnationOK'
<1>1. /\ journal[c] = "none" /\ \A d \in Commands : ~Pending(d)
      /\ \A d \in Commands : journal'[d] = IF d = c THEN "pending" ELSE journal[d]
      /\ rec' = Accepted(c) /\ UNCHANGED <<vm, receipts>>
  BY OpenedFacts
<1>2. CASE c.verb = "create"
  <2> SUFFICES ASSUME Ours' PROVE IncarnationOK'
    BY DEF IncarnationOK, RecordFenced, SavedHeld
  <2>1. vm.disk = None
    BY <1>1, <1>2 DEF Ours, Pending, ClonesKnown
  <2>2. RecordFenced'
    BY <1>1, <2>1 DEF RecordFenced, FolderFenced, Absent
  <2>3. rec.state = "none" \/ (rec.state = "deleted" /\ c.gen > rec.gen)
    BY <1>2, Zenon DEF Opens, Admissible, MayCreate
  <2>4. rec'.inc = IF rec.state = "deleted" THEN c.gen ELSE 0
    BY <1>1, <1>2 DEF Accepted
  <2>5. rec.gen \in Nat /\ \A d \in Commands : d.gen \in Nat
    BY CommandFields DEF IInv, TypeOK, Rec
  <2>6. \A d \in Commands : ~Saved(d)'
    BY <1>1, <2>3, <2>4, <2>5 DEF JournalFenced, Saved
  <2>7. QED
    BY <2>2, <2>6 DEF IncarnationOK, SavedHeld
<1>3. CASE c.verb # "create"
  <2>1. /\ rec.state = "live" /\ rec'.inc = rec.inc
        /\ rec'.fenced = (rec.fenced \/ c.verb = "fence")
    BY <1>1, <1>3, OpenedFacts DEF Accepted, Marked, IInv, TypeOK, Rec
  <2>2. Ours
    BY <1>1, <2>1 DEF Ours
  <2>3. RecordFenced'
    BY <1>1, <2>1, <2>2 DEF IncarnationOK, RecordFenced
  <2>4. SavedHeld'
    BY <1>1, <2>1, <2>2 DEF IncarnationOK, SavedHeld, Saved, Held
  <2>5. QED
    BY <2>3, <2>4 DEF IncarnationOK
<1>4. QED
  BY <1>2, <1>3

\* Late creates make a folder of the record only for the record's own create.
LEMMA LateCloneIsOurs ==
  ASSUME IInv, ClonesKnown, Present, Ours, Ours', UNCHANGED <<rec, journal>>,
         NEW n \in late, NEW r \in Reply, Dispatch(n, r), vm.disk = None, vm'.disk # None
  PROVE  n.inc = rec.inc
<1>1. n \in NativeCall
  BY DEF IInv, TypeOK
<1>2. n.op = "create" /\ vm'.disk = n.cmd /\ n.cmd \in Commands
  BY <1>1, DispatchFolder DEF IInv, NativeCall
<1>3. PICK c \in Commands : Pending(c) /\ c.verb = "create"
  BY DEF Present, Ours
<1>4. n.cmd = c
  BY <1>2, <1>3 DEF Ours, Pending
<1>5. QED
  BY <1>2, <1>3, <1>4 DEF ClonesKnown

LEMMA IncarnationStep ==
  /\ IInv /\ ClonesKnown /\ Present /\ JournalFenced /\ FolderFenced /\ IncarnationOK
  /\ [NoLate({"destroy"})]_vars /\ [Next]_vars
  => IncarnationOK'
<1> SUFFICES ASSUME IInv, ClonesKnown, Present, JournalFenced, FolderFenced, IncarnationOK,
                    [NoLate({"destroy"})]_vars, [Next]_vars, Ours',
                    \A c \in Commands : ~Opens(c)
             PROVE  IncarnationOK'
  BY IncarnationOpened DEF IncarnationOK, RecordFenced, SavedHeld
<1> USE DEF IInv
<1>1. Ours
  BY OursBefore
<1>2. rec'.inc = rec.inc /\ rec'.fenced = rec.fenced
  BY OpenedOnly
<1>3. /\ vm'.fenced => rec.fenced
      /\ \A c \in Commands : c.verb = "fence" /\ receipts'[c] = "pending" => rec.fenced
      /\ vm'.disk # None => vm'.sgen >= rec.inc
      /\ Held => Held'
  <2>1. CASE Answered \/ ReplyLost
    <3>1. PICK r \in Reply : Calls /\ Dispatch(NativeOf, r)
      BY <2>1 DEF Answered, ReplyLost
    <3>2. /\ NativeOf \in NativeCall /\ NativeOf.cmd \in Commands /\ Pending(NativeOf.cmd)
          /\ NativeOf.inc = rec.inc
          /\ NativeOf.op = "destroy" => NativeOf.cmd.verb = "destroy"
      BY <3>1, CallFacts
    <3>3. NativeOf.op # "destroy"
      BY <1>1, <3>2 DEF Ours
    <3>4. NativeOf.op = "submit" /\ NativeOf.cmd.verb = "fence" => rec.fenced
      BY <3>2 DEF JournalFenced
    <3>5. QED
      BY <1>1, <3>1, <3>2, <3>3, <3>4, RecordCall DEF IncarnationOK
  <2>2. CASE LateCallRuns /\ ~UNCHANGED <<vm, receipts>>
    <3>1. PICK n \in late, r \in Reply : n.op # "destroy" /\ Dispatch(n, r)
      BY <2>2 DEF NoLate, vars
    <3>2. n \in NativeCall /\ UNCHANGED <<rec, journal>>
      BY <2>2 DEF TypeOK, LateCallRuns
    <3>3. vm.disk = None /\ vm'.disk # None => n.inc = rec.inc
      BY <1>1, <3>1, <3>2, LateCloneIsOurs
    <3>4. n.op = "submit" /\ n.cmd.verb = "fence" => rec.fenced \/ n.cmd.gen < rec.inc
      BY DEF JournalFenced
    <3>5. QED
      BY <1>1, <3>1, <3>2, <3>3, <3>4, RecordCall DEF IncarnationOK
  <2>3. CASE Native
    BY <1>1, <2>3, NativeFacts DEF IncarnationOK, RecordFenced
  <2>4. CASE UNCHANGED <<vm, receipts>>
    BY <1>1, <2>4 DEF IncarnationOK, RecordFenced, Held
  <2>5. QED
    BY <2>1, <2>2, <2>3, <2>4 DEF Next, Receive, Accept, Retry, Advance, Admit, Refused, Look,
       SettleSees, ReadReceipt, Finish, Disturbance, Interrupted, Abandon, NativeRestarts,
       StartPoll, EndPoll, vars
<1>4. RecordFenced'
  BY <1>2, <1>3 DEF RecordFenced
<1>5. ASSUME NEW c \in Commands, Saved(c)' PROVE Held'
  <2>1. CASE Saved(c)
    BY <1>1, <1>3, <2>1 DEF IncarnationOK, SavedHeld
  <2>2. CASE ~Saved(c)
    <3>1. c.verb = "fence" /\ Pending(c) /\ receipts[c] = "completed" /\ UNCHANGED <<vm, receipts>>
      BY <1>5, <2>2, SavedOnce
    <3>2. vm.disk # None
      BY <3>1, PresentPending
    <3>3. QED
      BY <3>1, <3>2 DEF FolderFenced, Held
  <2>3. QED
    BY <2>1, <2>2
<1>6. QED
  BY <1>4, <1>5 DEF IncarnationOK, SavedHeld

\* Only a new incarnation lifts a fence, and it starts without one
\* (host-api.js, recreate; host.py, fence), unless a destroy the core gave up
\* on runs late.
THEOREM FenceFollows == Spec /\ [][NoLate({"destroy"})]_vars => []FenceFollowsIncarnation
<1>1. Init => Present /\ IncarnationOK
  BY DEF Init, Present, NoCall, IncarnationOK, RecordFenced, SavedHeld, Ours
<1>2. IncarnationOK => FenceFollowsIncarnation
  BY DEF IncarnationOK, RecordFenced, SavedHeld, Saved, Held, Ours, FenceFollowsIncarnation, NothingPending
<1>3. QED
  BY <1>1, <1>2, PresentStep, IncarnationStep, Inductive, ClonesAlways, FencesKnown, PTL DEF Spec
-----------------------------------------------------------------------------
(* Fences, with abandoned calls. *)

\* No native call but destroy undoes what a completed fence rests on.
LEMMA FenceDispatch ==
  ASSUME TypeOK, FenceNative, NEW n \in NativeCall, NEW r \in Reply, Dispatch(n, r), n.op # "destroy"
  PROVE  /\ FenceNative'
         /\ \A c \in Commands : receipts[c] = "completed" => receipts'[c] = "completed"
<1>1. ASSUME NEW c \in Commands, receipts'[c] = "completed"
      PROVE  receipts[c] = "completed"
  BY <1>1, DispatchDisk DEF FenceNative
<1>2. ASSUME NEW c \in Commands, receipts[c] = "completed"
      PROVE  receipts'[c] = "completed"
  BY <1>2, DispatchDisk DEF FenceNative
<1>3. ASSUME NEW c \in Commands, receipts'[c] # "none"
      PROVE  vm'.disk # None
  <2>1. CASE receipts[c] = "none"
    BY <1>3, <2>1, DispatchDisk
  <2>2. CASE receipts[c] # "none"
    BY <2>2, DispatchDisk DEF FenceNative
  <2>3. QED
    BY <2>1, <2>2
<1>4. ASSUME NEW c \in Commands, c.verb = "fence", receipts'[c] = "completed"
      PROVE  vm'.fenced /\ vm'.run = "stopped"
  <2>1. vm.fenced /\ vm.run = "stopped" /\ vm.disk # None
    BY <1>1, <1>4 DEF FenceNative
  <2>2. QED
    BY <2>1, DispatchDisk, DispatchRun
<1>5. ~vm'.torn
  BY DispatchDisk DEF FenceNative
<1>6. QED
  BY <1>2, <1>3, <1>4, <1>5 DEF FenceNative

LEMMA FenceStep == IInv /\ FenceOK /\ [Next]_vars => FenceOK'
<1> SUFFICES ASSUME IInv, FenceOK, [Next]_vars, Undestroyed'
             PROVE  FenceNative' /\ FenceSaved' /\ \A n \in late' : n.op # "destroy"
  BY DEF FenceOK
<1> USE DEF IInv
<1>1. Undestroyed /\ FenceNative /\ FenceSaved /\ \A n \in late : n.op # "destroy"
  BY KnownStep DEF Undestroyed, FenceOK
<1>2. Calls => NativeOf \in NativeCall /\ NativeOf.op # "destroy" /\ cmd \in Commands /\ Pending(cmd)
  <2>1. Calls => NativeOf \in NativeCall /\ cmd \in Commands /\ Pending(cmd)
    BY NativeOfType
  <2>2. Calls => cmd.verb # "destroy"
    BY <1>1, <2>1 DEF Undestroyed, Pending
  <2>3. QED
    BY <2>1, <2>2 DEF NativeOf
<1>3. ASSUME Calls, NEW r \in Reply, Dispatch(NativeOf, r)
      PROVE  FenceNative' /\ \A c \in Commands : receipts[c] = "completed" => receipts'[c] = "completed"
  BY <1>1, <1>2, <1>3, FenceDispatch
<1>4. CASE Answered
  <2>1. FenceNative' /\ \A c \in Commands : receipts[c] = "completed" => receipts'[c] = "completed"
    BY <1>3, <1>4 DEF Answered
  <2>2. ASSUME NEW c \in Commands, c.verb = "fence", journal'[c] \in {"committed", "ok"}
        PROVE  journal[c] \in {"committed", "ok"}
    <3>1. CASE UNCHANGED journal
      BY <2>2, <3>1
    <3>2. CASE call.at = "reseed" /\ cmd.verb # "start" /\ Settle(RestoreOutcome, rec)
      <4>1. cmd # c
        BY <1>2, <2>2, <3>2, NoneIsNoCommand DEF CallOK, cmd, Calls
      <4>2. QED
        BY <1>2, <2>2, <3>2, <4>1 DEF Settle, TypeOK, Calls
    <3>3. CASE cmd.verb = "destroy" /\ Settle("ok", Destroyed)
      BY <1>4, <1>2, <2>2, <3>3 DEF Settle, TypeOK, Answered
    <3>4. CASE Settle("refused", [rec EXCEPT !.desired = "stopped"])
      BY <1>4, <1>2, <2>2, <3>4 DEF Settle, TypeOK, Answered
    <3>5. QED
      BY <1>4, <3>1, <3>2, <3>3, <3>4 DEF Answered
  <2>3. QED
    BY <1>1, <1>4, <2>1, <2>2 DEF Answered, FenceSaved
<1>5. CASE ReplyLost
  BY <1>1, <1>3, <1>5 DEF ReplyLost, FenceSaved
<1>6. CASE Abandon
  BY <1>1, <1>2, <1>6 DEF Abandon, FenceSaved, FenceNative
<1>7. CASE LateCallRuns
  <2>1. PICK n \in late, r \in Reply : Dispatch(n, r)
    BY <1>7 DEF LateCallRuns
  <2>2. n \in NativeCall /\ n.op # "destroy"
    BY <1>1 DEF TypeOK
  <2>3. FenceNative' /\ \A c \in Commands : receipts[c] = "completed" => receipts'[c] = "completed"
    BY <1>1, <2>1, <2>2, FenceDispatch
  <2>4. QED
    BY <1>1, <1>7, <2>3 DEF LateCallRuns, FenceSaved
<1>8. CASE Native
  <2>1. FenceNative'
    BY <1>1, <1>8 DEF FenceNative, Native, StorageFence, StorageCompletes, StorageFails, GuestPowersOff,
       QemuExits, TypeOK, VM
  <2>2. \A c \in Commands : receipts[c] = "completed" => receipts'[c] = "completed"
    BY <1>8 DEF Native, StorageFence, StorageCompletes, StorageFails, GuestPowersOff, QemuExits, TypeOK
  <2>3. UNCHANGED <<journal, late>>
    BY <1>8 DEF Native, StorageFence, StorageCompletes, StorageFails, GuestPowersOff, QemuExits
  <2>4. QED
    BY <1>1, <2>1, <2>2, <2>3 DEF FenceSaved
<1>9. CASE ReadReceipt
  <2>1. cmd \in Commands
    BY <1>9 DEF ReadReceipt, CallOK, NoCall, TypeOK, Call, Token, cmd
  <2>2. FenceSaved'
    BY <1>1, <1>9, <2>1 DEF ReadReceipt, Settle, FenceSaved, TypeOK
  <2>3. QED
    BY <1>1, <1>9, <2>2 DEF ReadReceipt, FenceNative
<1>10. CASE Finish
  <2>1. cmd \in Commands /\ (cmd.verb = "fence" => journal[cmd] = "committed")
    BY <1>10, NoneIsNoCommand DEF Finish, CallOK, TypeOK, Call, Token, cmd, StorageVerbs
  <2>2. FenceSaved'
    BY <1>1, <1>10, <2>1 DEF Finish, Settle, FenceSaved, TypeOK
  <2>3. QED
    BY <1>1, <1>10, <2>2 DEF Finish, FenceNative
<1>11. CASE UNCHANGED <<journal, vm, receipts>> /\ late' \subseteq late
  BY <1>1, <1>11 DEF FenceSaved, FenceNative
<1>12. ASSUME NEW c \in Commands, Accept(c)
       PROVE  FenceNative' /\ FenceSaved' /\ \A n \in late' : n.op # "destroy"
  <2>1. FenceSaved'
    BY <1>1, <1>12 DEF Accept, FenceSaved, TypeOK
  <2>2. QED
    BY <1>1, <1>12, <2>1 DEF Accept, FenceNative
<1>13. CASE Admit
  <2>1. call.cmd \in Commands /\ Accept(call.cmd)
    BY <1>13 DEF Admit, CallOK, NoCall, TypeOK, Call, Token
  <2>2. QED
    BY <1>12, <2>1
<1>14. QED
  BY <1>4, <1>5, <1>6, <1>7, <1>8, <1>9, <1>10, <1>11, <1>12, <1>13 DEF Next, Receive, Retry, Advance,
     Refused, Look, SettleSees, Disturbance, Interrupted, NativeRestarts, StartPoll, EndPoll, vars

\* A fence that succeeded holds until the machine is destroyed (host.py,
\* fence and start), even against native calls the core gave up on.
THEOREM FencesHold == Spec => []FenceHolds
<1>1. Init => FenceOK
  BY DEF Init, FenceOK, FenceNative, FenceSaved
<1>2. FenceOK => FenceHolds
  BY DEF FenceOK, FenceNative, FenceSaved, FenceHolds, Undestroyed
<1>3. QED
  BY <1>1, <1>2, FenceStep, Inductive, PTL DEF Spec
=============================================================================
