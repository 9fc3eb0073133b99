------------------------- MODULE DurableExec_proofs -------------------------
(***************************************************************************)
(* Proofs about DurableExec for any number of calls in the guest and any   *)
(* number of boots: the safety properties, and that it implements ExecOnce. *)
(***************************************************************************)
EXTENDS DurableExec, TLAPS

-----------------------------------------------------------------------------
(* The inductive invariant.                                                 *)

\* A receipt is bound to boot 1, and so is whatever is alive of the unit.
Bound ==
  /\ receipt = NoReceipt \/ (receipt.boot = 1 /\ receipt.status # "none")
  /\ backup = NoReceipt \/ (backup.boot = 1 /\ backup.status # "none")
  /\ unit \notin {"none", "gone"} => boot = 1
  /\ boot = 1 /\ unit # "none" => receipt # NoReceipt

\* How far the unit came is how often the command was started, and its exit.
Counted ==
  /\ unit \in {"none", "starting", "fenced"} => runs = 0 /\ exit = "none"
  /\ unit = "command" => runs = 1 /\ exit = "none"
  /\ unit \in {"ended", "stopping"} => runs = 1 /\ exit # "none"
  /\ unit = "gone" => runs = 0 \/ (runs = 1 /\ exit # "none")

\* The lock belongs to the one call that is between two saves of the receipt.
Locked == \A c \in Calls :
  /\ call[c].at \in {"saved", "marked"} <=> lock = c
  /\ call[c].at = "saved" => boot = 1 /\ receipt.status = "queued" /\ unit = "none"
  /\ call[c].at = "marked" => receipt # NoReceipt

\* In its own boot a receipt that is queued or terminal has no command.
Settled == boot = 1 /\ receipt.status \in Terminal \cup {"queued"} => unit \in {"none", "starting", "gone"}

\* A verdict is that of the receipt, as long as a unit may be launched.
Decided ==
  /\ boot = 1 /\ verdict # "none" /\ record = "accepted" => receipt.status \in Terminal
  /\ \A c \in Calls : boot = 1 /\ call[c].reply # "none" => receipt.status \in Terminal

\* Wherever "completed" is or will be read, the command ran and exited zero.
Exited == exit = "ok" /\ runs = 1
Successful(r) == r.status = "completed" \/ (r.status = "finishing" /\ r.result = "ok")
Truth ==
  /\ Successful(receipt) \/ Successful(backup) \/ verdict = "completed" => Exited
  /\ \A c \in Calls : call[c].reply = "completed" => Exited

\* The host submits what is not in its journal, and asks about what is.
Journalled ==
  /\ host.at = "target" => record = IF host.mode = "submit" THEN "none" ELSE "accepted"
  /\ host.at = "capability" => record = "none"
  /\ IF host.at = "call" THEN record = "accepted" ELSE host.call = 0
  /\ record = "none" => verdict = "none"
  /\ record = "refused" => verdict # "none"
  /\ backup # NoReceipt => record = "accepted"

IInv == /\ TypeOK /\ Bound /\ Counted /\ Locked /\ Settled /\ Decided /\ Truth /\ Journalled
        /\ AcceptedFirst
-----------------------------------------------------------------------------
(* Steps that leave most of the state alone.                                *)

\* Initially nothing was accepted or sent.
LEMMA InitIInv == Init => IInv
<1> SUFFICES ASSUME Init PROVE IInv OBVIOUS
<1> USE MaxBootAssumption, CallsAssumption DEF Init
<1>1. NoReceipt \in Receipts /\ Idle \in Handlers /\ Free \in GuestCalls
  BY DEF NoReceipt, Receipts, Idle, Handlers, Modes, Free, GuestCalls, Verdicts, Terminal
<1>2. TypeOK
  <2>1. verdict \in Verdicts /\ boot \in 1 .. MaxBoot /\ call \in [Calls -> GuestCalls]
    BY <1>1 DEF Verdicts
  <2> QED BY <1>1, <2>1 DEF TypeOK
<1>3. Bound /\ Counted /\ Locked /\ Settled
  BY DEF Bound, Counted, Locked, Settled, Free
<1>4. Decided /\ Truth /\ Journalled /\ AcceptedFirst
  BY DEF Decided, Truth, Successful, Journalled, AcceptedFirst, Free, Idle, NoReceipt
<1> QED BY <1>2, <1>3, <1>4 DEF IInv

\* What public() shows of a receipt.
LEMMA ShownVerdict ==
  \A r : Shown(r) \in Verdicts /\ (Shown(r) # "none" => r.status \in Terminal /\ Shown(r) = r.status)
BY DEF Shown, Verdicts, Terminal

\* An answer is that of the receipt, and no other call notices.
LEMMA ReplyFacts ==
  ASSUME call \in [Calls -> GuestCalls], NEW c \in Calls, NEW r, Reply(c, r)
  PROVE  /\ call' \in [Calls -> GuestCalls]
         /\ call'[c].at \in {"answered", "free"}
         /\ call'[c].reply # "none" => r.status \in Terminal /\ call'[c].reply = r.status
         /\ \A d \in Calls \ {c} : call'[d] = call[d]
<1>1. Free \in GuestCalls /\ Free.at = "free" /\ Free.reply = "none"
  BY DEF Free, GuestCalls, Modes, Verdicts
<1>2. CASE host.call = c
  <2>1. call' = [call EXCEPT ![c] = [@ EXCEPT !.at = "answered", !.reply = Shown(r)]]
    BY <1>2 DEF Reply
  <2>2. call'[c] = [call[c] EXCEPT !.at = "answered", !.reply = Shown(r)]
    BY <2>1
  <2>3. call'[c] \in GuestCalls /\ call'[c].at = "answered" /\ call'[c].reply = Shown(r)
    <3>1. call[c] \in GuestCalls /\ Shown(r) \in Verdicts BY ShownVerdict
    <3> QED BY <2>2, <3>1 DEF GuestCalls
  <2> QED BY <2>1, <2>3, ShownVerdict
<1>3. CASE host.call # c
  <2>1. call' = [call EXCEPT ![c] = Free] BY <1>3 DEF Reply
  <2> QED BY <1>1, <2>1
<1> QED BY <1>2, <1>3

\* A call that goes to another place.
LEMMA GotoFacts ==
  ASSUME call \in [Calls -> GuestCalls], NEW c \in Calls,
         NEW p \in {"saved", "marked", "stop", "check"}, Goto(c, p)
  PROVE  /\ call' \in [Calls -> GuestCalls]
         /\ call'[c].at = p /\ call'[c].reply = call[c].reply
         /\ \A d \in Calls \ {c} : call'[d] = call[d]
BY DEF Goto, GuestCalls

\* The host does not touch the guest, nor the calls that hold the lock.
LEMMA GuestQuiet ==
  ASSUME IInv, UNCHANGED <<guest, command, lock>>,
         \A d \in Calls : call'[d] = call[d] \/ (call'[d].at \notin {"saved", "marked"} /\ lock # d)
  PROVE  Bound' /\ Counted' /\ Locked' /\ Settled'
BY DEF IInv, guest, command, Bound, Counted, Locked, Settled

\* A call is sent from a slot that holds nothing.
LEMMA SendFacts ==
  ASSUME IInv, NEW mode \in Modes, Send(mode)
  PROVE  /\ call' \in [Calls -> GuestCalls] /\ host' \in Handlers /\ host'.at = "call"
         /\ \A d \in Calls : call'[d] = call[d]
                              \/ (call'[d].at = "sent" /\ call'[d].reply = "none" /\ lock # d)
<1>1. PICK c \in Calls :
        /\ call[c] = Free
        /\ call' = [call EXCEPT ![c] = [at |-> "sent", mode |-> mode, reply |-> "none"]]
        /\ host' = [at |-> "call", mode |-> mode, call |-> c]
  BY DEF Send
<1>2. [at |-> "sent", mode |-> mode, reply |-> "none"] \in GuestCalls
  BY DEF GuestCalls, Verdicts
<1>3. lock # c
  BY <1>1 DEF IInv, Locked, Free
<1>4. host' \in Handlers /\ host'.at = "call"
  BY <1>1 DEF Handlers
<1>5. call' \in [Calls -> GuestCalls]
  BY <1>1, <1>2 DEF IInv, TypeOK
<1>6. call'[c].at = "sent" /\ call'[c].reply = "none" /\ \A d \in Calls \ {c} : call'[d] = call[d]
  BY <1>1 DEF IInv, TypeOK
<1> QED BY <1>3, <1>4, <1>5, <1>6

\* Every step of the host keeps the invariant.
LEMMA HostIInv ==
  ASSUME IInv, (\E mode \in Modes : Request(mode)) \/ Handle \/ GiveUp \/ HostCrashes \/ Superseded
  PROVE  IInv'
<1>0. Idle \in Handlers /\ Idle.at = "idle" /\ Idle.call = 0
  BY DEF Idle, Handlers, Modes
<1> USE DEF IInv, TypeOK
<1>1. CASE \E mode \in Modes : Request(mode)
  <2>1. PICK mode \in Modes : Request(mode)
    BY <1>1
  <2>2. /\ host' \in Handlers /\ host'.at = "target" /\ host'.call = 0
        /\ record = IF host'.mode = "submit" THEN "none" ELSE "accepted"
    BY <2>1 DEF Request, Handlers, Modes, Journalled
  <2>3. UNCHANGED <<record, verdict, current, guest, command, lock, call>>
    BY <2>1 DEF Request, journal
  <2> QED BY <2>2, <2>3, GuestQuiet
          DEF guest, command, Decided, Truth, Exited, Journalled, AcceptedFirst
<1>2. CASE TargetKnown
  <2>1. UNCHANGED <<record, verdict, current, guest, command, lock>>
    BY <1>2 DEF TargetKnown, journal
  <2>2. CASE host.mode = "submit"
    <3>1. host' = [host EXCEPT !.at = "capability"] /\ call' = call /\ host.at = "target"
      BY <1>2, <2>2 DEF TargetKnown
    <3>2. host' \in Handlers /\ host'.at = "capability" /\ host'.call = 0
      BY <3>1 DEF Handlers, Journalled
    <3> QED BY <2>1, <2>2, <3>1, <3>2, GuestQuiet
            DEF guest, command, Decided, Truth, Exited, Journalled, AcceptedFirst
  <2>3. CASE host.mode # "submit"
    <3>1. Send(host.mode) /\ host.mode \in Modes /\ host.at = "target"
      BY <1>2, <2>3 DEF TargetKnown, Handlers
    <3>2. record = "accepted"
      BY <2>3, <3>1 DEF Journalled
    <3> QED BY <2>1, <3>1, <3>2, SendFacts, GuestQuiet
            DEF guest, command, Decided, Truth, Exited, Journalled, AcceptedFirst
  <2> QED BY <2>2, <2>3
<1>3. CASE TargetUnknown \/ Outdated \/ GiveUp \/ HostCrashes
  <2>1. host' = Idle /\ UNCHANGED <<record, verdict, current, guest, command, lock, call>>
    BY <1>3 DEF TargetUnknown, Outdated, GiveUp, HostCrashes, journal
  <2> QED BY <1>0, <2>1, GuestQuiet
          DEF guest, command, Decided, Truth, Exited, Journalled, AcceptedFirst
<1>4. CASE Accept
  <2>1. /\ host.at = "capability" /\ record' = "accepted" /\ Send("submit")
        /\ UNCHANGED <<verdict, current, guest, command, lock>>
    BY <1>4 DEF Accept
  <2>2. record = "none" /\ verdict = "none"
    BY <2>1 DEF Journalled
  <2> QED BY <2>1, <2>2, SendFacts, GuestQuiet
          DEF Modes, guest, command, Decided, Truth, Exited, Journalled, AcceptedFirst
<1>5. CASE Refuse
  <2>1. /\ host.at = "capability" /\ record' = "refused" /\ verdict' = "failed" /\ host' = Idle
        /\ UNCHANGED <<current, guest, command, lock, call>>
    BY <1>5 DEF Refuse
  <2>2. record = "none" /\ verdict' \in Verdicts
    BY <2>1 DEF Journalled, Verdicts, Terminal
  <2> QED BY <1>0, <2>1, <2>2, GuestQuiet
          DEF guest, command, Decided, Truth, Exited, Journalled, AcceptedFirst
<1>6. CASE Answered
  <2>1. PICK c \in Calls :
          /\ host.call = c /\ call[c].at = "answered"
          /\ verdict' = (IF verdict = "none" THEN call[c].reply ELSE verdict)
          /\ host' = Idle /\ call' = [call EXCEPT ![c] = Free]
          /\ UNCHANGED <<record, current, guest, command, lock>>
    BY <1>6 DEF Answered
  <2>2. /\ call' \in [Calls -> GuestCalls] /\ call'[c].at = "free" /\ call'[c].reply = "none" /\ lock # c
        /\ \A d \in Calls \ {c} : call'[d] = call[d]
    BY <2>1 DEF Free, GuestCalls, Modes, Verdicts, Locked
  <2>3. record = "accepted"
    BY <2>1 DEF AcceptedFirst, Free
  <2>4. call[c].reply \in Verdicts /\ verdict' \in Verdicts
    BY <2>1 DEF GuestCalls
  <2>5. Decided' /\ Truth'
    BY <2>1, <2>2 DEF Decided, Truth, Exited, guest, command
  <2> QED BY <1>0, <2>1, <2>2, <2>3, <2>4, <2>5, GuestQuiet
          DEF guest, command, Journalled, AcceptedFirst
<1>7. CASE Superseded
  <2>1. current' \in BOOLEAN /\ UNCHANGED <<record, verdict, host, guest, command, lock, call>>
    BY <1>7 DEF Superseded
  <2> QED BY <2>1, GuestQuiet
          DEF guest, command, Decided, Truth, Exited, Journalled, AcceptedFirst
<1> QED BY <1>1, <1>2, <1>3, <1>4, <1>5, <1>6, <1>7 DEF Handle
-----------------------------------------------------------------------------
(* Calls in the guest.                                                      *)

\* What a step of a call may make of the receipt.
Settles(r) ==
  /\ r \in Receipts /\ r.boot = receipt.boot /\ r.status # "none"
  /\ receipt.status \in Terminal => r.status = receipt.status
  /\ boot = 1 /\ r.status \in Terminal \cup {"queued"} => unit \in {"none", "starting", "gone"}
  /\ Successful(r) => Exited

\* A receipt that stays, becomes unknown or is asked to be cancelled.
LEMMA PlainSettles ==
  ASSUME IInv, receipt # NoReceipt
  PROVE  Settles(receipt) /\ Settles([receipt EXCEPT !.cancel = TRUE])
         /\ (receipt.status \notin Terminal => Settles(Unknown(receipt)))
<1>1. receipt \in Receipts /\ receipt.status # "none"
  BY DEF IInv, TypeOK, Bound
<1>2. Settles(receipt)
  BY <1>1 DEF IInv, Settled, Truth, Settles
<1>3. [receipt EXCEPT !.cancel = TRUE] \in Receipts /\ Unknown(receipt) \in Receipts
  BY <1>1 DEF Receipts, Unknown
<1>4. Unknown(receipt).status = "outcome_unknown" /\ Unknown(receipt).boot = receipt.boot
  BY <1>1 DEF Receipts, Unknown
<1>5. Settles([receipt EXCEPT !.cancel = TRUE])
  <2> DEFINE r == [receipt EXCEPT !.cancel = TRUE]
  <2>1. r.status = receipt.status /\ r.boot = receipt.boot /\ r.result = receipt.result
    BY <1>1 DEF Receipts
  <2> QED BY <1>2, <1>3, <2>1 DEF Settles, Successful
<1> QED BY <1>2, <1>3, <1>4, <1>5 DEF Settles, Successful, Terminal

\* Reconciling a receipt settles it only when its scope is gone.
LEMMA ReconciledSettles ==
  ASSUME IInv, receipt # NoReceipt, NEW seen \in BOOLEAN
  PROVE  /\ Settles(Reconciled(receipt, seen))
         /\ Reconciled(receipt, seen).scope = receipt.scope
<1> DEFINE r == Reconciled(receipt, seen)
<1>1. receipt \in Receipts /\ receipt.status # "none" /\ receipt.boot = 1
  BY DEF IInv, TypeOK, Bound
<1>2. CASE receipt.status \in Terminal
  BY <1>2, PlainSettles DEF Reconciled
<1>3. CASE receipt.status \notin Terminal /\ receipt.status = "finishing" /\ ScopeGone(receipt, seen)
  <2>1. r = [receipt EXCEPT !.status = IF receipt.result = "ok" THEN "completed" ELSE "failed"]
    BY <1>3 DEF Reconciled
  <2>2. r \in Receipts /\ r.boot = receipt.boot /\ r.scope = receipt.scope
        /\ r.status = IF receipt.result = "ok" THEN "completed" ELSE "failed"
    BY <1>1, <2>1 DEF Receipts, Terminal
  <2>3. unit = "gone"
    BY <1>3 DEF ScopeGone
  <2>4. Successful(r) => Successful(receipt)
    BY <1>3, <2>2 DEF Successful
  <2> QED BY <1>3, <2>2, <2>3, <2>4 DEF IInv, Truth, Settles
<1>4. CASE /\ receipt.status \notin Terminal /\ ~(receipt.status = "finishing" /\ ScopeGone(receipt, seen))
           /\ CancelProved(receipt, seen)
  <2>1. r = [receipt EXCEPT !.status = "failed", !.result = "cancelled"]
    BY <1>4 DEF Reconciled, Cancelled
  <2>2. r \in Receipts /\ r.boot = receipt.boot /\ r.scope = receipt.scope /\ r.status = "failed"
    BY <1>1, <2>1 DEF Receipts, Terminal
  <2>3. unit = "gone"
    BY <1>4 DEF CancelProved, ScopeGone
  <2> QED BY <1>4, <2>2, <2>3 DEF Settles, Successful
<1>5. CASE /\ receipt.status \notin Terminal /\ ~(receipt.status = "finishing" /\ ScopeGone(receipt, seen))
           /\ ~CancelProved(receipt, seen)
  <2>1. r \in {receipt, Unknown(receipt)}
    BY <1>5 DEF Reconciled
  <2>2. Unknown(receipt).scope = receipt.scope
    BY <1>1 DEF Unknown, Receipts
  <2> QED BY <1>5, <2>1, <2>2, PlainSettles
<1> QED BY <1>2, <1>3, <1>4, <1>5

\* A step that settles the receipt keeps the invariant, if the lock and the
\* calls agree afterwards.
LEMMA SettleIInv ==
  ASSUME IInv, NEW c \in Calls, receipt # NoReceipt, Settles(receipt'),
         UNCHANGED <<journal, host, boot, backup, aged, command>>,
         call' \in [Calls -> GuestCalls], lock' \in Calls \cup {0},
         \A d \in Calls \ {c} : call'[d] = call[d],
         \A d \in Calls \ {c} : lock = d <=> lock' = d, call'[c].at # "saved",
         (\E d \in Calls \ {c} : call[d].at = "saved") => receipt'.status = receipt.status,
         call'[c].at = "marked" <=> lock' = c,
         call'[c].reply # "none" =>
           (call'[c].reply = call[c].reply
              \/ (receipt'.status \in Terminal /\ call'[c].reply = receipt'.status))
  PROVE  IInv'
<1> USE DEF IInv, TypeOK, journal, command
<1>1. receipt' # NoReceipt /\ receipt' \in Receipts
  BY DEF Settles, NoReceipt
<1>2. Bound' /\ Counted'
  BY <1>1 DEF Bound, Counted, Settles
<1>3. Locked'
  BY <1>1 DEF Locked
<1>4. Settled'
  BY DEF Settled, Settles
<1>5. Decided'
  BY DEF Decided, Settles
<1>6. Truth'
  <2>1. Successful(receipt') => Exited
    BY DEF Settles
  <2>2. call'[c].reply = "completed" => Exited
    BY <2>1 DEF Truth, Successful
  <2>3. Exited' = Exited /\ Successful(receipt)' = Successful(receipt') /\ Successful(backup)' = Successful(backup)
    BY DEF Exited, Successful
  <2> QED BY <2>1, <2>2, <2>3 DEF Truth
<1>7. Journalled' /\ AcceptedFirst'
  BY DEF Journalled, AcceptedFirst
<1> QED BY <1>1, <1>2, <1>3, <1>4, <1>5, <1>6, <1>7

\* The end of a unit by force settles nothing and starts nothing.
LEMMA KillFacts ==
  ASSUME IInv, KillUnit, UNCHANGED <<journal, host, guest, runs, lock>>,
         record = "accepted", call' \in [Calls -> GuestCalls],
         \A d \in Calls : call'[d] = call[d]
           \/ (call'[d].at \notin {"saved", "marked"} /\ lock # d /\ call'[d].reply = call[d].reply)
  PROVE  IInv'
<1> USE DEF IInv, TypeOK, guest, journal
<1>1. /\ unit' \in {"none", "gone", "stopping"}
      /\ unit \in {"none", "stopping", "gone"} => unit' = unit /\ exit' = exit
      /\ unit \in {"starting", "fenced"} => unit' = "gone" /\ exit' = exit
      /\ unit = "ended" => unit' = "stopping" /\ exit' = exit
      /\ unit = "command" => unit' = "stopping" /\ exit' = "bad"
  BY DEF KillUnit, Killed
<1>2. Bound' /\ Counted' /\ Settled'
  BY <1>1 DEF Bound, Counted, Settled
<1>3. Locked'
  BY <1>1 DEF Locked
<1>4. Exited => Exited'
  BY <1>1 DEF Exited, Counted
<1>5. Successful(receipt)' = Successful(receipt) /\ Successful(backup)' = Successful(backup)
  BY DEF Successful
<1>6. Decided' /\ Truth'
  BY <1>4, <1>5 DEF Decided, Truth
<1>7. Journalled' /\ AcceptedFirst'
  BY DEF Journalled, AcceptedFirst
<1>8. unit' \in {"none", "starting", "fenced", "command", "ended", "stopping", "gone"}
      /\ exit' \in {"none", "ok", "bad"}
  BY <1>1
<1> QED BY <1>2, <1>3, <1>6, <1>7, <1>8

\* Calls that have the lock, and those that wait for it.
LEMMA StatusIInv ==
  ASSUME IInv, NEW c \in Calls, NEW seen \in BOOLEAN, Status(c, seen)
  PROVE  IInv'
<1>1. /\ lock = 0 /\ lock' = 0 /\ Reply(c, receipt')
      /\ receipt' = (IF receipt = NoReceipt THEN receipt ELSE Reconciled(receipt, seen))
      /\ UNCHANGED <<journal, host, boot, backup, aged, command>>
  BY DEF Status
<1>2. /\ call' \in [Calls -> GuestCalls]
      /\ call'[c].at \in {"answered", "free"}
      /\ call'[c].reply # "none" => receipt'.status \in Terminal /\ call'[c].reply = receipt'.status
      /\ \A d \in Calls \ {c} : call'[d] = call[d]
  BY <1>1, ReplyFacts DEF IInv, TypeOK
<1>3. \A d \in Calls : call[d].at \notin {"saved", "marked"} /\ lock # d
  BY <1>1, CallsAssumption DEF IInv, Locked
<1>4. CASE receipt = NoReceipt
  <2>1. receipt' = receipt /\ call'[c].reply = "none"
    BY <1>1, <1>2, <1>4 DEF NoReceipt, Terminal
  <2>2. \E d \in Calls : call[d] # Free
    BY DEF Status, At, Free
  <2> QED
    BY <1>1, <1>2, <1>3, <2>1, <2>2
    DEF IInv, TypeOK, journal, command, Bound, Counted, Locked, Settled, Decided, Truth, Exited,
        Journalled, AcceptedFirst
<1>5. CASE receipt # NoReceipt
  <2>1. Settles(receipt')
    BY <1>1, <1>5, ReconciledSettles
  <2> QED BY <1>1, <1>2, <1>3, <1>5, <2>1, SettleIInv
<1> QED BY <1>4, <1>5

LEMMA SubmitIInv ==
  ASSUME IInv, NEW c \in Calls, Submit(c) \/ SubmitRefused(c) \/ Launch(c) \/ LaunchFails(c)
  PROVE  IInv'
<1> USE DEF IInv, TypeOK
<1>1. CASE Submit(c)
  <2>1. /\ call[c].at = "sent" /\ lock = 0 /\ receipt = NoReceipt /\ boot = 1
        /\ receipt' = [NoReceipt EXCEPT !.status = "queued", !.boot = boot]
        /\ lock' = c /\ Goto(c, "saved")
        /\ UNCHANGED <<journal, host, boot, backup, aged, command>>
    BY <1>1 DEF Submit, At
  <2>2. receipt' \in Receipts /\ receipt'.status = "queued" /\ receipt'.boot = 1 /\ receipt' # NoReceipt
    <3>1. receipt' = [status |-> "queued", boot |-> 1, scope |-> FALSE, cancel |-> FALSE, result |-> "none"]
      BY <2>1 DEF NoReceipt
    <3> QED BY <3>1, MaxBootAssumption DEF NoReceipt, Receipts
  <2>3. unit = "none" /\ runs = 0
    BY <2>1 DEF Bound, Counted
  <2>4. /\ call' \in [Calls -> GuestCalls] /\ call'[c].at = "saved" /\ call'[c].reply = call[c].reply
        /\ \A d \in Calls \ {c} : call'[d] = call[d]
    BY <2>1, GotoFacts
  <2>5. \A d \in Calls : call[d].at \notin {"saved", "marked"}
    BY <2>1, CallsAssumption DEF Locked
  <2>6. record = "accepted"
    BY <2>1 DEF AcceptedFirst, Free
  <2>7. receipt.status = "none" /\ \A d \in Calls : call[d].reply = "none"
    BY <2>1 DEF Decided, NoReceipt, Terminal
  <2>8. verdict = "none"
    BY <2>1, <2>6, <2>7 DEF Decided, Terminal
  <2>9. Bound' /\ Counted' /\ Settled'
    BY <2>1, <2>2, <2>3 DEF Bound, Counted, Settled, command
  <2>10. Locked'
    BY <2>1, <2>2, <2>3, <2>4, <2>5, CallsAssumption DEF Locked, command
  <2>11. Decided' /\ Truth'
    BY <2>1, <2>2, <2>4, <2>7, <2>8 DEF Decided, Truth, Successful, Exited, journal, command
  <2>12. Journalled' /\ AcceptedFirst'
    BY <2>1, <2>6 DEF Journalled, AcceptedFirst, journal
  <2> QED BY <2>1, <2>2, <2>4, <2>9, <2>10, <2>11, <2>12 DEF journal, command
<1>2. CASE SubmitRefused(c)
  <2>1. /\ call[c].at = "sent" /\ lock = 0 /\ receipt = NoReceipt /\ Reply(c, receipt)
        /\ UNCHANGED <<journal, host, guest, command, lock>>
    BY <1>2 DEF SubmitRefused, At
  <2>2. /\ call' \in [Calls -> GuestCalls] /\ call'[c].at \in {"answered", "free"}
        /\ call'[c].reply = "none" /\ \A d \in Calls \ {c} : call'[d] = call[d]
    BY <2>1, ReplyFacts DEF NoReceipt, Terminal
  <2>3. record = "accepted"
    BY <2>1 DEF AcceptedFirst, Free
  <2>4. lock # c
    BY <2>1, CallsAssumption
  <2> QED BY <2>1, <2>2, <2>3, <2>4, GuestQuiet
          DEF journal, guest, command, Decided, Truth, Exited, Journalled, AcceptedFirst
<1>3. CASE Launch(c)
  <2>1. /\ call[c].at = "saved" /\ unit' = "starting" /\ lock' = 0 /\ Reply(c, receipt)
        /\ UNCHANGED <<journal, host, guest, runs, exit>>
    BY <1>3 DEF Launch
  <2>2. lock = c /\ boot = 1 /\ receipt.status = "queued" /\ unit = "none"
    BY <2>1 DEF Locked
  <2>3. /\ call' \in [Calls -> GuestCalls] /\ call'[c].at \in {"answered", "free"}
        /\ call'[c].reply = "none" /\ \A d \in Calls \ {c} : call'[d] = call[d]
    BY <2>1, <2>2, ReplyFacts DEF Terminal
  <2>4. receipt # NoReceipt
    BY <2>2 DEF NoReceipt
  <2>5. Bound' /\ Counted' /\ Settled'
    BY <2>1, <2>2, <2>4 DEF guest, Bound, Counted, Settled
  <2>6. \A d \in Calls : call'[d].at \notin {"saved", "marked"}
    BY <2>2, <2>3 DEF Locked
  <2>7. Locked'
    BY <2>1, <2>6, CallsAssumption DEF Locked
  <2>8. Decided' /\ Truth'
    BY <2>1, <2>3 DEF Decided, Truth, Exited, Successful, journal, guest
  <2>9. Journalled' /\ AcceptedFirst'
    BY <2>1, <2>4 DEF Journalled, AcceptedFirst, journal, guest
  <2> QED BY <2>1, <2>3, <2>5, <2>7, <2>8, <2>9 DEF journal, guest
<1>4. CASE LaunchFails(c)
  <2>1. /\ call[c].at = "saved" /\ receipt' \in {receipt, Unknown(receipt)} /\ lock' = 0
        /\ Reply(c, receipt') /\ UNCHANGED <<journal, host, boot, backup, aged, command>>
    BY <1>4 DEF LaunchFails
  <2>2. lock = c /\ receipt.status = "queued" /\ receipt # NoReceipt
    BY <2>1 DEF Locked, NoReceipt
  <2>3. Settles(receipt')
    BY <2>1, <2>2, PlainSettles DEF Terminal
  <2>4. /\ call' \in [Calls -> GuestCalls] /\ call'[c].at \in {"answered", "free"}
        /\ call'[c].reply # "none" => receipt'.status \in Terminal /\ call'[c].reply = receipt'.status
        /\ \A d \in Calls \ {c} : call'[d] = call[d]
    BY <2>1, ReplyFacts
  <2>5. lock' # c /\ \A d \in Calls \ {c} : lock # d /\ lock' # d /\ call[d].at # "saved"
    BY <2>1, <2>2, CallsAssumption DEF Locked
  <2> QED BY <2>1, <2>2, <2>3, <2>4, <2>5, SettleIInv
<1> QED BY <1>1, <1>2, <1>3, <1>4

LEMMA CancelIInv ==
  ASSUME IInv, NEW c \in Calls,
         Mark(c) \/ (\E seen, sure \in BOOLEAN : Decide(c, seen, sure)) \/ Stop(c)
  PROVE  IInv'
<1> USE DEF IInv, TypeOK
<1>1. CASE Mark(c)
  <2>1. /\ call[c].at = "sent" /\ lock = 0
        /\ UNCHANGED <<journal, host, boot, backup, aged, command>>
    BY <1>1 DEF Mark, At
  <2>2. lock # c /\ \A d \in Calls : lock # d /\ call[d].at \notin {"saved", "marked"}
    BY <2>1, CallsAssumption DEF Locked
  <2>3. CASE receipt = NoReceipt \/ receipt.status \in Terminal
    <3>1. Reply(c, receipt) /\ UNCHANGED <<receipt, lock>>
      BY <1>1, <2>3 DEF Mark
    <3>2. /\ call' \in [Calls -> GuestCalls] /\ call'[c].at \in {"answered", "free"}
          /\ call'[c].reply # "none" => receipt.status \in Terminal /\ call'[c].reply = receipt.status
          /\ \A d \in Calls \ {c} : call'[d] = call[d]
      BY <3>1, ReplyFacts
    <3>3. record = "accepted"
      BY <2>1 DEF AcceptedFirst, Free
    <3>4. Decided' /\ Truth'
      BY <2>1, <3>1, <3>2 DEF Decided, Truth, Successful, Exited, journal, command
    <3> QED BY <2>1, <2>2, <3>1, <3>2, <3>3, <3>4, GuestQuiet
            DEF journal, guest, command, Journalled, AcceptedFirst
  <2>4. CASE ~(receipt = NoReceipt \/ receipt.status \in Terminal)
    <3>1. receipt' = [receipt EXCEPT !.cancel = TRUE] /\ lock' = c /\ Goto(c, "marked")
      BY <1>1, <2>4 DEF Mark
    <3>2. Settles(receipt')
      BY <2>4, <3>1, PlainSettles
    <3>3. /\ call' \in [Calls -> GuestCalls] /\ call'[c].at = "marked" /\ call'[c].reply = call[c].reply
          /\ \A d \in Calls \ {c} : call'[d] = call[d]
      BY <3>1, GotoFacts
    <3> QED BY <2>1, <2>2, <2>4, <3>1, <3>2, <3>3, SettleIInv
  <2> QED BY <2>3, <2>4
<1>2. CASE \E seen, sure \in BOOLEAN : Decide(c, seen, sure)
  <2>1. PICK seen, sure \in BOOLEAN : Decide(c, seen, sure)
    BY <1>2
  <2> DEFINE r == Reconciled(receipt, seen)
  <2>2. /\ call[c].at = "marked" /\ lock' = 0
        /\ UNCHANGED <<journal, host, boot, backup, aged, command>>
        /\ \/ receipt' = r
           \/ r.status \notin Terminal /\ receipt' = Unknown(r)
           \/ r.status = "queued" /\ receipt' = Cancelled(r)
        /\ Goto(c, "stop") \/ Reply(c, receipt')
    BY <2>1 DEF Decide
  <2>3. lock = c /\ receipt # NoReceipt /\ lock' # c
        /\ \A d \in Calls \ {c} : lock # d /\ lock' # d /\ call[d].at # "saved"
    BY <2>2, CallsAssumption DEF Locked
  <2>4. Settles(r)
    BY <2>3, ReconciledSettles
  <2>5. r.status \notin Terminal => Settles(Unknown(r))
    <3>1. Unknown(r) \in Receipts /\ Unknown(r).status = "outcome_unknown" /\ Unknown(r).boot = r.boot
      BY <2>4 DEF Settles, Receipts, Unknown
    <3> QED BY <2>4, <3>1 DEF Settles, Successful, Terminal
  <2>6. r.status = "queued" => Settles(Cancelled(r))
    <3>1. Cancelled(r) \in Receipts /\ Cancelled(r).status = "failed" /\ Cancelled(r).boot = r.boot
      BY <2>4 DEF Settles, Receipts, Cancelled, Terminal
    <3> QED BY <2>4, <3>1 DEF Settles, Successful, Terminal
  <2>7. Settles(receipt')
    BY <2>2, <2>4, <2>5, <2>6
  <2>8. /\ call' \in [Calls -> GuestCalls] /\ call'[c].at \in {"answered", "free", "stop"}
        /\ call'[c].reply # "none" =>
             call'[c].reply = call[c].reply
               \/ (receipt'.status \in Terminal /\ call'[c].reply = receipt'.status)
        /\ \A d \in Calls \ {c} : call'[d] = call[d]
    BY <2>2, ReplyFacts, GotoFacts
  <2> QED BY <2>2, <2>3, <2>7, <2>8, SettleIInv
<1>3. CASE Stop(c)
  <2>1. /\ call[c].at = "stop" /\ Goto(c, "check") /\ (KillUnit \/ UNCHANGED <<unit, exit>>)
        /\ UNCHANGED <<journal, host, guest, runs, lock>>
    BY <1>3 DEF Stop
  <2>2. /\ call' \in [Calls -> GuestCalls] /\ call'[c].at = "check" /\ call'[c].reply = call[c].reply
        /\ \A d \in Calls \ {c} : call'[d] = call[d]
    BY <2>1, GotoFacts
  <2>3. lock # c
    BY <2>1 DEF Locked
  <2>4. record = "accepted"
    BY <2>1 DEF AcceptedFirst, Free
  <2>5. CASE UNCHANGED <<unit, exit>>
    BY <2>1, <2>2, <2>3, <2>4, <2>5, GuestQuiet
    DEF journal, guest, command, Decided, Truth, Exited, Journalled, AcceptedFirst
  <2>6. CASE KillUnit
    BY <2>1, <2>2, <2>3, <2>4, <2>6, KillFacts
  <2> QED BY <2>1, <2>5, <2>6
<1> QED BY <1>1, <1>2, <1>3

\* Calls that end without an answer of their own.
LEMMA EndIInv ==
  ASSUME IInv, NEW c \in Calls, CallDies(c) \/ Unread(c)
  PROVE  IInv'
<1> USE DEF IInv, TypeOK
<1>1. CASE CallDies(c)
  <2>1. /\ call[c].at # "free" /\ Reply(c, NoReceipt) /\ lock' = (IF lock = c THEN 0 ELSE lock)
        /\ UNCHANGED <<journal, host, guest, command>>
    BY <1>1 DEF CallDies
  <2>2. /\ call' \in [Calls -> GuestCalls] /\ call'[c].at \in {"answered", "free"}
        /\ call'[c].reply = "none" /\ \A d \in Calls \ {c} : call'[d] = call[d]
    BY <2>1, ReplyFacts DEF NoReceipt, Terminal
  <2>3. record = "accepted"
    BY <2>1 DEF AcceptedFirst, Free
  <2>4. Locked' /\ lock' \in Calls \cup {0}
    BY <2>1, <2>2, CallsAssumption DEF Locked, guest, command
  <2>5. Bound' /\ Counted' /\ Settled'
    BY <2>1 DEF Bound, Counted, Settled, guest, command
  <2>6. Decided' /\ Truth'
    BY <2>1, <2>2 DEF Decided, Truth, Successful, Exited, journal, guest, command
  <2> QED BY <2>1, <2>2, <2>3, <2>4, <2>5, <2>6
          DEF journal, guest, command, Journalled, AcceptedFirst
<1>2. CASE Unread(c)
  <2>1. /\ call[c].at = "answered" /\ call' = [call EXCEPT ![c] = Free]
        /\ UNCHANGED <<journal, host, guest, command, lock>>
    BY <1>2 DEF Unread
  <2>2. /\ call' \in [Calls -> GuestCalls] /\ call'[c].at = "free" /\ call'[c].reply = "none" /\ lock # c
        /\ \A d \in Calls \ {c} : call'[d] = call[d]
    BY <2>1 DEF Free, GuestCalls, Modes, Verdicts, Locked
  <2>3. record = "accepted"
    BY <2>1 DEF AcceptedFirst, Free
  <2> QED BY <2>1, <2>2, <2>3, GuestQuiet
          DEF journal, guest, command, Decided, Truth, Exited, Journalled, AcceptedFirst
<1> QED BY <1>1, <1>2

\* The unit: it starts the command from a receipt that is queued, and saves
\* what became of it in one that is running.
LEMMA UnitIInv ==
  ASSUME IInv, Unit \/ WorkerDies
  PROVE  IInv'
<1> USE DEF IInv, TypeOK
<1>0. unit # "none" => record = "accepted"
  BY DEF AcceptedFirst
<1>1. CASE Fence
  <2>1. /\ unit = "starting" /\ lock = 0 /\ boot = 1 /\ receipt # NoReceipt /\ receipt \in Receipts
        /\ UNCHANGED <<journal, host, boot, backup, aged, runs, exit, lock, call>>
    BY <1>1 DEF Fence, Bound
  <2>2. \A d \in Calls : call[d].at \notin {"saved", "marked"} /\ lock # d
    BY <2>1, CallsAssumption DEF Locked
  <2>3. CASE MayLaunch
    <3>1. unit' = "fenced" /\ receipt' = [receipt EXCEPT !.status = "running", !.scope = TRUE]
          /\ receipt.status = "queued"
      BY <1>1, <2>3 DEF Fence, MayLaunch
    <3>2. receipt' \in Receipts /\ receipt'.status = "running" /\ receipt'.boot = receipt.boot
      BY <2>1, <3>1 DEF Receipts
    <3>3. receipt' # NoReceipt
      BY <3>2 DEF NoReceipt
    <3>4. Bound' /\ Counted' /\ Settled'
      BY <2>1, <3>1, <3>2, <3>3 DEF Bound, Counted, Settled, Terminal
    <3>5. Locked'
      BY <2>1, <2>2, <3>1 DEF Locked
    <3>6. Decided' /\ Truth'
      BY <1>0, <2>1, <3>1, <3>2 DEF Decided, Truth, Successful, Exited, journal, Terminal
    <3> QED BY <1>0, <2>1, <3>1, <3>2, <3>3, <3>4, <3>5, <3>6 DEF journal, Journalled, AcceptedFirst
  <2>4. CASE ~MayLaunch
    <3>1. unit' = "gone" /\ receipt' = receipt
      BY <1>1, <2>4 DEF Fence
    <3> QED BY <1>0, <2>1, <2>2, <3>1
            DEF journal, Bound, Counted, Settled, Locked, Decided, Truth, Successful, Exited,
                Journalled, AcceptedFirst
  <2> QED BY <2>3, <2>4
<1>2. CASE Run \/ CommandEnds \/ ScopeEmpties
  <2>1. /\ unit \notin {"none", "starting"} /\ UNCHANGED <<journal, host, guest, lock, call>>
        /\ unit' \in {"command", "ended", "gone"}
        /\ unit' # "gone" => unit \in {"fenced", "command"}
        /\ Exited => Exited'
    BY <1>2 DEF Run, CommandEnds, ScopeEmpties, Exited, Counted
  <2>2. runs' \in Nat /\ exit' \in {"none", "ok", "bad"} /\ Counted'
    BY <1>2 DEF Run, CommandEnds, ScopeEmpties, Counted
  <2>3. Bound' /\ Settled' /\ Locked'
    BY <2>1 DEF Bound, Settled, Locked, guest
  <2>4. Decided' /\ Truth'
    BY <2>1 DEF Decided, Truth, Successful, journal, guest
  <2> QED BY <1>0, <2>1, <2>2, <2>3, <2>4 DEF journal, guest, Journalled, AcceptedFirst
<1>3. CASE Finish
  <2>1. /\ unit = "ended" /\ lock = 0 /\ unit' = "stopping" /\ receipt # NoReceipt /\ receipt \in Receipts
        /\ boot = 1 /\ exit \in {"ok", "bad"} /\ runs = 1
        /\ receipt' = (IF receipt.status = "running"
                       THEN [receipt EXCEPT !.status = "finishing", !.result = exit] ELSE receipt)
        /\ UNCHANGED <<journal, host, boot, backup, aged, runs, exit, lock, call>>
    BY <1>3 DEF Finish, Bound, Counted
  <2>2. receipt' \in Receipts /\ receipt'.boot = receipt.boot
        /\ receipt'.status = (IF receipt.status = "running" THEN "finishing" ELSE receipt.status)
        /\ receipt'.result = (IF receipt.status = "running" THEN exit ELSE receipt.result)
    BY <2>1 DEF Receipts
  <2>3. receipt.status # "none" /\ receipt.status \notin Terminal \cup {"queued"}
    BY <2>1 DEF Bound, Settled
  <2>4. receipt' # NoReceipt
    BY <2>2, <2>3 DEF NoReceipt
  <2>5. Bound' /\ Counted' /\ Settled'
    BY <2>1, <2>2, <2>3, <2>4 DEF Bound, Counted, Settled, Terminal
  <2>6. Locked'
    BY <2>1, <2>2, CallsAssumption DEF Locked
  <2>7. Decided' /\ Truth'
    BY <1>0, <2>1, <2>2, <2>3 DEF Decided, Truth, Successful, Exited, journal
  <2> QED BY <1>0, <2>1, <2>2, <2>5, <2>6, <2>7 DEF journal, Journalled, AcceptedFirst
<1>4. CASE WorkerDies
  BY <1>0, <1>4, KillFacts DEF WorkerDies
<1> QED BY <1>1, <1>2, <1>3, <1>4 DEF Unit

\* Time, snapshots and reboots.
LEMMA GuestIInv ==
  ASSUME IInv, Age \/ Snapshot \/ Reboot
  PROVE  IInv'
<1> USE DEF IInv, TypeOK
<1>1. CASE Age
  BY <1>1 DEF Age, journal, command, Bound, Counted, Settled, Locked, Decided, Truth, Successful, Exited,
              Journalled, AcceptedFirst
<1>2. CASE Snapshot
  <2>1. backup' = receipt /\ UNCHANGED <<journal, host, boot, receipt, aged, command, lock, call>>
    BY <1>2 DEF Snapshot
  <2>2. Bound' /\ Counted' /\ Settled' /\ Locked'
    BY <2>1 DEF Bound, Counted, Settled, Locked, command
  <2>3. Decided' /\ Truth'
    BY <2>1 DEF Decided, Truth, Successful, Exited, journal, command
  <2> QED BY <2>1, <2>2, <2>3 DEF journal, command, Journalled, AcceptedFirst
<1>3. CASE Reboot
  <2>1. /\ receipt' \in {receipt, backup} /\ lock' = 0
        /\ unit' = (IF unit = "none" THEN "none" ELSE "gone")
        /\ exit' = (IF unit = "command" THEN "bad" ELSE exit)
        /\ UNCHANGED <<journal, host, backup, aged, runs>>
    BY <1>3 DEF Reboot
  <2>11. boot' \in 1 .. MaxBoot /\ boot' # 1
    <3> HIDE DEF IInv, TypeOK
    <3>1. boot < MaxBoot /\ boot' = boot + 1 BY <1>3 DEF Reboot
    <3>2. boot \in 1 .. MaxBoot BY DEF IInv, TypeOK
    <3> QED BY <3>1, <3>2, MaxBootAssumption
  <2>2. \A c \in Calls : call'[c] = IF host.call # c THEN Free
                        ELSE IF call[c].at \in {"sent", "answered"} THEN call[c]
                        ELSE [call[c] EXCEPT !.at = "answered", !.reply = "none"]
    BY <1>3 DEF Reboot
  <2>3. /\ Free \in GuestCalls /\ Free.reply = "none" /\ Free.at = "free"
        /\ \A c \in Calls : [call[c] EXCEPT !.at = "answered", !.reply = "none"] \in GuestCalls
    BY DEF Free, GuestCalls, Modes, Verdicts
  <2>4. \A c \in Calls :
          /\ call'[c] \in GuestCalls /\ call'[c].at \notin {"saved", "marked"}
          /\ call'[c].reply = call[c].reply \/ call'[c].reply = "none"
          /\ call'[c] # Free => record = "accepted"
    <3> TAKE c \in Calls
    <3>1. CASE host.call # c BY <2>2, <2>3, <3>1
    <3>2. CASE host.call = c /\ call[c].at \in {"sent", "answered"}
      BY <2>2, <3>2, CallsAssumption DEF Journalled
    <3>3. CASE host.call = c /\ call[c].at \notin {"sent", "answered"}
      <4>1. call'[c] = [call[c] EXCEPT !.at = "answered", !.reply = "none"]
        BY <2>2, <3>3
      <4>2. call'[c].at = "answered" /\ call'[c].reply = "none"
        BY <4>1 DEF GuestCalls
      <4> QED BY <2>3, <3>3, <4>1, <4>2, CallsAssumption DEF Journalled
    <3> QED BY <3>1, <3>2, <3>3
  <2>5. call' \in [Calls -> GuestCalls]
    <3>1. call' = [c \in Calls |-> call'[c]]
      BY <1>3 DEF Reboot
    <3> QED BY <2>4, <3>1
  <2>6. Exited => Exited'
    BY <2>1 DEF Exited, Counted
  <2>7. Bound' /\ Counted' /\ Settled'
    BY <2>1, <2>11 DEF Bound, Counted, Settled
  <2>8. Locked'
    BY <2>1, <2>4, <2>11, CallsAssumption DEF Locked
  <2>9. Decided' /\ Truth'
    BY <2>1, <2>4, <2>6, <2>11 DEF Decided, Truth, Successful, journal
  <2>10. Journalled' /\ AcceptedFirst'
    BY <2>1, <2>4 DEF Journalled, AcceptedFirst, journal
  <2> QED BY <2>1, <2>5, <2>7, <2>8, <2>9, <2>10, <2>11 DEF journal
<1> QED BY <1>1, <1>2, <1>3
-----------------------------------------------------------------------------
(* The theorems.                                                            *)

\* The invariant holds in every reachable state.
THEOREM Inductive == Spec => []IInv
<1>1. IInv /\ [Next]_vars => IInv'
  <2> SUFFICES ASSUME IInv, [Next]_vars PROVE IInv' OBVIOUS
  <2>1. CASE (\E mode \in Modes : Request(mode)) \/ Handle \/ GiveUp \/ HostCrashes \/ Superseded
    BY <2>1, HostIInv
  <2>2. CASE \E c \in Calls : Serve(c) \/ LaunchFails(c) \/ CallDies(c)
    BY <2>2, StatusIInv, SubmitIInv, CancelIInv, EndIInv DEF Serve
  <2>3. CASE Unit \/ WorkerDies BY <2>3, UnitIInv
  <2>4. CASE Age \/ Snapshot \/ Reboot BY <2>4, GuestIInv
  <2>5. CASE UNCHANGED vars
    BY <2>5 DEF vars, journal, guest, command, IInv, TypeOK, Bound, Counted, Locked, Settled, Decided,
                Truth, Successful, Exited, Journalled, AcceptedFirst
  <2> QED BY <2>1, <2>2, <2>3, <2>4, <2>5 DEF Next
<1> QED BY <1>1, InitIInv, PTL DEF Spec

\* Every variable keeps its type.
THEOREM TypeCorrect == Spec => []TypeOK
BY Inductive, PTL DEF IInv

\* Where there is a verdict, no process of the command is left.
LEMMA TerminalProof == IInv => TerminalIsProof
BY DEF IInv, TypeOK, TerminalIsProof, Bound, Settled, Decided, Journalled, AcceptedFirst, NoReceipt, Terminal

LEMMA TerminalProofNext == IInv' => TerminalIsProof'
BY TerminalProof, PTL

\* A terminal receipt is proof that nothing of the command is left.
THEOREM TerminalProven == Spec => []TerminalIsProof
BY Inductive, TerminalProof, PTL

\* Nothing reaches the guest that is not in the host's journal.
THEOREM AcceptedBeforeSent == Spec => []AcceptedFirst
BY Inductive, PTL DEF IInv

\* The command starts at most once, a verdict is final, and it is true: the
\* protocol implements ExecOnce.
THEOREM ExecIsOnce == Spec => ImplementsExecOnce
<1>1. Init => Once!Init
  BY DEF Init, Once!Init, life
<1>2. IInv /\ IInv' /\ [Next]_vars => [Once!Next]_<<life, IF life = "over" THEN exit ELSE "none", verdict>>
  <2> SUFFICES ASSUME IInv, IInv', Next
      PROVE  Once!Next \/ UNCHANGED <<life, IF life = "over" THEN exit ELSE "none", verdict>>
    BY DEF vars, journal, command, life
  <2>1. Counted /\ Counted' /\ unit \in {"none", "starting", "fenced", "command", "ended", "stopping", "gone"}
        /\ exit \in {"none", "ok", "bad"} /\ exit' \in {"none", "ok", "bad"}
    BY DEF IInv, TypeOK
  <2>2. verdict # "none" => unit \in {"none", "starting", "gone"}
    BY TerminalProof DEF TerminalIsProof
  <2>3. CASE (\E mode \in Modes : Request(mode)) \/ TargetKnown \/ TargetUnknown \/ Accept \/ Outdated
             \/ GiveUp \/ HostCrashes \/ Superseded \/ Age \/ Snapshot
    BY <2>3 DEF Request, TargetKnown, TargetUnknown, Accept, Outdated, GiveUp, HostCrashes, Superseded,
                Age, Snapshot, journal, command, life
  <2>4. CASE Refuse
    <3>1. UNCHANGED <<unit, runs, exit>> /\ verdict' = "failed"
      BY <2>4 DEF Refuse, command
    <3>2. record = "none"
      BY <2>4 DEF Refuse, IInv, Journalled
    <3>3. verdict = "none" /\ unit = "none"
      BY <3>2 DEF IInv, Journalled, AcceptedFirst
    <3>4. life = "new" /\ life' = "new"
      BY <2>1, <3>1, <3>3 DEF Counted, life
    <3> QED BY <3>1, <3>3, <3>4 DEF Once!Next, Once!Decide
  <2>5. CASE Answered
    <3>1. UNCHANGED <<unit, runs, exit>>
      BY <2>5 DEF Answered, command
    <3>2. verdict # "none" => verdict' = verdict
      BY <2>5 DEF Answered
    <3>3. verdict' # "none" => unit \in {"none", "starting", "gone"}
      BY <3>1, TerminalProofNext DEF TerminalIsProof
    <3>4. verdict' = "completed" => exit = "ok" /\ runs = 1
      BY <3>1 DEF IInv, Truth, Exited
    <3>5. verdict' \in {"none", "completed", "failed"}
      BY DEF IInv, TypeOK, Verdicts, Terminal
    <3>6. verdict' # "none" => life # "alive" /\ (runs = 1 => life = "over")
      BY <2>1, <3>3 DEF Counted, life
    <3>7. life' = life /\ exit' = exit
      BY <3>1 DEF life
    <3> QED BY <3>2, <3>4, <3>5, <3>6, <3>7 DEF Once!Next, Once!Decide
  <2>6. CASE \E c \in Calls : Serve(c) \/ LaunchFails(c) \/ CallDies(c)
    <3>1. PICK c \in Calls : Serve(c) \/ LaunchFails(c) \/ CallDies(c)
      BY <2>6
    <3>2. UNCHANGED <<verdict, runs>>
      BY <3>1 DEF Serve, LaunchFails, CallDies, Status, Submit, SubmitRefused, Launch, Mark, Decide, Stop,
                  Unread, journal, command
    <3>3. \/ UNCHANGED <<unit, exit>>
          \/ unit' = "starting" /\ exit' = exit
          \/ unit' = Killed(unit) /\ exit' = IF unit = "command" THEN "bad" ELSE exit
      BY <3>1 DEF Serve, LaunchFails, CallDies, Status, Submit, SubmitRefused, Launch, Mark, Decide, Stop,
                  Unread, command, KillUnit
    <3>4. UNCHANGED <<life, IF life = "over" THEN exit ELSE "none">>
      BY <2>1, <3>2, <3>3 DEF Counted, Killed, life
    <3> QED BY <3>2, <3>4
  <2>7. CASE Fence \/ CommandEnds \/ Finish \/ WorkerDies
    <3>1. UNCHANGED <<verdict, runs>>
      BY <2>7 DEF Fence, CommandEnds, Finish, WorkerDies, journal
    <3>2. UNCHANGED <<life, IF life = "over" THEN exit ELSE "none">>
      BY <2>1, <2>7 DEF Fence, CommandEnds, Finish, WorkerDies, KillUnit, Killed, Counted, life
    <3> QED BY <3>1, <3>2
  <2>8. CASE Run
    BY <2>1, <2>2, <2>8 DEF Run, Counted, life, journal, Once!Next, Once!Start
  <2>9. CASE ScopeEmpties
    BY <2>1, <2>9 DEF ScopeEmpties, Counted, life, journal, Once!Next, Once!End
  <2>10. CASE Reboot
    <3>1. /\ unit' = (IF unit = "none" THEN "none" ELSE "gone") /\ runs' = runs /\ verdict' = verdict
          /\ exit' = (IF unit = "command" THEN "bad" ELSE exit)
      BY <2>10 DEF Reboot, journal
    <3> QED BY <2>1, <3>1 DEF Counted, life, Once!Next, Once!End
  <2> QED BY <2>3, <2>4, <2>5, <2>6, <2>7, <2>8, <2>9, <2>10 DEF Next, Handle, Unit
<1> QED BY <1>1, <1>2, Inductive, PTL DEF Spec, ImplementsExecOnce, Once!Spec
=============================================================================
