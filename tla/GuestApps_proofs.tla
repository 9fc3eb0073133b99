-------------------------- MODULE GuestApps_proofs --------------------------
(***************************************************************************)
(* Proofs about GuestApps for any operations and any number of calls that  *)
(* run at once.  What two calls that overlap can break is proved as long   *)
(* as they do not overlap in one thing: two calls that accept the same     *)
(* operation both find it new (NoTwins), and two that handle the portable  *)
(* program both write back the policy they have read (OneSoftware).        *)
(***************************************************************************)
EXTENDS GuestApps, TLAPS

-----------------------------------------------------------------------------
(* What holds of any calls.                                                 *)

\* A call that accepts knows its operation, and one that activates a version
\* that is staged; only setups are registered as apps.
Kinds ==
  /\ \A c \in Calls : /\ call[c].at \in {"accept", "launch"} => call[c].op \in Ops
                      /\ call[c].at \in {"pend", "switch"} =>
                           call[c].op \in Versions /\ staged[call[c].op] = "whole"
  /\ \A w \in Workers : worker[w].at \in {"completed", "register"} => w[1] \in Setups

\* What is linked is whole.
LinkIsStaged == link # None => staged[link] = "whole"

Core == TypeOK /\ Kinds /\ LinkIsStaged
-----------------------------------------------------------------------------
(* Setting up, as long as no two calls accept the same operation.           *)

Accepting(c) == call[c].at \in {"accept", "launch"}

\* The host gave up on a call that accepts an operation, and tries it again.
NoTwins == \A c, d \in Calls : Accepting(c) /\ Accepting(d) /\ call[c].op = call[d].op => c = d

\* A new operation was never worked on, nor was one whose call is not done.
Fresh(o) == setups[o] = 0 /\ \A c \in Calls : worker[<<o, c>>].at = "gone"

NewIsFresh ==
  /\ \A o \in Ops : job[o] = "none" => Fresh(o)
  /\ \A c \in Calls : Accepting(c) =>
       Fresh(call[c].op) /\ (call[c].at = "accept" <=> job[call[c].op] = "none")

\* An operation has one worker, which sets it up after it has got the lease.
WorkerOnce ==
  /\ \A o \in Ops : \A c, d \in Calls :
       worker[<<o, c>>].at # "gone" /\ worker[<<o, d>>].at # "gone" => c = d
  /\ \A w \in Workers : worker[w].at \in {"starting", "waiting", "leased"} => setups[w[1]] = 0

OnceOK == NewIsFresh /\ WorkerOnce /\ SetupOnce
-----------------------------------------------------------------------------
(* The policy, as long as one call at a time handles it.                    *)

Handling(c) == call[c].at \in {"pend", "switch", "read", "register", "save"}

OneSoftware == \A c, d \in Calls : Handling(c) /\ Handling(d) => c = d

\* The policy is right once it is reconciled, the one a call will save too.
Right(p) == Reconciled(p).current = link

\* The policy would be right if the link named v.
Names(p, v) == p.next = v \/ (p.next = None /\ p.current = v)

CallRight == \A c \in Calls :
  /\ call[c].at \in {"read", "register", "save"} => Right(call[c].policy)
  /\ call[c].at \in {"pend", "switch"} => call[c].policy.current = link
  /\ call[c].at = "switch" => Names(policy, call[c].op)

KnownOK == CallRight /\ Right(policy)
-----------------------------------------------------------------------------
(* The lease, and apps.json as long as no worker and no call write back at    *)
(* once what they have read of it.                                          *)

Holding(w) == worker[w].at \in {"leased", "setup", "copied", "done", "completed", "register"}

\* The worker that has the lease is at its work, or about to leave.
LeaseOK == \A w \in Workers : /\ Holding(w) => lease = w
                              /\ lease = w => Holding(w) \/ worker[w].at = "failing"

\* No call launches a worker in the place of one that is there.
Slots ==
  /\ \A o \in Ops : job[o] = "none" => \A c \in Calls : worker[<<o, c>>].at = "gone"
  /\ \A c \in Calls : Accepting(c) =>
       /\ worker[<<call[c].op, c>>].at = "gone"
       /\ call[c].at = "launch" => job[call[c].op] # "none"

\* An installer goes on without its worker once that has died or given it up.
LeftBehind(w) == worker[w].at \in {"failing", "gone"}

\* An installer that runs was started for a job that is known, by the worker
\* which waits for it or has left it behind.
RunningOK ==
  /\ \A w \in running : job[w[1]] # "none" /\ (worker[w].at = "setup" \/ LeftBehind(w))
  /\ \A c \in Calls : Accepting(c) => <<call[c].op, c>> \notin running

TurnsOK == LeaseOK /\ Slots

\* No setup is registered while an activation is.
Unmixed == \A w \in Workers : \A c \in Calls : ~(worker[w].at = "register" /\ call[c].at = "register")

\* What was read of apps.json is what is in it, but for the portable program,
\* which every activation adds.
RegistryOK ==
  /\ \A w \in Workers : worker[w].at = "register" => worker[w].seen = apps
  /\ \A c \in Calls : call[c].at = "register" => apps \cup {Portable} = call[c].seen \cup {Portable}

\* A computer whose calls run one after another has none of this.
LEMMA OneCallIsAlone == ASSUME \A c, d \in Calls : c = d PROVE NoTwins /\ OneSoftware
BY DEF NoTwins, OneSoftware

-----------------------------------------------------------------------------
(* Data.                                                                    *)

LEMMA EmptyTypes == Gone \in WorkerStates /\ Unmanaged \in Policies /\ Idle \in CallStates
<1>1. Gone \in WorkerStates BY DEF Gone, WorkerStates, Registries
<1>2. Unmanaged \in Policies BY DEF Unmanaged, Policies, Version
<1> QED BY <1>1, <1>2 DEF Idle, CallStates, Registries

\* A reconciled policy is right if the policy was, and stays so.
LEMMA ReconciledRight ==
  ASSUME NEW p \in Policies, link \in Version
  PROVE  /\ Reconciled(p) \in Policies
         /\ Right(p) => Reconciled(p).current = link /\ Right(Reconciled(p))
         /\ \A v \in Version : [Reconciled(p) EXCEPT !.pin = v] \in Policies
                             /\ (Right(p) => Right([Reconciled(p) EXCEPT !.pin = v]))
<1>1. CASE p.next # None /\ p.next = link
  <2>1. Reconciled(p) = [p EXCEPT !.current = p.next, !.previous = p.last, !.next = None, !.last = None]
    BY <1>1 DEF Reconciled
  <2>2. Reconciled(p) = [current |-> p.next, previous |-> p.last, pin |-> p.pin, next |-> None, last |-> None]
    BY <2>1 DEF Policies
  <2>3. Reconciled(p) \in Policies
    BY <2>2 DEF Policies, Version
  <2>4. Reconciled(p).current = link /\ Reconciled(p).next = None
    BY <1>1, <2>2
  <2>5. ASSUME NEW v \in Version
        PROVE  /\ [Reconciled(p) EXCEPT !.pin = v] \in Policies
               /\ [Reconciled(p) EXCEPT !.pin = v].current = link
               /\ [Reconciled(p) EXCEPT !.pin = v].next = None
    BY <2>3, <2>4 DEF Policies
  <2> QED BY <2>3, <2>4, <2>5 DEF Right, Reconciled
<1>2. CASE ~(p.next # None /\ p.next = link)
  <2>1. Reconciled(p) = p
    BY <1>2 DEF Reconciled
  <2>2. ASSUME NEW v \in Version
        PROVE  /\ [p EXCEPT !.pin = v] \in Policies
               /\ [p EXCEPT !.pin = v].current = p.current /\ [p EXCEPT !.pin = v].next = p.next
    BY DEF Policies
  <2> QED BY <1>2, <2>1, <2>2 DEF Right, Reconciled
<1> QED BY <1>1, <1>2

\* The intent of an activation is right before and after the link is switched.
LEMMA PendedRight ==
  ASSUME NEW p \in Policies, NEW v \in Versions, link \in Version
  PROVE  /\ Pended(p, v) \in Policies /\ Pended(p, v).next = v /\ Pended(p, v).current = p.current
         /\ p.current = link => Right(Pended(p, v))
<1>1. Pended(p, v) = [current |-> p.current, previous |-> p.previous, pin |-> p.pin,
                      next |-> v, last |-> p.current]
  <2>1. [p EXCEPT !.next = v] = [current |-> p.current, previous |-> p.previous, pin |-> p.pin,
                                 next |-> v, last |-> p.last]
    BY DEF Policies
  <2>2. Pended(p, v) = [[p EXCEPT !.next = v] EXCEPT !.last = p.current]
    BY DEF Pended
  <2>3. Pended(p, v) = [[current |-> p.current, previous |-> p.previous, pin |-> p.pin,
                         next |-> v, last |-> p.last] EXCEPT !.last = p.current]
    BY <2>1, <2>2
  <2> QED BY <2>3
<1>2. Pended(p, v) \in Policies
  BY <1>1 DEF Policies, Version
<1>3. CASE v = link /\ v # None
  <2>1. Reconciled(Pended(p, v)) = [Pended(p, v) EXCEPT !.current = v, !.previous = p.current,
                                                     !.next = None, !.last = None]
    BY <1>1, <1>3 DEF Reconciled
  <2>2. Reconciled(Pended(p, v)).current = v
    BY <1>2, <2>1 DEF Policies
  <2> QED BY <1>1, <1>2, <1>3, <2>2 DEF Right
<1>4. CASE ~(v = link /\ v # None)
  BY <1>1, <1>2, <1>4 DEF Reconciled, Right
<1> QED BY <1>3, <1>4

\* What a call saves when the link was switched.
LEMMA SwitchedPolicy ==
  ASSUME NEW p \in Policies, NEW v \in Versions
  PROVE  LET q == [p EXCEPT !.previous = p.current, !.current = v, !.next = None, !.last = None]
         IN q \in Policies /\ q.current = v /\ q.next = None
<1> DEFINE q == [p EXCEPT !.previous = p.current, !.current = v, !.next = None, !.last = None]
<1>1. q = [current |-> v, previous |-> p.current, pin |-> p.pin, next |-> None, last |-> None]
  <2> DEFINE q1 == [p EXCEPT !.previous = p.current]
             q2 == [q1 EXCEPT !.current = v]
             q3 == [q2 EXCEPT !.next = None]
  <2> HIDE DEF q1, q2, q3
  <2>1. q1 = [current |-> p.current, previous |-> p.current, pin |-> p.pin, next |-> p.next, last |-> p.last]
    BY DEF q1, Policies
  <2>2. q2 = [current |-> v, previous |-> p.current, pin |-> p.pin, next |-> p.next, last |-> p.last]
    BY <2>1 DEF q2
  <2>3. q3 = [current |-> v, previous |-> p.current, pin |-> p.pin, next |-> None, last |-> p.last]
    BY <2>2 DEF q3
  <2>4. [q3 EXCEPT !.last = None]
          = [current |-> v, previous |-> p.current, pin |-> p.pin, next |-> None, last |-> None]
    BY <2>3
  <2>5. q = [q3 EXCEPT !.last = None]
    BY DEF q1, q2, q3
  <2> QED BY <2>4, <2>5
<1>2. q \in Policies /\ q.current = v /\ q.next = None
  BY <1>1 DEF Policies, Version
<1> QED BY <1>2

\* Reconciling keeps the version an activation is about to link.
LEMMA ReconciledNames ==
  ASSUME NEW p \in Policies, NEW v \in Versions, Names(p, v)
  PROVE  Names(Reconciled(p), v)
<1>1. CASE p.next # None /\ p.next = link
  <2>1. Reconciled(p) = [p EXCEPT !.current = p.next, !.previous = p.last, !.next = None, !.last = None]
    BY <1>1 DEF Reconciled
  <2>2. Reconciled(p) = [current |-> p.next, previous |-> p.last, pin |-> p.pin, next |-> None, last |-> None]
    BY <2>1 DEF Policies
  <2> QED BY <1>1, <2>2 DEF Names
<1>2. CASE ~(p.next # None /\ p.next = link)
  BY <1>2 DEF Reconciled, Names
<1> QED BY <1>1, <1>2

\* A policy that names a version is right once the link does.
LEMMA SwitchedRight ==
  ASSUME policy \in Policies, NEW v \in Versions, Names(policy, v), link' = v, policy' = policy
  PROVE  Right(policy)'
<1>1. CASE policy.next = v /\ v # None
  <2>1. Reconciled(policy)' = [policy EXCEPT !.current = policy.next, !.previous = policy.last,
                                           !.next = None, !.last = None]
    BY <1>1 DEF Reconciled
  <2>2. Reconciled(policy)'.current = policy.next
    BY <2>1 DEF Policies
  <2> QED BY <1>1, <2>2 DEF Right
<1>2. CASE policy.next = None /\ policy.current = v
  BY <1>2 DEF Reconciled, Right
<1> QED BY <1>1, <1>2, NamesAssumption DEF Names, Ops

-----------------------------------------------------------------------------
(* Workers.                                                                 *)

\* A worker that goes to another place, or ends.
LEMMA WorkerFacts ==
  ASSUME worker \in [Workers -> WorkerStates], lease \in Workers \cup {NoWorker}, NEW w \in Workers
  PROVE  /\ \A p \in {"waiting", "leased", "setup", "copied", "done", "failing", "completed"} :
              Goto(w, p) => /\ worker' \in [Workers -> WorkerStates]
                            /\ worker'[w].at = p /\ \A x \in Workers \ {w} : worker'[x] = worker[x]
         /\ Leaves(w) => /\ worker' \in [Workers -> WorkerStates] /\ lease' \in Workers \cup {NoWorker}
                         /\ worker'[w].at = "gone" /\ \A x \in Workers \ {w} : worker'[x] = worker[x]
<1>1. ASSUME NEW p \in {"waiting", "leased", "setup", "copied", "done", "failing", "completed"}, Goto(w, p)
      PROVE  /\ worker' \in [Workers -> WorkerStates]
             /\ worker'[w].at = p /\ \A x \in Workers \ {w} : worker'[x] = worker[x]
  <2>1. worker' = [worker EXCEPT ![w] = [worker[w] EXCEPT !.at = p]]
    BY <1>1 DEF Goto
  <2>2. [worker[w] EXCEPT !.at = p] \in WorkerStates /\ [worker[w] EXCEPT !.at = p].at = p
    BY DEF WorkerStates
  <2> QED BY <2>1, <2>2
<1>2. ASSUME Leaves(w)
      PROVE  /\ worker' \in [Workers -> WorkerStates] /\ lease' \in Workers \cup {NoWorker}
             /\ worker'[w].at = "gone" /\ \A x \in Workers \ {w} : worker'[x] = worker[x]
  BY <1>2, EmptyTypes DEF Leaves, Gone
<1> QED BY <1>1, <1>2

\* What a step of a worker that is there does: it starts a setup only with
\* the lease, and only makes releases whole.
WorkerMove(w) ==
  /\ worker[w].at # "gone" /\ TypeOK'
  /\ UNCHANGED <<policy, link, call>>
  /\ \A x \in Workers \ {w} : worker'[x] = worker[x]
  /\ \A o \in Ops \ {w[1]} : job'[o] = job[o] /\ setups'[o] = setups[o]
  /\ job'[w[1]] # "none" \/ job'[w[1]] = job[w[1]]
  /\ \/ setups'[w[1]] = setups[w[1]]
     \/ worker[w].at = "leased" /\ setups'[w[1]] = setups[w[1]] + 1
  /\ worker'[w].at \in {"starting", "waiting", "leased"} =>
       worker[w].at \in {"starting", "waiting", "leased"} /\ setups'[w[1]] = setups[w[1]]
  /\ worker'[w].at \in {"completed", "register"} => w[1] \in Setups
  /\ \A v \in Versions : staged[v] = "whole" => staged'[v] = "whole"

LEMMA WorkMoves ==
  ASSUME Core, NEW w \in Workers,
         Work(w) \/ GivesUp(w) \/ RegisterFails(w) \/ WorkerDies(w)
  PROVE  WorkerMove(w)
<1> USE WorkerFacts DEF Core, TypeOK, jobs, software, At, Progress, WorkerMove
<1>1. w[1] \in Ops /\ setups[w[1]] \in Nat
  BY DEF Workers
<1>2. worker[w].at \in {"completed", "register"} => w[1] \in Setups
  BY DEF Kinds
<1>3. CASE WorkerStarts(w) BY <1>1, <1>3 DEF WorkerStarts
<1>4. CASE Acquire(w)      BY <1>1, <1>4 DEF Acquire
<1>5. CASE GivesUp(w)      BY <1>1, <1>5 DEF GivesUp
<1>6. CASE Setup(w)
  <2>1. /\ worker[w].at = "leased" /\ setups' = [setups EXCEPT ![w[1]] = @ + 1]
        /\ Goto(w, "setup") /\ running' = running \cup {w}
        /\ UNCHANGED <<job, lease, staged, apps, policy, link, call>>
    BY <1>6 DEF Setup
  <2>2. setups' \in [Ops -> Nat] /\ setups'[w[1]] = setups[w[1]] + 1
        /\ \A o \in Ops \ {w[1]} : setups'[o] = setups[o]
    BY <1>1, <2>1
  <2>3. /\ worker' \in [Workers -> WorkerStates] /\ worker'[w].at = "setup"
        /\ \A x \in Workers \ {w} : worker'[x] = worker[x]
    BY <2>1
  <2> QED BY <2>1, <2>2, <2>3
<1>7. CASE Stage(w)
  <2>1. CASE staged[w[1]] # "none"
    BY <1>1, <1>7, <2>1 DEF Stage
  <2>2. CASE staged[w[1]] = "none"
    <3>1. /\ worker[w].at = "leased" /\ w[1] \in Versions
          /\ staged' = [staged EXCEPT ![w[1]] = "partial"]
          /\ setups' = [setups EXCEPT ![w[1]] = @ + 1] /\ Goto(w, "copied")
          /\ UNCHANGED <<job, lease, running, apps, policy, link, call>>
      BY <1>7, <2>2 DEF Stage
    <3>2. setups' \in [Ops -> Nat] /\ setups'[w[1]] = setups[w[1]] + 1
          /\ \A o \in Ops \ {w[1]} : setups'[o] = setups[o]
      BY <1>1, <3>1
    <3>3. /\ staged' \in [Versions -> {"none", "partial", "whole"}]
          /\ \A v \in Versions : staged[v] = "whole" => staged'[v] = "whole"
      BY <2>2, <3>1
    <3>4. /\ worker' \in [Workers -> WorkerStates] /\ worker'[w].at = "copied"
          /\ \A x \in Workers \ {w} : worker'[x] = worker[x]
      BY <3>1
    <3> QED BY <3>1, <3>2, <3>3, <3>4
  <2> QED BY <2>1, <2>2
<1>8. CASE Release(w)
  <2>1. /\ staged' \in [Versions -> {"none", "partial", "whole"}]
        /\ \A v \in Versions : staged[v] = "whole" => staged'[v] = "whole"
    BY <1>8 DEF Release
  <2> QED BY <1>1, <1>8, <2>1 DEF Release
<1>9. CASE Complete(w)
  <2>1. /\ worker[w].at = "done" /\ Progress(w, "completed")
        /\ UNCHANGED <<staged, setups, running, apps, policy, link, call>>
        /\ Leaves(w) \/ (w[1] \in Setups /\ Goto(w, "completed") /\ UNCHANGED lease)
    BY <1>1, <1>9 DEF Complete, Ops
  <2> QED BY <1>1, <2>1
<1>10. CASE ReadApps(w)
  <2>1. [at |-> "register", seen |-> apps] \in WorkerStates
    BY DEF WorkerStates
  <2> QED BY <1>1, <1>2, <1>10, <2>1 DEF ReadApps
<1>11. CASE Register(w)
  <2>1. apps' \in Registries
    BY <1>2, <1>11 DEF Register, WorkerStates, Registries
  <2> QED BY <1>1, <1>11, <2>1 DEF Register
<1>12. CASE RegisterFails(w) BY <1>1, <1>12 DEF RegisterFails
<1>13. CASE Fails(w)         BY <1>1, <1>13 DEF Fails
<1>14. CASE WorkerDies(w)    BY <1>1, <1>14 DEF WorkerDies
<1>15. CASE SetupEnds(w)
  <2>1. /\ worker[w].at = "setup" /\ (Goto(w, "done") \/ Goto(w, "failing")) /\ running' \subseteq running
        /\ UNCHANGED <<job, lease, staged, setups, apps, policy, link, call>>
    BY <1>15 DEF SetupEnds
  <2>2. /\ worker' \in [Workers -> WorkerStates] /\ worker'[w].at \in {"done", "failing"}
        /\ \A x \in Workers \ {w} : worker'[x] = worker[x]
    BY <2>1
  <2> QED BY <1>1, <2>1, <2>2
<1> QED BY <1>15, <1>3, <1>4, <1>5, <1>6, <1>7, <1>8, <1>9, <1>10, <1>11, <1>12, <1>13, <1>14 DEF Work

LEMMA WorkerCore == ASSUME Core, NEW w \in Workers, WorkerMove(w) PROVE Core'
<1>1. Kinds'
  BY DEF Core, WorkerMove, Kinds
<1>2. LinkIsStaged'
  BY DEF Core, TypeOK, WorkerMove, LinkIsStaged, Version
<1> QED BY <1>1, <1>2 DEF Core, WorkerMove

LEMMA WorkerOnceOK ==
  ASSUME Core, OnceOK, NEW w \in Workers, WorkerMove(w)
  PROVE  OnceOK'
<1> USE DEF Core, TypeOK, WorkerMove
<1>1. w[1] \in Ops /\ w = <<w[1], w[2]>> /\ w[2] \in Calls /\ setups[w[1]] \in Nat
  BY DEF Workers
<1>2. ~Fresh(w[1])
  BY <1>1 DEF Fresh
<1>3. \A o \in Ops : Fresh(o) => Fresh(o)'
  BY <1>1, <1>2 DEF Fresh, Workers
<1>4. NewIsFresh'
  BY <1>1, <1>2, <1>3 DEF OnceOK, NewIsFresh, Accepting, Kinds
<1>5. \A x \in Workers : worker'[x].at # "gone" => worker[x].at # "gone"
  OBVIOUS
<1>6. \A x \in Workers \ {w} : x[1] = w[1] => worker[x].at = "gone"
  BY <1>1 DEF OnceOK, WorkerOnce, Workers
<1>7. WorkerOnce'
  <2>1. \A o \in Ops : \A c, d \in Calls :
          worker'[<<o, c>>].at # "gone" /\ worker'[<<o, d>>].at # "gone" => c = d
    BY <1>5 DEF OnceOK, WorkerOnce, Workers
  <2>2. ASSUME NEW x \in Workers, worker'[x].at \in {"starting", "waiting", "leased"}
        PROVE  setups'[x[1]] = 0
    <3>1. CASE x = w
      BY <2>2, <3>1 DEF OnceOK, WorkerOnce
    <3>2. CASE x # w
      <4>1. x[1] \in Ops /\ x[1] # w[1]
        BY <1>6, <2>2, <3>2 DEF Workers
      <4> QED BY <2>2, <3>2, <4>1 DEF OnceOK, WorkerOnce
    <3> QED BY <3>1, <3>2
  <2> QED BY <2>1, <2>2 DEF WorkerOnce
<1>8. SetupOnce'
  <2>1. worker[w].at = "leased" => setups[w[1]] = 0
    BY DEF OnceOK, WorkerOnce
  <2> QED BY <1>1, <2>1 DEF OnceOK, SetupOnce
<1> QED BY <1>4, <1>7, <1>8 DEF OnceOK

LEMMA WorkerKnown == ASSUME KnownOK, NEW w \in Workers, WorkerMove(w) PROVE KnownOK'
BY DEF WorkerMove, KnownOK, CallRight, Right, Reconciled, Names

-----------------------------------------------------------------------------
(* What the steps of a call do.                                             *)

\* The call is at another place, or done.
LEMMA CallFacts ==
  ASSUME call \in [Calls -> CallStates], NEW c \in Calls
  PROVE  /\ \A p \in {"launch", "switch", "save"} :
              Step(c, p) => /\ call' \in [Calls -> CallStates] /\ call'[c].at = p
                            /\ call'[c].op = call[c].op /\ call'[c].policy = call[c].policy
         /\ Return(c) => call' \in [Calls -> CallStates] /\ call'[c].at = "idle"
         /\ \A p \in {"launch", "switch", "save"} :
              Step(c, p) \/ Return(c) => \A d \in Calls : d # c => call'[d] = call[d]
<1>1. ASSUME NEW p \in {"launch", "switch", "save"}, Step(c, p)
      PROVE  /\ call' \in [Calls -> CallStates] /\ call'[c].at = p
             /\ call'[c].op = call[c].op /\ call'[c].policy = call[c].policy
             /\ \A d \in Calls : d # c => call'[d] = call[d]
  <2>1. call' = [call EXCEPT ![c] = [call[c] EXCEPT !.at = p]]
    BY <1>1 DEF Step
  <2>2. [call[c] EXCEPT !.at = p] \in CallStates
    BY DEF CallStates
  <2> QED BY <2>1, <2>2 DEF CallStates
<1>2. ASSUME Return(c)
      PROVE  /\ call' \in [Calls -> CallStates] /\ call'[c].at = "idle"
             /\ \A d \in Calls : d # c => call'[d] = call[d]
  BY <1>2, EmptyTypes DEF Return, Idle
<1> QED BY <1>1, <1>2

LEMMA AcceptedCall ==
  ASSUME NEW o \in Ops
  PROVE  LET s == [Idle EXCEPT !.at = "accept", !.op = o]
         IN s \in CallStates /\ s.at = "accept" /\ s.op = o
<1> DEFINE s == [Idle EXCEPT !.at = "accept"]
<1>1. s \in CallStates /\ s.at = "accept"
  BY EmptyTypes DEF CallStates
<1>2. [Idle EXCEPT !.at = "accept", !.op = o] = [s EXCEPT !.op = o]
  OBVIOUS
<1> HIDE DEF s
<1>3. [s EXCEPT !.op = o] \in CallStates /\ [s EXCEPT !.op = o].at = "accept" /\ [s EXCEPT !.op = o].op = o
  BY <1>1 DEF CallStates
<1> QED BY <1>2, <1>3

LEMMA AppInstallFacts ==
  ASSUME TypeOK, NEW c \in Calls, NEW o \in Ops, AppInstall(c, o)
  PROVE  /\ job[o] = "none" /\ policy' \in {policy, Reconciled(policy)} /\ policy' \in Policies
         /\ call' \in [Calls -> CallStates] /\ call'[c].at = "accept" /\ call'[c].op = o
         /\ \A d \in Calls : d # c => call'[d] = call[d]
         /\ UNCHANGED <<job, worker, lease, staged, setups, running, apps, link>>
<1>1. /\ job[o] = "none" /\ policy' \in {policy, Reconciled(policy)}
      /\ call' = [call EXCEPT ![c] = [Idle EXCEPT !.at = "accept", !.op = o]]
      /\ UNCHANGED <<job, worker, lease, staged, setups, running, apps, link>>
  BY DEF AppInstall, jobs
<1>2. /\ [Idle EXCEPT !.at = "accept", !.op = o] \in CallStates
      /\ [Idle EXCEPT !.at = "accept", !.op = o].at = "accept"
      /\ [Idle EXCEPT !.at = "accept", !.op = o].op = o
  BY AcceptedCall
<1>3. Reconciled(policy) \in Policies
  BY ReconciledRight DEF TypeOK
<1> QED BY <1>1, <1>2, <1>3 DEF TypeOK

LEMMA SaveFacts ==
  ASSUME Core, NEW c \in Calls, Save(c)
  PROVE  /\ call[c].at = "accept" /\ call[c].op \in Ops
         /\ job' \in [Ops -> {"none", "queued", "waiting", "working", "completed", "failed"}]
         /\ job'[call[c].op] = "queued"
         /\ \A o \in Ops : o # call[c].op => job'[o] = job[o]
         /\ call' \in [Calls -> CallStates] /\ call'[c].at = "launch" /\ call'[c].op = call[c].op
         /\ \A d \in Calls : d # c => call'[d] = call[d]
         /\ UNCHANGED <<worker, lease, staged, setups, running, apps, policy, link>>
BY CallFacts DEF Core, TypeOK, Kinds, Save, software

LEMMA LaunchFacts ==
  ASSUME Core, NEW c \in Calls, Launch(c)
  PROVE  /\ call[c].at = "launch" /\ call[c].op \in Ops
         /\ worker' \in [Workers -> WorkerStates] /\ worker'[<<call[c].op, c>>].at = "starting"
         /\ \A w \in Workers : w # <<call[c].op, c>> => worker'[w] = worker[w]
         /\ call' \in [Calls -> CallStates] /\ call'[c].at = "idle"
         /\ \A d \in Calls : d # c => call'[d] = call[d]
         /\ UNCHANGED <<job, lease, staged, setups, running, apps, policy, link>>
<1>1. /\ call[c].at = "launch"
      /\ worker' = [worker EXCEPT ![<<call[c].op, c>>] = [Gone EXCEPT !.at = "starting"]]
      /\ Return(c) /\ UNCHANGED <<job, lease, staged, setups, running, apps, policy, link>>
  BY DEF Launch, software
<1>2. call[c].op \in Ops /\ <<call[c].op, c>> \in Workers
  BY <1>1 DEF Core, Kinds, Workers
<1>3. [Gone EXCEPT !.at = "starting"] \in WorkerStates /\ [Gone EXCEPT !.at = "starting"].at = "starting"
  BY EmptyTypes DEF Gone, WorkerStates
<1> QED BY <1>1, <1>2, <1>3, CallFacts DEF Core, TypeOK

\* How a software call begins, and where it goes on.
LEMMA BeginFacts ==
  ASSUME TypeOK, NEW c \in Calls, NEW at \in {"save", "pend"}, NEW p \in Policies, NEW v \in Version,
         Begin(c, at, p, v)
  PROVE  /\ policy' = Reconciled(policy) /\ policy' \in Policies
         /\ call' \in [Calls -> CallStates] /\ call'[c].at = at /\ call'[c].op = v
         /\ call'[c].policy = p
         /\ \A d \in Calls : d # c => call'[d] = call[d]
         /\ UNCHANGED <<job, worker, lease, staged, setups, running, apps, link>>
<1>1. /\ policy' = Reconciled(policy)
      /\ call' = [call EXCEPT ![c] = [at |-> at, op |-> v, policy |-> p, seen |-> {}]]
      /\ UNCHANGED <<job, worker, lease, staged, setups, running, apps, link>>
  BY DEF Begin, jobs
<1>2. [at |-> at, op |-> v, policy |-> p, seen |-> {}] \in CallStates
  BY DEF CallStates, Registries, Version, Ops
<1> QED BY <1>1, <1>2, ReconciledRight DEF TypeOK

LEMMA SoftwareBegins ==
  ASSUME TypeOK, NEW c \in Calls, SoftwareState(c) \/ SoftwarePin(c) \/ SoftwareActivate(c)
  PROVE  \E at \in {"save", "pend"}, p \in Policies, v \in Version :
           /\ Begin(c, at, p, v)
           /\ at = "save" /\ Right(policy) => Right(p)
           /\ at = "pend" => v \in Versions /\ staged[v] = "whole"
           /\ at = "pend" /\ Right(policy) => p.current = link
<1>1. /\ Reconciled(policy) \in Policies
      /\ Right(policy) => Right(Reconciled(policy)) /\ Reconciled(policy).current = link
  BY ReconciledRight DEF TypeOK
<1>2. CASE SoftwareState(c)
  <2>1. None \in Version
    BY DEF Version
  <2> QED BY <1>1, <1>2, <2>1 DEF SoftwareState
<1>3. CASE SoftwarePin(c)
  <2>1. PICK v \in Version : Begin(c, "save", [Reconciled(policy) EXCEPT !.pin = v], None)
    BY <1>3 DEF SoftwarePin
  <2>2. /\ [Reconciled(policy) EXCEPT !.pin = v] \in Policies /\ None \in Version
        /\ Right(policy) => Right([Reconciled(policy) EXCEPT !.pin = v])
    BY ReconciledRight DEF TypeOK, Version
  <2> QED BY <2>1, <2>2
<1>4. CASE SoftwareActivate(c)
  <2>1. PICK v \in Versions : staged[v] = "whole" /\ Begin(c, "pend", Reconciled(policy), v)
    BY <1>4 DEF SoftwareActivate
  <2>2. v \in Version
    BY DEF Version
  <2> QED BY <1>1, <2>1, <2>2
<1> QED BY <1>2, <1>3, <1>4

LEMMA PendFacts ==
  ASSUME Core, NEW c \in Calls, Pend(c)
  PROVE  /\ call[c].at = "pend" /\ call[c].op \in Versions /\ call[c].policy \in Policies
         /\ policy' = Pended(call[c].policy, call[c].op) /\ policy' \in Policies
         /\ call' \in [Calls -> CallStates] /\ call'[c].at = "switch"
         /\ call'[c].op = call[c].op /\ call'[c].policy = call[c].policy
         /\ \A d \in Calls : d # c => call'[d] = call[d]
         /\ UNCHANGED <<job, worker, lease, staged, setups, running, apps, link>>
<1>1. /\ call[c].at = "pend" /\ Step(c, "switch") /\ policy' = Pended(call[c].policy, call[c].op)
      /\ UNCHANGED <<job, worker, lease, staged, setups, running, apps, link>>
  BY DEF Pend, jobs
<1>2. call[c].op \in Versions /\ call[c].policy \in Policies
  BY <1>1 DEF Core, TypeOK, Kinds, CallStates
<1>3. policy' \in Policies
  BY <1>1, <1>2, PendedRight DEF Core, TypeOK
<1> QED BY <1>1, <1>2, <1>3, CallFacts DEF Core, TypeOK

LEMMA SwitchFacts ==
  ASSUME Core, NEW c \in Calls, Switch(c)
  PROVE  /\ call[c].at = "switch" /\ call[c].op \in Versions /\ staged[call[c].op] = "whole"
         /\ link' = call[c].op /\ link' \in Version
         /\ call' \in [Calls -> CallStates] /\ call'[c].at = "read"
         /\ call'[c].policy.current = link' /\ call'[c].policy.next = None
         /\ \A d \in Calls : d # c => call'[d] = call[d]
         /\ UNCHANGED <<job, worker, lease, staged, setups, running, apps, policy>>
<1> DEFINE p == call[c].policy
           q == [p EXCEPT !.previous = p.current, !.current = call[c].op, !.next = None, !.last = None]
<1>1. /\ call[c].at = "switch" /\ link' = call[c].op
      /\ UNCHANGED <<job, worker, lease, staged, setups, running, apps, policy>>
  BY DEF Switch, jobs
<1>2. call[c].op \in Versions /\ staged[call[c].op] = "whole" /\ call[c] \in CallStates
  BY <1>1 DEF Core, TypeOK, Kinds
<1>3. q \in Policies /\ q.current = call[c].op /\ q.next = None
  BY <1>2, SwitchedPolicy DEF CallStates
<1>4. call' = [call EXCEPT ![c] = [[call[c] EXCEPT !.at = "read"] EXCEPT !.policy = q]]
  BY DEF Switch
<1>5. [call[c] EXCEPT !.at = "read"] \in CallStates /\ [call[c] EXCEPT !.at = "read"].at = "read"
  BY <1>2 DEF CallStates
<1> HIDE DEF q
<1>6. ASSUME NEW s \in CallStates, s.at = "read"
      PROVE  [s EXCEPT !.policy = q] \in CallStates /\ [s EXCEPT !.policy = q].at = "read"
             /\ [s EXCEPT !.policy = q].policy = q
  BY <1>3, <1>6 DEF CallStates
<1>7. PICK s \in CallStates : s.at = "read" /\ call' = [call EXCEPT ![c] = [s EXCEPT !.policy = q]]
  BY <1>4, <1>5
<1>8. /\ call' \in [Calls -> CallStates] /\ call'[c].at = "read" /\ call'[c].policy = q
      /\ \A d \in Calls : d # c => call'[d] = call[d]
  BY <1>6, <1>7 DEF Core, TypeOK
<1> QED BY <1>1, <1>2, <1>3, <1>8 DEF Version

LEMMA ReadRegistryFacts ==
  ASSUME Core, NEW c \in Calls, ReadRegistry(c)
  PROVE  /\ call[c].at = "read"
         /\ call' \in [Calls -> CallStates] /\ call'[c].at = "register"
         /\ call'[c].policy = call[c].policy
         /\ \A d \in Calls : d # c => call'[d] = call[d]
         /\ UNCHANGED <<job, worker, lease, staged, setups, running, apps, policy, link>>
<1>1. /\ call[c].at = "read" /\ call[c] \in CallStates /\ apps \in Registries
      /\ call' = [call EXCEPT ![c] = [[call[c] EXCEPT !.at = "register"] EXCEPT !.seen = apps]]
      /\ UNCHANGED <<job, worker, lease, staged, setups, running, apps, policy, link>>
  BY DEF Core, TypeOK, ReadRegistry, jobs, software
<1>2. /\ [call[c] EXCEPT !.at = "register"] \in CallStates
      /\ [call[c] EXCEPT !.at = "register"].at = "register"
      /\ [call[c] EXCEPT !.at = "register"].policy = call[c].policy
  BY <1>1 DEF CallStates
<1>3. ASSUME NEW s \in CallStates
      PROVE  [s EXCEPT !.seen = apps] \in CallStates /\ [s EXCEPT !.seen = apps].at = s.at
             /\ [s EXCEPT !.seen = apps].policy = s.policy
  BY <1>1 DEF CallStates
<1>4. PICK s \in CallStates : /\ s.at = "register" /\ s.policy = call[c].policy
                              /\ call' = [call EXCEPT ![c] = [s EXCEPT !.seen = apps]]
  BY <1>1, <1>2
<1> QED BY <1>1, <1>3, <1>4 DEF Core, TypeOK

\* A call that goes on to save, returns or dies.
LEMMA RestFacts ==
  ASSUME Core, NEW c \in Calls, RegisterPortable(c) \/ SavePolicy(c) \/ CallDies(c)
  PROVE  /\ apps' \in Registries /\ policy' \in Policies
         /\ call' \in [Calls -> CallStates]
         /\ \A d \in Calls : d # c => call'[d] = call[d]
         /\ \/ /\ call[c].at = "register" /\ call'[c].at = "save"
               /\ call'[c].policy = call[c].policy /\ UNCHANGED policy
            \/ call[c].at = "save" /\ call'[c].at = "idle" /\ policy' = call[c].policy
            \/ call'[c].at = "idle" /\ UNCHANGED policy
         /\ UNCHANGED <<job, worker, lease, staged, setups, running, link>>
<1>1. call[c].seen \in Registries /\ call[c].policy \in Policies
  BY DEF Core, TypeOK, CallStates
<1>2. CASE RegisterPortable(c)
  <2>1. apps' \in Registries
    BY <1>1, <1>2 DEF RegisterPortable, Registries
  <2> QED BY <1>2, <2>1, CallFacts DEF Core, TypeOK, RegisterPortable, jobs, software
<1>3. CASE SavePolicy(c)
  BY <1>1, <1>3, CallFacts DEF Core, TypeOK, SavePolicy, jobs
<1>4. CASE CallDies(c)
  BY <1>4, CallFacts DEF Core, TypeOK, CallDies, jobs, software
<1> QED BY <1>2, <1>3, <1>4

-----------------------------------------------------------------------------
(* Every step of a call keeps what holds of any calls.                      *)

\* Every step of a call.
Calling(c) == (\E o \in Ops : AppInstall(c, o)) \/ Save(c) \/ Launch(c) \/ CallDies(c) \/ Software(c)

LEMMA CallCore == ASSUME Core, NEW c \in Calls, Calling(c) PROVE Core'
<1>1. ASSUME NEW o \in Ops, AppInstall(c, o) PROVE Core'
  BY <1>1, AppInstallFacts DEF Core, TypeOK, Kinds, LinkIsStaged
<1>2. CASE Save(c)
  BY <1>2, SaveFacts DEF Core, TypeOK, Kinds, LinkIsStaged
<1>3. CASE Launch(c)
  <2>0. /\ call[c].op \in Ops /\ worker' \in [Workers -> WorkerStates]
        /\ call' \in [Calls -> CallStates] /\ call'[c].at = "idle"
        /\ \A d \in Calls : d # c => call'[d] = call[d]
        /\ UNCHANGED <<job, lease, staged, setups, running, apps, policy, link>>
    BY <1>3, LaunchFacts
  <2>1. /\ TypeOK'
        /\ \A d \in Calls : /\ call'[d].at \in {"accept", "launch"} => call'[d].op \in Ops
                            /\ call'[d].at \in {"pend", "switch"} =>
                                 call'[d].op \in Versions /\ staged'[call'[d].op] = "whole"
        /\ LinkIsStaged'
    BY <2>0 DEF Core, TypeOK, Kinds, LinkIsStaged
  <2>2. \A w \in Workers : worker'[w].at \in {"completed", "register"} => w[1] \in Setups
    BY <1>3, LaunchFacts DEF Core, Kinds
  <2> QED BY <2>1, <2>2 DEF Core, Kinds
<1>4. CASE SoftwareState(c) \/ SoftwarePin(c) \/ SoftwareActivate(c)
  <2>1. PICK at \in {"save", "pend"}, p \in Policies, v \in Version :
          /\ Begin(c, at, p, v)
          /\ at = "pend" => v \in Versions /\ staged[v] = "whole"
    BY <1>4, SoftwareBegins DEF Core
  <2>2. /\ policy' \in Policies
        /\ call' \in [Calls -> CallStates] /\ call'[c].at = at /\ call'[c].op = v
        /\ \A d \in Calls : d # c => call'[d] = call[d]
        /\ UNCHANGED <<job, worker, lease, staged, setups, running, apps, link>>
    BY <2>1, BeginFacts DEF Core
  <2> QED BY <2>1, <2>2 DEF Core, TypeOK, Kinds, LinkIsStaged
<1>5. CASE Pend(c)
  BY <1>5, PendFacts DEF Core, TypeOK, Kinds, LinkIsStaged
<1>6. CASE Switch(c)
  BY <1>6, SwitchFacts DEF Core, TypeOK, Kinds, LinkIsStaged
<1>7. CASE ReadRegistry(c)
  BY <1>7, ReadRegistryFacts DEF Core, TypeOK, Kinds, LinkIsStaged
<1>8. CASE RegisterPortable(c) \/ SavePolicy(c) \/ CallDies(c)
  BY <1>8, RestFacts DEF Core, TypeOK, Kinds, LinkIsStaged
<1> QED BY <1>1, <1>2, <1>3, <1>4, <1>5, <1>6, <1>7, <1>8 DEF Calling, Software

-----------------------------------------------------------------------------
(* Setting up.                                                              *)

\* A step that accepts nothing and touches no job keeps every setup single.
LEMMA OtherOnce ==
  ASSUME OnceOK, NEW c \in Calls, UNCHANGED <<job, worker, setups>>,
         call'[c].at \notin {"accept", "launch"},
         \A d \in Calls : d # c => call'[d] = call[d]
  PROVE  OnceOK'
BY DEF OnceOK, NewIsFresh, WorkerOnce, SetupOnce, Fresh, Accepting

LEMMA CallOnce ==
  ASSUME Core, OnceOK, NoTwins, NoTwins', NEW c \in Calls, Calling(c)
  PROVE  OnceOK'
<1>1. ASSUME NEW o \in Ops, AppInstall(c, o) PROVE OnceOK'
  <2>1. /\ job[o] = "none" /\ call'[c].at = "accept" /\ call'[c].op = o
        /\ \A d \in Calls : d # c => call'[d] = call[d]
        /\ UNCHANGED <<job, worker, setups>>
    BY <1>1, AppInstallFacts DEF Core
  <2>2. Fresh(o)
    BY <2>1 DEF OnceOK, NewIsFresh
  <2> QED BY <2>1, <2>2 DEF OnceOK, NewIsFresh, WorkerOnce, SetupOnce, Fresh, Accepting
<1>2. CASE Save(c)
  <2> DEFINE o == call[c].op
  <2>1. /\ call[c].at = "accept" /\ o \in Ops /\ job'[o] = "queued"
        /\ \A p \in Ops : p # o => job'[p] = job[p]
        /\ call'[c].at = "launch" /\ call'[c].op = o
        /\ \A d \in Calls : d # c => call'[d] = call[d]
        /\ UNCHANGED <<worker, setups>>
    BY <1>2, SaveFacts
  <2>2. \A d \in Calls : d # c /\ Accepting(d) => call[d].op # o
    BY <2>1 DEF NoTwins, Accepting
  <2>3. \A p \in Ops : Fresh(p)' = Fresh(p)
    BY <2>1 DEF Fresh
  <2>4. \A d \in Calls : Accepting(d) => call[d].op \in Ops
    BY DEF Core, Kinds, Accepting
  <2>5. NewIsFresh'
    <3>1. \A p \in Ops : job'[p] = "none" => Fresh(p)'
      BY <2>1, <2>3 DEF OnceOK, NewIsFresh
    <3>2. ASSUME NEW d \in Calls, Accepting(d)'
          PROVE  Fresh(call[d].op)' /\ (call'[d].at = "accept" <=> job'[call'[d].op] = "none")
      <4>1. CASE d = c
        <5>1. Fresh(o)
          BY <2>1 DEF OnceOK, NewIsFresh, Accepting
        <5>2. call'[d].op = o /\ Fresh(o)'
          BY <2>1, <2>3, <4>1, <5>1
        <5> QED BY <2>1, <4>1, <5>2 DEF Fresh
      <4>2. CASE d # c
        <5>1. Accepting(d) /\ call'[d] = call[d]
          BY <2>1, <3>2, <4>2 DEF Accepting
        <5>2. call[d].op \in Ops /\ call[d].op # o
          BY <2>2, <2>4, <4>2, <5>1
        <5>3. Fresh(call[d].op) /\ (call[d].at = "accept" <=> job[call[d].op] = "none")
          BY <5>1 DEF OnceOK, NewIsFresh
        <5> QED BY <2>1, <5>1, <5>2, <5>3 DEF Fresh
      <4> QED BY <4>1, <4>2
    <3> QED BY <3>1, <3>2 DEF NewIsFresh
  <2>6. WorkerOnce' /\ SetupOnce'
    BY <2>1 DEF OnceOK, WorkerOnce, SetupOnce
  <2> QED BY <2>5, <2>6 DEF OnceOK
<1>3. CASE Launch(c)
  <2> DEFINE o == call[c].op
  <2>1. /\ call[c].at = "launch" /\ o \in Ops /\ worker'[<<o, c>>].at = "starting"
        /\ \A w \in Workers : w # <<o, c>> => worker'[w] = worker[w]
        /\ call'[c].at = "idle" /\ \A d \in Calls : d # c => call'[d] = call[d]
        /\ UNCHANGED <<job, setups>>
    BY <1>3, LaunchFacts
  <2>2. Fresh(o) /\ job[o] # "none"
    BY <2>1 DEF OnceOK, NewIsFresh, Accepting
  <2>3. \A p \in Ops \ {o} : Fresh(p) => Fresh(p)'
    BY <2>1 DEF Fresh, Workers
  <2>4. NewIsFresh'
    <3>1. \A p \in Ops : job'[p] = "none" => Fresh(p)'
      BY <2>1, <2>2, <2>3 DEF OnceOK, NewIsFresh
    <3>2. ASSUME NEW d \in Calls, Accepting(d)'
          PROVE  Fresh(call[d].op)' /\ (call'[d].at = "accept" <=> job'[call'[d].op] = "none")
      <4>1. d # c /\ Accepting(d) /\ call'[d] = call[d]
        BY <2>1, <3>2 DEF Accepting
      <4>2. call[d].op \in Ops \ {o}
        BY <2>1, <4>1 DEF Core, Kinds, NoTwins, Accepting
      <4>3. Fresh(call[d].op) /\ (call[d].at = "accept" <=> job[call[d].op] = "none")
        BY <4>1 DEF OnceOK, NewIsFresh
      <4>4. \A p \in Ops : p = call[d].op => Fresh(p)'
        BY <2>3, <4>2, <4>3
      <4> QED BY <2>1, <4>1, <4>2, <4>3, <4>4 DEF Fresh
    <3> QED BY <3>1, <3>2 DEF NewIsFresh
  <2>5. WorkerOnce'
    BY <2>1, <2>2 DEF OnceOK, WorkerOnce, Fresh, Workers
  <2> QED BY <2>1, <2>4, <2>5 DEF OnceOK, SetupOnce
<1>4. CASE SoftwareState(c) \/ SoftwarePin(c) \/ SoftwareActivate(c)
  BY <1>4, SoftwareBegins, BeginFacts, OtherOnce DEF Core
<1>5. CASE Pend(c)
  BY <1>5, PendFacts, OtherOnce
<1>6. CASE Switch(c)
  BY <1>6, SwitchFacts, OtherOnce
<1>7. CASE ReadRegistry(c)
  BY <1>7, ReadRegistryFacts, OtherOnce
<1>8. CASE RegisterPortable(c) \/ SavePolicy(c) \/ CallDies(c)
  BY <1>8, RestFacts, OtherOnce
<1> QED BY <1>1, <1>2, <1>3, <1>4, <1>5, <1>6, <1>7, <1>8 DEF Calling, Software

-----------------------------------------------------------------------------
(* The policy and the link.                                                 *)

\* A step of a call during which no other handles the program is right, if
\* what it does is.
LEMMA HandlerKnown ==
  ASSUME KnownOK, NEW c \in Calls,
         \A d \in Calls : d # c => call'[d] = call[d],
         \A d \in Calls : d # c => ~Handling(d) \/ UNCHANGED <<policy, link>>,
         Right(policy)',
         call'[c].at \in {"read", "register", "save"} => Right(call[c].policy)',
         call'[c].at \in {"pend", "switch"} => call'[c].policy.current = link',
         call'[c].at = "switch" => Names(policy', call'[c].op)
  PROVE  KnownOK'
<1>1. ASSUME NEW d \in Calls, d # c
      PROVE  /\ call'[d].at \in {"read", "register", "save"} => Right(call[d].policy)'
             /\ call'[d].at \in {"pend", "switch"} => call'[d].policy.current = link'
             /\ call'[d].at = "switch" => Names(policy', call'[d].op)
  <2>1. CASE ~Handling(d)
    BY <1>1, <2>1 DEF Handling
  <2>2. CASE UNCHANGED <<policy, link>>
    BY <1>1, <2>2 DEF KnownOK, CallRight, Right, Reconciled, Names
  <2> QED BY <1>1, <2>1, <2>2
<1>2. CallRight'
  BY <1>1 DEF CallRight, Names
<1> QED BY <1>2 DEF KnownOK

LEMMA CallKnown ==
  ASSUME Core, KnownOK, OneSoftware, OneSoftware', NEW c \in Calls, Calling(c)
  PROVE  KnownOK'
<1>1. ASSUME NEW o \in Ops, AppInstall(c, o) PROVE KnownOK'
  <2>1. /\ policy \in Policies /\ link \in Version
        /\ policy' \in {policy, Reconciled(policy)}
        /\ call'[c].at = "accept" /\ \A d \in Calls : d # c => call'[d] = call[d]
        /\ UNCHANGED link
    BY <1>1, AppInstallFacts DEF Core, TypeOK
  <2>2. Right(policy)'
    BY <2>1, ReconciledRight DEF KnownOK, Right, Reconciled
  <2>3. \A d \in Calls : call[d].at = "switch" => Names(policy', call[d].op)
    BY <2>1, ReconciledNames DEF Core, Kinds, KnownOK, CallRight
  <2>4. CallRight'
    BY <2>1, <2>3 DEF KnownOK, CallRight, Right, Reconciled, Names
  <2> QED BY <2>2, <2>4 DEF KnownOK
<1>2. CASE Save(c)
  <2>1. Right(policy)'
    BY <1>2, SaveFacts DEF KnownOK, Right, Reconciled
  <2> QED BY <1>2, <2>1, SaveFacts, HandlerKnown
<1>3. CASE Launch(c)
  <2>1. Right(policy)'
    BY <1>3, LaunchFacts DEF KnownOK, Right, Reconciled
  <2> QED BY <1>3, <2>1, LaunchFacts, HandlerKnown
<1>4. CASE SoftwareState(c) \/ SoftwarePin(c) \/ SoftwareActivate(c)
  <2>1. PICK at \in {"save", "pend"}, p \in Policies, v \in Version :
          /\ Begin(c, at, p, v)
          /\ at = "save" /\ Right(policy) => Right(p)
          /\ at = "pend" /\ Right(policy) => p.current = link
    BY <1>4, SoftwareBegins DEF Core
  <2>2. /\ policy' = Reconciled(policy)
        /\ call'[c].at = at /\ call'[c].policy = p
        /\ \A d \in Calls : d # c => call'[d] = call[d]
        /\ UNCHANGED link
    BY <2>1, BeginFacts DEF Core
  <2>3. \A d \in Calls : d # c => ~Handling(d)
    BY <2>2 DEF OneSoftware, Handling
  <2>4. Right(policy) /\ Right(Reconciled(policy))
    BY ReconciledRight DEF Core, TypeOK, KnownOK
  <2>5. Right(policy)'
    BY <2>2, <2>4 DEF Right, Reconciled
  <2>6. at = "save" => Right(call[c].policy)'
    BY <2>1, <2>2, <2>4 DEF Right, Reconciled
  <2> QED BY <2>1, <2>2, <2>3, <2>4, <2>5, <2>6, HandlerKnown
<1>5. CASE Pend(c)
  <2>1. /\ call[c].at = "pend" /\ call[c].op \in Versions /\ call[c].policy \in Policies
        /\ policy' = Pended(call[c].policy, call[c].op)
        /\ call'[c].at = "switch" /\ call'[c].op = call[c].op /\ call'[c].policy = call[c].policy
        /\ \A d \in Calls : d # c => call'[d] = call[d]
        /\ UNCHANGED link
    BY <1>5, PendFacts
  <2>2. call[c].policy.current = link
    BY <2>1 DEF KnownOK, CallRight
  <2>3. policy'.next = call[c].op /\ Right(policy')
    BY <2>1, <2>2, PendedRight DEF Core, TypeOK
  <2>4. Right(policy)'
    BY <2>1, <2>3 DEF Right, Reconciled
  <2>5. \A d \in Calls : d # c => ~Handling(d)
    BY <2>1 DEF OneSoftware, Handling
  <2> QED BY <2>1, <2>2, <2>3, <2>4, <2>5, HandlerKnown DEF Names
<1>6. CASE Switch(c)
  <2>1. /\ call[c].at = "switch" /\ call[c].op \in Versions /\ link' = call[c].op
        /\ call'[c].at = "read"
        /\ call'[c].policy.current = link' /\ call'[c].policy.next = None
        /\ \A d \in Calls : d # c => call'[d] = call[d]
        /\ UNCHANGED policy
    BY <1>6, SwitchFacts
  <2>2. Names(policy, call[c].op) /\ policy \in Policies
    BY <2>1 DEF Core, TypeOK, KnownOK, CallRight
  <2>3. Right(policy)'
    BY <2>1, <2>2, SwitchedRight
  <2>4. Right(call[c].policy)'
    BY <2>1 DEF Right, Reconciled
  <2>5. \A d \in Calls : d # c => ~Handling(d)
    BY <2>1 DEF OneSoftware, Handling
  <2> QED BY <2>1, <2>3, <2>4, <2>5, HandlerKnown
<1>7. CASE ReadRegistry(c)
  <2>1. /\ call[c].at = "read" /\ call'[c].at = "register" /\ call'[c].policy = call[c].policy
        /\ \A d \in Calls : d # c => call'[d] = call[d]
        /\ UNCHANGED <<policy, link>>
    BY <1>7, ReadRegistryFacts
  <2>2. Right(policy)' /\ Right(call[c].policy)'
    BY <2>1 DEF KnownOK, CallRight, Right, Reconciled
  <2> QED BY <2>1, <2>2, HandlerKnown
<1>8. CASE RegisterPortable(c) \/ SavePolicy(c) \/ CallDies(c)
  <2>1. /\ \A d \in Calls : d # c => call'[d] = call[d]
        /\ \/ /\ call[c].at = "register" /\ call'[c].at = "save"
              /\ call'[c].policy = call[c].policy /\ UNCHANGED policy
           \/ call[c].at = "save" /\ call'[c].at = "idle" /\ policy' = call[c].policy
           \/ call'[c].at = "idle" /\ UNCHANGED policy
        /\ UNCHANGED link
    BY <1>8, RestFacts
  <2>2. Right(policy)'
    BY <2>1 DEF KnownOK, CallRight, Right, Reconciled
  <2>3. call'[c].at = "save" => Right(call[c].policy)'
    BY <2>1 DEF KnownOK, CallRight, Right, Reconciled
  <2>4. \A d \in Calls : d # c => ~Handling(d) \/ UNCHANGED <<policy, link>>
    BY <2>1 DEF OneSoftware, Handling
  <2> QED BY <2>1, <2>2, <2>3, <2>4, HandlerKnown
<1> QED BY <1>1, <1>2, <1>3, <1>4, <1>5, <1>6, <1>7, <1>8 DEF Calling, Software

-----------------------------------------------------------------------------
(* The first state, a reboot, and every step.                               *)

LEMMA InitAll == Init => Core /\ OnceOK /\ KnownOK
<1> SUFFICES ASSUME Init PROVE Core /\ OnceOK /\ KnownOK OBVIOUS
<1> USE EmptyTypes DEF Init
<1>1. TypeOK
  BY DEF TypeOK, Registries, Version
<1>2. Kinds /\ LinkIsStaged
  BY DEF Kinds, LinkIsStaged, Workers, Gone, Idle
<1>3. OnceOK
  BY DEF OnceOK, NewIsFresh, Fresh, WorkerOnce, SetupOnce, Accepting, Workers, Gone, Idle
<1>4. KnownOK
  BY DEF KnownOK, CallRight, Right, Reconciled, Unmanaged, Idle
<1> QED BY <1>1, <1>2, <1>3, <1>4 DEF Core

\* A reboot ends every process; what is on disk stays.
LEMMA RebootKeeps ==
  ASSUME Core, Reboot
  PROVE  Core' /\ (OnceOK => OnceOK') /\ (KnownOK => KnownOK')
<1>1. /\ worker' = [w \in Workers |-> Gone] /\ call' = [c \in Calls |-> Idle] /\ lease' = NoWorker
      /\ running' = {} /\ UNCHANGED <<job, staged, setups, apps, policy, link>>
  BY DEF Reboot, software
<1>2. Gone.at = "gone" /\ Idle.at = "idle"
  BY DEF Gone, Idle
<1>3. TypeOK'
  BY <1>1, EmptyTypes DEF Core, TypeOK
<1>4. Kinds' /\ LinkIsStaged'
  BY <1>1, <1>2 DEF Core, Kinds, LinkIsStaged
<1>5. OnceOK => OnceOK'
  BY <1>1, <1>2 DEF OnceOK, NewIsFresh, Fresh, WorkerOnce, SetupOnce, Accepting, Workers
<1>6. KnownOK => KnownOK'
  BY <1>1, <1>2 DEF KnownOK, CallRight, Right, Reconciled
<1> QED BY <1>3, <1>4, <1>5, <1>6 DEF Core

\* Nothing happens, or an installer that was left behind ends.
Elsewhere == UNCHANGED vars \/ \E w \in Workers : InstallerEnds(w)

LEMMA ElsewhereFacts ==
  ASSUME Elsewhere
  PROVE  /\ UNCHANGED <<job, worker, lease, staged, setups, apps, policy, link, call>>
         /\ running' \subseteq running
BY DEF Elsewhere, InstallerEnds, vars, jobs, software

LEMMA StutterKeeps ==
  ASSUME Core, Elsewhere
  PROVE  Core' /\ (OnceOK => OnceOK') /\ (KnownOK => KnownOK')
<1>1. /\ UNCHANGED <<job, worker, lease, staged, setups, apps, policy, link, call>>
      /\ running' \subseteq running
  BY ElsewhereFacts
<1>2. Core'
  BY <1>1 DEF Core, TypeOK, Kinds, LinkIsStaged
<1>3. OnceOK => OnceOK'
  BY <1>1 DEF OnceOK, NewIsFresh, Fresh, WorkerOnce, SetupOnce, Accepting
<1>4. KnownOK => KnownOK'
  BY <1>1 DEF KnownOK, CallRight, Right, Reconciled, Names
<1> QED BY <1>2, <1>3, <1>4

LEMMA NextSteps ==
  ASSUME Core, [Next]_vars
  PROVE  \/ \E c \in Calls : Calling(c)
         \/ \E w \in Workers : WorkerMove(w)
         \/ Reboot \/ Elsewhere
BY WorkMoves DEF Next, Calling, Elsewhere

LEMMA NextCore == ASSUME Core, [Next]_vars PROVE Core'
BY NextSteps, CallCore, WorkerCore, RebootKeeps, StutterKeeps

LEMMA NextOnce == ASSUME Core, OnceOK, NoTwins, NoTwins', [Next]_vars PROVE OnceOK'
BY NextSteps, CallOnce, WorkerOnceOK, RebootKeeps, StutterKeeps

LEMMA NextKnown == ASSUME Core, KnownOK, OneSoftware, OneSoftware', [Next]_vars PROVE KnownOK'
BY NextSteps, CallKnown, WorkerKnown, RebootKeeps, StutterKeeps
-----------------------------------------------------------------------------
(* Turns.                                                                   *)

LEMMA NoWorkerIsNone == NoWorker \notin Workers
BY NamesAssumption DEF NoWorker, Workers, Ops

LEMMA LeavesFacts ==
  ASSUME worker \in [Workers -> WorkerStates], LeaseOK, NEW w \in Workers, Leaves(w)
  PROVE  LeaseOK'
<1>1. /\ worker'[w].at = "gone" /\ \A x \in Workers : x # w => worker'[x] = worker[x]
      /\ lease' = IF lease = w THEN NoWorker ELSE lease
  BY DEF Leaves, Gone
<1>2. ASSUME NEW x \in Workers
      PROVE  /\ Holding(x)' => lease' = x
             /\ lease' = x => Holding(x)' \/ worker'[x].at = "failing"
  <2>1. CASE x = w
    BY <1>1, <2>1, NoWorkerIsNone DEF Holding
  <2>2. CASE x # w
    BY <1>1, <2>2, NoWorkerIsNone DEF Holding, LeaseOK
  <2> QED BY <2>1, <2>2
<1> QED BY <1>2 DEF LeaseOK

\* A worker that keeps the lease, or has none.
LEMMA GoesOn ==
  ASSUME LeaseOK, NEW w \in Workers, UNCHANGED lease,
         \A x \in Workers \ {w} : worker'[x] = worker[x],
         Holding(w)' => Holding(w),
         Holding(w) => Holding(w)' \/ worker'[w].at = "failing",
         worker[w].at = "failing" => worker'[w].at = "failing"
  PROVE  LeaseOK'
BY DEF LeaseOK, Holding

\* A worker takes the lease only when no other has it, and no longer has it
\* when it ends.
LEMMA WorkLease ==
  ASSUME Core, LeaseOK, NEW w \in Workers,
         Work(w) \/ GivesUp(w) \/ RegisterFails(w) \/ WorkerDies(w)
  PROVE  LeaseOK'
<1>1. worker \in [Workers -> WorkerStates] /\ lease \in Workers \cup {NoWorker}
  BY DEF Core, TypeOK
<1>2. ASSUME Leaves(w) PROVE LeaseOK'
  BY <1>1, <1>2, LeavesFacts
<1>3. ASSUME NEW p \in {"waiting", "setup", "copied", "done", "failing", "completed"}, Goto(w, p),
             UNCHANGED lease,
             p # "failing" => worker[w].at # "failing",
             p = "waiting" => ~Holding(w),
             p \in {"setup", "copied", "done", "completed"} => Holding(w)
      PROVE  LeaseOK'
  <2>1. worker'[w].at = p /\ \A x \in Workers \ {w} : worker'[x] = worker[x]
    BY <1>1, <1>3, WorkerFacts
  <2> QED BY <1>3, <2>1, GoesOn DEF Holding
<1>4. CASE WorkerStarts(w)
  <2>1. worker[w].at = "starting" /\ Goto(w, "waiting") /\ UNCHANGED lease
    BY <1>4 DEF WorkerStarts, At
  <2> QED BY <1>3, <2>1 DEF Holding
<1>5. CASE Acquire(w)
  <2>1. lease = NoWorker /\ lease' = w /\ Goto(w, "leased")
    BY <1>5 DEF Acquire
  <2>2. worker'[w].at = "leased" /\ \A x \in Workers \ {w} : worker'[x] = worker[x]
    BY <1>1, <2>1, WorkerFacts
  <2>3. \A x \in Workers : ~Holding(x)
    BY <2>1, NoWorkerIsNone DEF LeaseOK
  <2> QED BY <2>1, <2>2, <2>3 DEF LeaseOK, Holding
<1>6. CASE GivesUp(w) \/ RegisterFails(w)
  <2>1. Goto(w, "failing") /\ UNCHANGED lease
    BY <1>6 DEF GivesUp, RegisterFails
  <2> QED BY <1>3, <2>1
<1>7. CASE Setup(w) \/ SetupEnds(w) \/ Stage(w)
  <2>1. /\ worker[w].at \in {"leased", "setup"} /\ UNCHANGED lease
        /\ Goto(w, "setup") \/ Goto(w, "done") \/ Goto(w, "failing") \/ Goto(w, "copied")
    BY <1>7 DEF Setup, SetupEnds, Stage, At
  <2> QED BY <1>3, <2>1 DEF Holding
<1>8. CASE Release(w)
  <2>1. worker[w].at = "copied" /\ Goto(w, "done") /\ UNCHANGED lease
    BY <1>8 DEF Release, At
  <2> QED BY <1>3, <2>1 DEF Holding
<1>9. CASE Complete(w)
  <2>1. worker[w].at = "done" /\ (Leaves(w) \/ (Goto(w, "completed") /\ UNCHANGED lease))
    BY <1>9 DEF Complete, At
  <2> QED BY <1>2, <1>3, <2>1 DEF Holding
<1>10. CASE ReadApps(w)
  <2>1. /\ worker[w].at = "completed" /\ worker'[w].at = "register" /\ UNCHANGED lease
        /\ \A x \in Workers \ {w} : worker'[x] = worker[x]
    BY <1>1, <1>10 DEF ReadApps, At
  <2> QED BY <2>1, GoesOn DEF Holding
<1>11. CASE Register(w) \/ Fails(w) \/ WorkerDies(w)
  BY <1>2, <1>11 DEF Register, Fails, WorkerDies
<1> QED BY <1>4, <1>5, <1>6, <1>7, <1>8, <1>9, <1>10, <1>11 DEF Work

LEMMA WorkerSlots == ASSUME Core, Slots, NEW w \in Workers, WorkerMove(w) PROVE Slots'
<1>1. w = <<w[1], w[2]>> /\ w[1] \in Ops /\ w[2] \in Calls
  BY DEF Workers
<1>2. \A x \in Workers : worker[x].at = "gone" => worker'[x].at = "gone"
  BY DEF WorkerMove
<1>3. job[w[1]] # "none"
  BY <1>1 DEF Slots, WorkerMove
<1>4. \A o \in Ops : job'[o] = "none" => job[o] = "none"
  BY <1>3 DEF WorkerMove
<1>5. \A o \in Ops : \A c \in Calls : <<o, c>> \in Workers
  BY DEF Workers
<1>6. \A c \in Calls : Accepting(c) => call[c].op \in Ops
  BY DEF Core, Kinds, Accepting
<1>7. \A o \in Ops : job[o] # "none" => job'[o] # "none"
  BY <1>3 DEF WorkerMove
<1>8. UNCHANGED call
  BY DEF WorkerMove
<1> QED BY <1>2, <1>4, <1>5, <1>6, <1>7, <1>8 DEF Slots, Accepting

\* A step that accepts nothing and touches no job.
LEMMA OtherTurns ==
  ASSUME TurnsOK, NEW c \in Calls, UNCHANGED <<job, worker, lease>>,
         call'[c].at \notin {"accept", "launch"},
         \A d \in Calls : d # c => call'[d] = call[d]
  PROVE  TurnsOK'
BY DEF TurnsOK, LeaseOK, Slots, Holding, Accepting

LEMMA CallTurns == ASSUME Core, TurnsOK, NEW c \in Calls, Calling(c) PROVE TurnsOK'
<1>0. \A d \in Calls : Accepting(d) => call[d].op \in Ops /\ <<call[d].op, d>> \in Workers
  BY DEF Core, Kinds, Accepting, Workers
<1>1. ASSUME NEW o \in Ops, AppInstall(c, o) PROVE TurnsOK'
  <2>1. /\ job[o] = "none" /\ call'[c].at = "accept" /\ call'[c].op = o
        /\ \A d \in Calls : d # c => call'[d] = call[d]
        /\ UNCHANGED <<job, worker, lease>>
    BY <1>1, AppInstallFacts DEF Core
  <2> QED BY <2>1 DEF TurnsOK, LeaseOK, Slots, Holding, Accepting
<1>2. CASE Save(c)
  <2>1. /\ call[c].at = "accept" /\ call[c].op \in Ops /\ job'[call[c].op] = "queued"
        /\ \A o \in Ops : o # call[c].op => job'[o] = job[o]
        /\ call'[c].at = "launch" /\ call'[c].op = call[c].op
        /\ \A d \in Calls : d # c => call'[d] = call[d]
        /\ UNCHANGED <<worker, lease>>
    BY <1>2, SaveFacts
  <2>2. LeaseOK'
    BY <2>1 DEF TurnsOK, LeaseOK, Holding
  <2>3. Slots'
    BY <1>0, <2>1 DEF TurnsOK, Slots, Accepting
  <2> QED BY <2>2, <2>3 DEF TurnsOK
<1>3. CASE Launch(c)
  <2> DEFINE w == <<call[c].op, c>>
  <2>1. /\ call[c].at = "launch" /\ call[c].op \in Ops /\ w \in Workers
        /\ worker'[w].at = "starting"
        /\ \A x \in Workers : x # w => worker'[x] = worker[x]
        /\ call'[c].at = "idle"
        /\ \A d \in Calls : d # c => call'[d] = call[d]
        /\ UNCHANGED <<job, lease>>
    BY <1>3, LaunchFacts DEF Workers
  <2>2. worker[w].at = "gone" /\ job[call[c].op] # "none"
    BY <2>1 DEF TurnsOK, Slots, Accepting
  <2>3. lease # w
    BY <2>1, <2>2 DEF TurnsOK, LeaseOK, Holding
  <2>4. LeaseOK'
    BY <2>1, <2>3 DEF TurnsOK, LeaseOK, Holding
  <2>5. \A o \in Ops : job[o] = "none" => \A d \in Calls : worker'[<<o, d>>].at = "gone"
    BY <2>1, <2>2 DEF TurnsOK, Slots, Workers
  <2>6. \A d \in Calls : d # c => <<call[d].op, d>> # w
    OBVIOUS
  <2>7. Slots'
    BY <1>0, <2>1, <2>5, <2>6 DEF TurnsOK, Slots, Accepting
  <2> QED BY <2>4, <2>7 DEF TurnsOK
<1>4. CASE SoftwareState(c) \/ SoftwarePin(c) \/ SoftwareActivate(c)
  <2>1. PICK at \in {"save", "pend"}, p \in Policies, v \in Version : Begin(c, at, p, v)
    BY <1>4, SoftwareBegins DEF Core
  <2>2. /\ call'[c].at = at /\ \A d \in Calls : d # c => call'[d] = call[d]
        /\ UNCHANGED <<job, worker, lease>>
    BY <2>1, BeginFacts DEF Core
  <2> QED BY <2>2, OtherTurns
<1>5. CASE Pend(c)
  BY <1>5, PendFacts, OtherTurns
<1>6. CASE Switch(c)
  BY <1>6, SwitchFacts, OtherTurns
<1>7. CASE ReadRegistry(c)
  BY <1>7, ReadRegistryFacts, OtherTurns
<1>8. CASE RegisterPortable(c) \/ SavePolicy(c) \/ CallDies(c)
  <2>1. /\ call'[c].at \in {"save", "idle"}
        /\ \A d \in Calls : d # c => call'[d] = call[d]
        /\ UNCHANGED <<job, worker, lease>>
    BY <1>8, RestFacts
  <2> QED BY <2>1, OtherTurns
<1> QED BY <1>1, <1>2, <1>3, <1>4, <1>5, <1>6, <1>7, <1>8 DEF Calling, Software

LEMMA NextTurns == ASSUME Core, TurnsOK, [Next]_vars PROVE TurnsOK'
<1>1. CASE \E c \in Calls : Calling(c)
  BY <1>1, CallTurns
<1>2. ASSUME NEW w \in Workers, Work(w) \/ GivesUp(w) \/ RegisterFails(w) \/ WorkerDies(w)
      PROVE  TurnsOK'
  BY <1>2, WorkMoves, WorkLease, WorkerSlots DEF TurnsOK
<1>3. CASE Reboot
  <2>1. /\ worker' = [w \in Workers |-> Gone] /\ call' = [c \in Calls |-> Idle] /\ lease' = NoWorker
        /\ Gone.at = "gone" /\ Idle.at = "idle"
    BY <1>3 DEF Reboot, Gone, Idle
  <2>2. LeaseOK'
    BY <2>1, NoWorkerIsNone DEF LeaseOK, Holding
  <2>3. Slots'
    BY <2>1 DEF Slots, Accepting, Workers
  <2> QED BY <2>2, <2>3 DEF TurnsOK
<1>4. CASE Elsewhere
  BY <1>4, ElsewhereFacts DEF TurnsOK, LeaseOK, Slots, Holding, Accepting
<1> QED BY <1>1, <1>2, <1>3, <1>4 DEF Next, Calling, Elsewhere

\* The worker that starts an installer waits for it, and leaves it behind if
\* it goes on or ends before it.
LEMMA WorkRunning ==
  ASSUME Core, TurnsOK, RunningOK, NEW w \in Workers,
         Work(w) \/ GivesUp(w) \/ RegisterFails(w) \/ WorkerDies(w)
  PROVE  RunningOK'
<1>1. WorkerMove(w) /\ worker \in [Workers -> WorkerStates] /\ lease \in Workers \cup {NoWorker}
      /\ running \subseteq Workers /\ w = <<w[1], w[2]>> /\ w[1] \in Ops /\ w[2] \in Calls
  BY WorkMoves DEF Core, TypeOK, Workers
<1>2. running' \subseteq running \cup {w} /\ (w \in running' => worker'[w].at = "setup" \/ LeftBehind(w)')
  <2>1. CASE Setup(w)
    BY <1>1, <2>1, WorkerFacts DEF Setup
  <2>2. CASE SetupEnds(w)
    BY <1>1, <2>2, WorkerFacts DEF SetupEnds, LeftBehind
  <2>3. CASE Fails(w) \/ WorkerDies(w)
    BY <1>1, <2>3, WorkerFacts DEF Fails, WorkerDies, LeftBehind
  <2>4. CASE \/ WorkerStarts(w) \/ Acquire(w) \/ GivesUp(w) \/ Stage(w) \/ Release(w)
             \/ Complete(w) \/ ReadApps(w) \/ Register(w) \/ RegisterFails(w)
    <3>1. worker[w].at # "setup" /\ ~LeftBehind(w) /\ UNCHANGED running
      BY <2>4 DEF WorkerStarts, Acquire, GivesUp, Stage, Release, Complete, ReadApps, Register,
                  RegisterFails, At, LeftBehind
    <3> QED BY <3>1 DEF RunningOK
  <2> QED BY <2>1, <2>2, <2>3, <2>4 DEF Work
<1>3. job'[w[1]] # "none"
  BY <1>1 DEF TurnsOK, Slots, WorkerMove
<1>4. ASSUME NEW x \in running', x # w
      PROVE  job'[x[1]] # "none" /\ (worker'[x].at = "setup" \/ LeftBehind(x)')
  <2>1. x \in running /\ x \in Workers /\ x[1] \in Ops /\ worker'[x] = worker[x]
    BY <1>1, <1>2, <1>4 DEF WorkerMove, Workers
  <2> QED BY <1>1, <1>3, <2>1 DEF RunningOK, LeftBehind, WorkerMove
<1>5. ASSUME NEW c \in Calls, Accepting(c)' PROVE <<call'[c].op, c>> \notin running'
  <2>1. Accepting(c) /\ call'[c] = call[c]
    BY <1>1, <1>5 DEF Accepting, WorkerMove
  <2>2. <<call[c].op, c>> # w
    BY <1>1, <2>1 DEF TurnsOK, Slots, WorkerMove
  <2> QED BY <1>2, <2>1, <2>2 DEF RunningOK
<1> QED BY <1>2, <1>3, <1>4, <1>5 DEF RunningOK

\* A call launches no worker in the place of one whose installer runs.
LEMMA CallRunning ==
  ASSUME Core, TurnsOK, RunningOK, NEW c \in Calls, Calling(c)
  PROVE  RunningOK'
<1>0. running \subseteq Workers /\ \A w \in running : w[1] \in Ops
  BY DEF Core, TypeOK, Workers
<1>1. ASSUME UNCHANGED <<job, worker, running>>, call'[c].at \notin {"accept", "launch"},
             \A d \in Calls : d # c => call'[d] = call[d]
      PROVE  RunningOK'
  BY <1>1 DEF RunningOK, LeftBehind, Accepting
<1>2. ASSUME NEW o \in Ops, AppInstall(c, o) PROVE RunningOK'
  <2>1. /\ job[o] = "none" /\ call'[c].at = "accept" /\ call'[c].op = o
        /\ \A d \in Calls : d # c => call'[d] = call[d]
        /\ UNCHANGED <<job, worker, running>>
    BY <1>2, AppInstallFacts DEF Core
  <2>2. <<o, c>> \notin running
    BY <2>1 DEF RunningOK
  <2> QED BY <2>1, <2>2 DEF RunningOK, LeftBehind, Accepting
<1>3. CASE Save(c)
  <2>1. /\ call[c].at = "accept" /\ call[c].op \in Ops /\ job'[call[c].op] = "queued"
        /\ \A o \in Ops : o # call[c].op => job'[o] = job[o]
        /\ call'[c].at = "launch" /\ call'[c].op = call[c].op
        /\ \A d \in Calls : d # c => call'[d] = call[d]
        /\ UNCHANGED <<worker, running>>
    BY <1>3, SaveFacts
  <2> QED BY <1>0, <2>1 DEF RunningOK, LeftBehind, Accepting
<1>4. CASE Launch(c)
  <2> DEFINE w == <<call[c].op, c>>
  <2>1. /\ call[c].at = "launch"
        /\ \A x \in Workers : x # w => worker'[x] = worker[x]
        /\ call'[c].at = "idle"
        /\ \A d \in Calls : d # c => call'[d] = call[d]
        /\ UNCHANGED <<job, running>>
    BY <1>4, LaunchFacts
  <2>2. w \notin running
    BY <2>1 DEF RunningOK, Accepting
  <2>3. \A x \in running : worker'[x] = worker[x]
    BY <1>0, <2>1, <2>2
  <2> QED BY <2>1, <2>3 DEF RunningOK, LeftBehind, Accepting
<1>5. CASE SoftwareState(c) \/ SoftwarePin(c) \/ SoftwareActivate(c)
  <2>1. PICK at \in {"save", "pend"}, p \in Policies, v \in Version : Begin(c, at, p, v)
    BY <1>5, SoftwareBegins DEF Core
  <2>2. /\ call'[c].at = at /\ \A d \in Calls : d # c => call'[d] = call[d]
        /\ UNCHANGED <<job, worker, running>>
    BY <2>1, BeginFacts DEF Core
  <2> QED BY <1>1, <2>2
<1>6. CASE Pend(c)
  BY <1>1, <1>6, PendFacts
<1>7. CASE Switch(c)
  BY <1>1, <1>7, SwitchFacts
<1>8. CASE ReadRegistry(c)
  BY <1>1, <1>8, ReadRegistryFacts
<1>9. CASE RegisterPortable(c) \/ SavePolicy(c) \/ CallDies(c)
  <2>1. /\ call'[c].at \in {"save", "idle"}
        /\ \A d \in Calls : d # c => call'[d] = call[d]
        /\ UNCHANGED <<job, worker, running>>
    BY <1>9, RestFacts
  <2> QED BY <1>1, <2>1
<1> QED BY <1>2, <1>3, <1>4, <1>5, <1>6, <1>7, <1>8, <1>9 DEF Calling, Software

LEMMA NextRunning == ASSUME Core, TurnsOK, RunningOK, [Next]_vars PROVE RunningOK'
<1>1. CASE \E c \in Calls : Calling(c)
  BY <1>1, CallRunning
<1>2. CASE \E w \in Workers : Work(w) \/ GivesUp(w) \/ RegisterFails(w) \/ WorkerDies(w)
  BY <1>2, WorkRunning
<1>3. CASE Reboot
  BY <1>3 DEF Reboot, RunningOK
<1>4. CASE Elsewhere
  BY <1>4, ElsewhereFacts DEF RunningOK, LeftBehind, Accepting
<1> QED BY <1>1, <1>2, <1>3, <1>4 DEF Next, Calling, Elsewhere

LEMMA InitTurns == Init => TurnsOK /\ RegistryOK
<1> SUFFICES ASSUME Init PROVE TurnsOK /\ RegistryOK OBVIOUS
<1>1. /\ \A w \in Workers : worker[w].at = "gone"
      /\ \A c \in Calls : call[c].at = "idle"
      /\ lease = NoWorker
  BY DEF Init, Gone, Idle
<1>2. LeaseOK
  BY <1>1, NoWorkerIsNone DEF LeaseOK, Holding
<1>3. Slots
  BY <1>1 DEF Slots, Accepting, Workers
<1> QED BY <1>1, <1>2, <1>3 DEF TurnsOK, RegistryOK
-----------------------------------------------------------------------------
(* The registry.                                                            *)

\* A step that writes no apps.json and reads none.
LEMMA OthersRegistry ==
  ASSUME RegistryOK, UNCHANGED apps,
         \A w \in Workers : worker'[w].at = "register" => worker'[w] = worker[w],
         \A c \in Calls : call'[c].at = "register" => call'[c] = call[c]
  PROVE  RegistryOK'
BY DEF RegistryOK

\* One that a worker which holds the lease takes.
LEMMA WorkRegistry ==
  ASSUME Core, LeaseOK, RegistryOK, Unmixed, NEW w \in Workers,
         Work(w) \/ GivesUp(w) \/ RegisterFails(w) \/ WorkerDies(w)
  PROVE  RegistryOK' /\ apps \subseteq apps'
<1>1. /\ \A x \in Workers \ {w} : worker'[x] = worker[x]
      /\ UNCHANGED call
  BY WorkMoves DEF WorkerMove
<1>2. CASE Register(w)
  <2>1. /\ worker[w].at = "register" /\ worker'[w].at = "gone"
        /\ apps' = worker[w].seen \cup {w[1]}
    BY <1>2 DEF Register, At, Leaves, Gone, Core, TypeOK
  <2>2. apps' = apps \cup {w[1]}
    BY <2>1 DEF RegistryOK
  <2>3. \A x \in Workers : worker'[x].at # "register"
    BY <1>1, <2>1 DEF LeaseOK, Holding
  <2>4. \A c \in Calls : call'[c].at # "register"
    BY <1>1, <2>1 DEF Unmixed
  <2> QED BY <2>2, <2>3, <2>4 DEF RegistryOK
<1>3. CASE ReadApps(w)
  <2>1. worker'[w].seen = apps /\ UNCHANGED apps
    BY <1>3 DEF ReadApps, Core, TypeOK
  <2> QED BY <1>1, <2>1 DEF RegistryOK
<1>4. CASE ~Register(w) /\ ~ReadApps(w)
  <2>1. ASSUME NEW p \in {"waiting", "leased", "setup", "copied", "done", "failing", "completed"}, Goto(w, p)
        PROVE  worker'[w].at # "register"
    BY <2>1, WorkerFacts DEF Core, TypeOK
  <2>2. Leaves(w) => worker'[w].at # "register"
    BY WorkerFacts DEF Core, TypeOK
  <2>3. worker'[w].at # "register" /\ UNCHANGED apps
    BY <1>4, <2>1, <2>2
       DEF Work, WorkerStarts, Acquire, Setup, SetupEnds, Stage, Release, Complete, Fails,
           GivesUp, RegisterFails, WorkerDies
  <2> QED BY <1>1, <2>3, OthersRegistry
<1> QED BY <1>2, <1>3, <1>4

LEMMA CallRegistry ==
  ASSUME Core, RegistryOK, Unmixed, NEW c \in Calls, Calling(c)
  PROVE  RegistryOK' /\ apps \subseteq apps'
<1>1. ASSUME call'[c].at # "register", \A d \in Calls : d # c => call'[d] = call[d], UNCHANGED apps,
             \A w \in Workers : worker'[w].at = "register" => worker'[w] = worker[w]
      PROVE  RegistryOK' /\ apps \subseteq apps'
  BY <1>1, OthersRegistry
<1>2. ASSUME NEW o \in Ops, AppInstall(c, o) PROVE RegistryOK' /\ apps \subseteq apps'
  BY <1>1, <1>2, AppInstallFacts DEF Core
<1>3. CASE Save(c)
  BY <1>1, <1>3, SaveFacts
<1>4. CASE Launch(c)
  BY <1>1, <1>4, LaunchFacts
<1>5. CASE SoftwareState(c) \/ SoftwarePin(c) \/ SoftwareActivate(c)
  <2>1. PICK at \in {"save", "pend"}, p \in Policies, v \in Version : Begin(c, at, p, v)
    BY <1>5, SoftwareBegins DEF Core
  <2>2. /\ call'[c].at = at /\ \A d \in Calls : d # c => call'[d] = call[d]
        /\ UNCHANGED <<worker, apps>>
    BY <2>1, BeginFacts DEF Core
  <2> QED BY <1>1, <2>2
<1>6. CASE Pend(c)
  BY <1>1, <1>6, PendFacts
<1>7. CASE Switch(c)
  BY <1>1, <1>7, SwitchFacts
<1>8. CASE ReadRegistry(c)
  <2>1. /\ \A d \in Calls : d # c => call'[d] = call[d]
        /\ UNCHANGED <<worker, apps>>
    BY <1>8, ReadRegistryFacts
  <2>2. call'[c].seen = apps
    BY <1>8 DEF ReadRegistry, Core, TypeOK, CallStates
  <2> QED BY <2>1, <2>2 DEF RegistryOK
<1>9. CASE RegisterPortable(c)
  <2>1. /\ call[c].at = "register" /\ apps' = call[c].seen \cup {Portable}
    BY <1>9 DEF RegisterPortable
  <2>2. /\ call'[c].at = "save" \/ call'[c].at = "idle"
        /\ \A d \in Calls : d # c => call'[d] = call[d]
        /\ UNCHANGED worker
    BY <1>9, RestFacts
  <2>3. apps' = apps \cup {Portable}
    BY <2>1 DEF RegistryOK
  <2>4. \A w \in Workers : worker'[w].at # "register"
    BY <2>1, <2>2 DEF Unmixed
  <2>5. \A d \in Calls : call'[d].at = "register" =>
          apps' \cup {Portable} = call'[d].seen \cup {Portable}
    BY <2>2, <2>3 DEF RegistryOK
  <2> QED BY <2>3, <2>4, <2>5 DEF RegistryOK
<1>10. CASE SavePolicy(c) \/ CallDies(c)
  <2>1. UNCHANGED apps
    BY <1>10 DEF SavePolicy, CallDies
  <2>2. call'[c].at = "idle"
    BY <1>10, CallFacts DEF SavePolicy, CallDies, Core, TypeOK
  <2>3. (\A d \in Calls : d # c => call'[d] = call[d]) /\ UNCHANGED worker
    BY <1>10, RestFacts
  <2> QED BY <1>1, <2>1, <2>2, <2>3
<1> QED BY <1>2, <1>3, <1>4, <1>5, <1>6, <1>7, <1>8, <1>9, <1>10 DEF Calling, Software

LEMMA NextRegistry ==
  ASSUME Core, TurnsOK, RegistryOK, Unmixed, [Next]_vars
  PROVE  RegistryOK' /\ apps \subseteq apps'
<1>1. CASE \E c \in Calls : Calling(c)
  BY <1>1, CallRegistry
<1>2. CASE \E w \in Workers : Work(w) \/ GivesUp(w) \/ RegisterFails(w) \/ WorkerDies(w)
  BY <1>2, WorkRegistry DEF TurnsOK
<1>3. CASE Reboot
  <2>1. /\ worker' = [w \in Workers |-> Gone] /\ call' = [c \in Calls |-> Idle] /\ UNCHANGED apps
        /\ Gone.at = "gone" /\ Idle.at = "idle"
    BY <1>3 DEF Reboot, Gone, Idle
  <2> QED BY <2>1 DEF RegistryOK
<1>4. CASE Elsewhere
  BY <1>4, ElsewhereFacts DEF RegistryOK
<1> QED BY <1>1, <1>2, <1>3, <1>4 DEF Next, Calling, Elsewhere
-----------------------------------------------------------------------------
(* What a completed installation stands for.                                *)

Worked == {"done", "completed", "register"}

\* A worker past its setup has done it, and so has a completed job.
DoneOK ==
  /\ \A w \in Workers :
       /\ worker[w].at \in Worked \cup {"setup", "copied"} => setups[w[1]] # 0
       /\ worker[w].at = "setup" => w[1] \in Setups
       /\ worker[w].at \in Worked /\ w[1] \in Versions => staged[w[1]] = "whole"
  /\ \A o \in Ops : job[o] = "completed" =>
       setups[o] # 0 /\ (o \in Versions => staged[o] = "whole")

LEMMA WorkDone ==
  ASSUME Core, DoneOK, NEW w \in Workers,
         Work(w) \/ GivesUp(w) \/ RegisterFails(w) \/ WorkerDies(w)
  PROVE  DoneOK'
<1>1. /\ WorkerMove(w) /\ w[1] \in Ops /\ setups[w[1]] \in Nat
      /\ worker \in [Workers -> WorkerStates] /\ lease \in Workers \cup {NoWorker}
  BY WorkMoves DEF Workers, Core, TypeOK
<1>2. /\ \A o \in Ops : setups[o] # 0 => setups'[o] # 0
      /\ \A v \in Versions : staged[v] = "whole" => staged'[v] = "whole"
      /\ \A x \in Workers \ {w} : worker'[x] = worker[x]
      /\ \A x \in Workers : x[1] \in Ops
  BY <1>1 DEF WorkerMove, Workers
<1>3. ASSUME worker'[w].at \in Worked \cup {"setup", "copied"} => setups'[w[1]] # 0,
             worker'[w].at = "setup" => w[1] \in Setups,
             worker'[w].at \in Worked /\ w[1] \in Versions => staged'[w[1]] = "whole",
             \A o \in Ops : job'[o] = "completed" =>
               \/ job[o] = "completed"
               \/ setups[o] # 0 /\ (o \in Versions => staged[o] = "whole")
      PROVE  DoneOK'
  <2>1. ASSUME NEW x \in Workers
        PROVE  /\ worker'[x].at \in Worked \cup {"setup", "copied"} => setups'[x[1]] # 0
               /\ worker'[x].at = "setup" => x[1] \in Setups
               /\ worker'[x].at \in Worked /\ x[1] \in Versions => staged'[x[1]] = "whole"
    BY <1>2, <1>3 DEF DoneOK
  <2>2. ASSUME NEW o \in Ops, job'[o] = "completed"
        PROVE  setups'[o] # 0 /\ (o \in Versions => staged'[o] = "whole")
    BY <1>2, <1>3, <2>2 DEF DoneOK
  <2> QED BY <2>1, <2>2 DEF DoneOK
<1>4. ASSUME NEW p \in {"waiting", "leased", "setup", "copied", "done", "failing", "completed"}, Goto(w, p)
      PROVE  worker'[w].at = p
  BY <1>1, <1>4, WorkerFacts
<1>5. Leaves(w) => worker'[w].at = "gone"
  BY <1>1, WorkerFacts
<1>6. ASSUME NEW s, Progress(w, s)
      PROVE  \A o \in Ops : job'[o] = "completed" => job[o] = "completed" \/ (o = w[1] /\ s = "completed")
  BY <1>1, <1>6 DEF Progress, Core, TypeOK
<1>7. CASE Setup(w) \/ Stage(w)
  <2>1. UNCHANGED job /\ worker[w].at = "leased"
    BY <1>7 DEF Setup, Stage, At
  <2>2. setups' = [setups EXCEPT ![w[1]] = @ + 1] \/ Goto(w, "failing")
    BY <1>7 DEF Setup, Stage
  <2>3. setups'[w[1]] # 0 \/ worker'[w].at = "failing"
    BY <1>1, <1>4, <2>2 DEF Core, TypeOK
  <2>4. \/ w[1] \in Setups /\ Goto(w, "setup")
        \/ Goto(w, "failing") \/ Goto(w, "copied")
    BY <1>7 DEF Setup, Stage
  <2>5. worker'[w].at \notin Worked /\ (worker'[w].at = "setup" => w[1] \in Setups)
    BY <1>4, <2>4 DEF Worked
  <2> QED BY <1>3, <2>1, <2>3, <2>5 DEF Worked
<1>8. CASE Release(w)
  <2>1. worker[w].at = "copied" /\ staged' = [staged EXCEPT ![w[1]] = "whole"]
        /\ UNCHANGED <<job, setups>>
    BY <1>8 DEF Release, At
  <2>2. w[1] \in Versions => staged'[w[1]] = "whole"
    BY <2>1 DEF Core, TypeOK
  <2>3. setups'[w[1]] # 0
    BY <2>1 DEF DoneOK
  <2>4. worker'[w].at = "done"
    BY <1>4, <1>8 DEF Release
  <2> QED BY <1>3, <2>1, <2>2, <2>3, <2>4
<1>9. CASE Complete(w)
  <2>1. /\ worker[w].at = "done" /\ Progress(w, "completed") /\ UNCHANGED <<staged, setups, running>>
    BY <1>9 DEF Complete, At
  <2>2. setups[w[1]] # 0 /\ (w[1] \in Versions => staged[w[1]] = "whole")
    BY <2>1 DEF DoneOK, Worked
  <2>3. \A o \in Ops : job'[o] = "completed" => job[o] = "completed" \/ o = w[1]
    BY <1>6, <2>1
  <2>4. worker'[w].at \in {"completed", "gone"}
    BY <1>4, <1>5, <1>9 DEF Complete
  <2> QED BY <1>3, <2>1, <2>2, <2>3, <2>4
<1>10. CASE ReadApps(w)
  <2>1. worker[w].at = "completed" /\ UNCHANGED <<job, staged, setups, running>>
    BY <1>10 DEF ReadApps, At
  <2>2. setups[w[1]] # 0 /\ (w[1] \in Versions => staged[w[1]] = "whole")
    BY <2>1 DEF DoneOK, Worked
  <2>3. worker'[w].at = "register"
    BY <1>1, <1>10 DEF ReadApps, Core, TypeOK
  <2> QED BY <1>3, <2>1, <2>2, <2>3
<1>11. CASE \/ WorkerStarts(w) \/ Acquire(w) \/ Register(w) \/ Fails(w)
            \/ GivesUp(w) \/ RegisterFails(w) \/ WorkerDies(w)
  <2>1. worker'[w].at \in {"waiting", "leased", "failing", "gone"}
    BY <1>4, <1>5, <1>11 DEF WorkerStarts, Acquire, Register, Fails, GivesUp, RegisterFails, WorkerDies
  <2>2. UNCHANGED job \/ \E s \in {"waiting", "working", "failed"} : Progress(w, s)
    BY <1>11 DEF WorkerStarts, Acquire, Register, Fails, GivesUp, RegisterFails, WorkerDies
  <2>3. \A o \in Ops : job'[o] = "completed" => job[o] = "completed"
    BY <1>6, <2>2
  <2> QED BY <1>3, <2>1, <2>3 DEF Worked
<1>12. CASE SetupEnds(w)
  <2>1. worker[w].at = "setup" /\ UNCHANGED <<job, staged, setups>> /\ worker'[w].at \in {"done", "failing"}
    BY <1>4, <1>12 DEF SetupEnds, At
  <2>2. setups[w[1]] # 0 /\ w[1] \notin Versions
    BY <2>1, NamesAssumption DEF DoneOK
  <2> QED BY <1>3, <2>1, <2>2 DEF Worked
<1> QED BY <1>7, <1>8, <1>9, <1>10, <1>11, <1>12 DEF Work

LEMMA NextDone == ASSUME Core, DoneOK, [Next]_vars PROVE DoneOK'
<1>1. ASSUME NEW c \in Calls, Calling(c) PROVE DoneOK'
  <2>1. CASE Save(c)
    <3>1. /\ \A o \in Ops : job'[o] = "completed" => job[o] = "completed"
          /\ UNCHANGED <<worker, staged, setups, running>>
      BY <2>1, SaveFacts
    <3> QED BY <3>1 DEF DoneOK
  <2>2. CASE Launch(c)
    <3>1. /\ \A w \in Workers : worker'[w].at \in Worked \cup {"setup", "copied"} => worker'[w] = worker[w]
          /\ UNCHANGED <<job, staged, setups, running>>
      BY <2>2, LaunchFacts DEF Worked
    <3> QED BY <3>1 DEF DoneOK, Worked
  <2>3. CASE UNCHANGED <<job, worker, staged, setups, running>>
    BY <2>3 DEF DoneOK
  <2>4. ASSUME NEW o \in Ops, AppInstall(c, o) PROVE UNCHANGED <<job, worker, staged, setups, running>>
    BY <2>4 DEF AppInstall, jobs
  <2>5. CASE CallDies(c)
    BY <2>3, <2>5 DEF CallDies, jobs
  <2>6. CASE Software(c)
    BY <2>3, <2>6 DEF Software, SoftwareState, SoftwarePin, SoftwareActivate, Begin, Pend, Switch,
       ReadRegistry, RegisterPortable, SavePolicy, jobs
  <2> QED BY <1>1, <2>1, <2>2, <2>3, <2>4, <2>5, <2>6 DEF Calling
<1>2. CASE \E w \in Workers : Work(w) \/ GivesUp(w) \/ RegisterFails(w) \/ WorkerDies(w)
  BY <1>2, WorkDone
<1>3. CASE Reboot
  BY <1>3 DEF Reboot, DoneOK, Gone, Worked
<1>4. CASE Elsewhere
  BY <1>4, ElsewhereFacts DEF DoneOK
<1> QED BY <1>1, <1>2, <1>3, <1>4 DEF Next, Calling, Elsewhere

-----------------------------------------------------------------------------
(* The theorems.                                                            *)

\* However calls overlap, die and are repeated: what a call is about, what is
\* registered, and that the link names a version which is staged whole.
THEOREM CoreHolds == Spec => []Core
<1> QED BY InitAll, NextCore, PTL DEF Spec

\* Every variable keeps its type.
THEOREM TypeCorrect == Spec => []TypeOK
BY CoreHolds, PTL DEF Core

\* Nothing is set up twice as long as no two calls accept the same operation:
\* not by a repeated call, a second worker or after a reboot.
THEOREM SetUpAtMostOnce == Spec /\ []NoTwins => []SetupOnce
<1>1. Init => OnceOK
  BY InitAll
<1>2. Core /\ OnceOK /\ NoTwins /\ NoTwins' /\ [Next]_vars => OnceOK'
  BY NextOnce
<1>3. OnceOK => SetupOnce
  BY DEF OnceOK
<1> QED BY <1>1, <1>2, <1>3, CoreHolds, PTL DEF Spec

\* The policy knows the active version, whenever an activation or a worker
\* died, as long as one call at a time handles the program; installations may
\* overlap it.
THEOREM ActivationKnown == Spec /\ []OneSoftware => []ActivationIsKnown
<1>1. Init => KnownOK
  BY InitAll
<1>2. Core /\ KnownOK /\ OneSoftware /\ OneSoftware' /\ [Next]_vars => KnownOK'
  BY NextKnown
<1>3. Core /\ KnownOK => ActivationIsKnown
  BY DEF Core, LinkIsStaged, KnownOK, Right, ActivationIsKnown
<1> QED BY <1>1, <1>2, <1>3, CoreHolds, PTL DEF Spec

\* The workers of a guest take turns: one at most is past the lease, and a
\* worker that ended, however it did, leaves the lease to the next.  Of two
\* installers that run at once one was left behind by its worker, which died
\* or gave it up at its deadline.
THEOREM InstallersTakeTurns ==
  Spec => [](/\ \A w, v \in Workers : Holding(w) /\ Holding(v) => w = v
             /\ lease # NoWorker => worker[lease].at # "gone"
             /\ \A w, v \in running : w # v => LeftBehind(w) \/ LeftBehind(v))
<1> DEFINE Turns == /\ \A w, v \in Workers : Holding(w) /\ Holding(v) => w = v
                    /\ lease # NoWorker => worker[lease].at # "gone"
                    /\ \A w, v \in running : w # v => LeftBehind(w) \/ LeftBehind(v)
<1>1. Init => TurnsOK /\ RunningOK
  BY InitTurns DEF Init, RunningOK, Accepting, Idle
<1>2. Core /\ TurnsOK /\ RunningOK /\ [Next]_vars => TurnsOK' /\ RunningOK'
  BY NextTurns, NextRunning
<1>3. Core /\ TurnsOK /\ RunningOK => Turns
  <2> SUFFICES ASSUME Core, TurnsOK, RunningOK PROVE Turns OBVIOUS
  <2>1. \A w, v \in Workers : Holding(w) /\ Holding(v) => w = v
    BY DEF TurnsOK, LeaseOK
  <2>2. lease # NoWorker => worker[lease].at # "gone"
    BY DEF Core, TypeOK, TurnsOK, LeaseOK, Holding
  <2>3. \A w, v \in running : w # v => LeftBehind(w) \/ LeftBehind(v)
    BY <2>1 DEF Core, TypeOK, RunningOK, Holding
  <2> QED BY <2>1, <2>2, <2>3
<1> QED BY <1>1, <1>2, <1>3, CoreHolds, PTL DEF Spec

\* No registered app is lost from apps.json, as long as no setup is registered
\* while an activation is: each writes back all it has read.
THEOREM RegistryKept == Spec /\ []Unmixed => [][apps \subseteq apps']_vars
<1>1. Init => TurnsOK /\ RegistryOK
  BY InitTurns
<1>2. Core /\ TurnsOK /\ [Next]_vars => TurnsOK'
  BY NextTurns
<1>3. Core /\ TurnsOK /\ RegistryOK /\ Unmixed /\ [Next]_vars => RegistryOK' /\ [apps \subseteq apps']_vars
  BY NextRegistry
<1> QED BY <1>1, <1>2, <1>3, CoreHolds, PTL DEF Spec

\* An installation that is reported completed was carried out, and a version
\* that is can be activated, whoever reported it and whatever overlapped it.
THEOREM CompletedIsDone ==
  Spec => [](\A o \in Ops : job[o] = "completed" =>
               setups[o] # 0 /\ (o \in Versions => staged[o] = "whole"))
<1>1. Init => DoneOK
  BY DEF Init, DoneOK, Gone, Worked
<1>2. Core /\ DoneOK /\ [Next]_vars => DoneOK'
  BY NextDone
<1>3. DoneOK => \A o \in Ops : job[o] = "completed" =>
                  setups[o] # 0 /\ (o \in Versions => staged[o] = "whole")
  BY DEF DoneOK
<1> QED BY <1>1, <1>2, <1>3, CoreHolds, PTL DEF Spec
=============================================================================
