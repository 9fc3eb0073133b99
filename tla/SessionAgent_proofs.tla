------------------------- MODULE SessionAgent_proofs -------------------------
(***************************************************************************)
(* Proofs about SessionAgent for any components, agents and boots.         *)
(***************************************************************************)
EXTENDS SessionAgent, TLAPS

-----------------------------------------------------------------------------
(* The inductive invariant: what the files, the lock and the place of an    *)
(* agent say about the restoration of the boot.                             *)

\* The agent that is not off holds the lock, so there is one at most.
Holder == \A a \in Agents : agent[a].at # "off" => lock = a

\* There is a session to launch, and there will be.
Loaded == \A a \in Agents :
  agent[a].at = "launch" \/ (agent[a].at = "wait" /\ agent[a].previous # NoSession)
    => manifest # NoSession

\* The files name no boot that has not come yet, in which nothing was launched.
Dated ==
  /\ status.restored <= boot /\ \A a \in Agents : agent[a].prior.restored <= boot
  /\ \A b \in Boots : b > boot => launched[b] = 0

\* Before it launches an agent knows that none did, and says that it will.
Unspent == \A a \in Agents :
  /\ agent[a].at \in {"wait", "launch"} => launched[boot] = 0
  /\ agent[a].at = "launch" => status.submitted = boot

\* What was launched is on record, and in the record an agent writes back.
Spent == launched[boot] > 0 =>
  /\ status.submitted = boot
  /\ \A a \in Agents : agent[a].at = "publish" => agent[a].prior.submitted = boot

\* Who calls the boot restored is right.
Known ==
  /\ status.restored = boot => boot \in restored
  /\ tool = "confirm" => boot \in restored
  /\ \A a \in Agents : agent[a].at = "confirm" => boot \in restored

Progress == Holder /\ Loaded /\ Dated /\ Unspent /\ Spent /\ Known /\ RestoredOnce /\ ObservesAfterRestore

IInv == TypeOK /\ Progress
-----------------------------------------------------------------------------

\* Initially nothing was saved or launched.
LEMMA InitIInv == Init => IInv
<1> SUFFICES ASSUME Init PROVE IInv OBVIOUS
<1> USE BoundsAssumption DEF Init
<1>1. Off \in AgentStates
  BY DEF Off, AgentStates, Places, Manifests, NoStatus, Statuses
<1>2. NoStatus \in Statuses /\ 1 \in Boots /\ launched \in [Boots -> Nat]
  BY DEF NoStatus, Statuses, Boots
<1>3. TypeOK
  BY <1>1, <1>2 DEF TypeOK, Manifests, Units
<1>4. Progress
  BY AgentsAssumption DEF Progress, Holder, Loaded, Dated, Unspent, Spent, Known, RestoredOnce,
         ObservesAfterRestore, NoStatus, Off, Boots
<1> QED BY <1>3, <1>4 DEF IInv

\* What a restoration opens are components.
LEMMA ReopenType ==
  ASSUME TypeOK, manifest # NoSession, NEW done, Reopen(done)
  PROVE  desk' \in [Components -> Versions \cup {Down}] /\ restored' \subseteq Boots
BY DEF TypeOK, Reopen, Manifests

\* A process that has ended, or is put at a place.
LEMMA OffType == Off \in AgentStates /\ \A p \in Places : [Off EXCEPT !.at = p] \in AgentStates
BY BoundsAssumption DEF Off, AgentStates, Places, Manifests, NoStatus, Statuses

\* Steps of an agent to another place, and its end.
LEMMA GotoType ==
  ASSUME agent \in [Agents -> AgentStates], NEW a \in Agents, NEW p \in Places, Goto(a, p)
  PROVE  agent' \in [Agents -> AgentStates]
BY DEF Goto, AgentStates

LEMMA EndType ==
  ASSUME agent \in [Agents -> AgentStates], lock \in Agents \cup {"none"}, NEW a \in Agents, End(a)
  PROVE  agent' \in [Agents -> AgentStates] /\ lock' \in Agents \cup {"none"}
BY OffType DEF End

\* What an agent reads has a type.
LEMMA ReadType ==
  ASSUME agent \in [Agents -> AgentStates], manifest \in Manifests, NEW a \in Agents, NEW p \in Places,
         agent' = [agent EXCEPT ![a].at = p, ![a].previous = manifest]
  PROVE  agent' \in [Agents -> AgentStates]
BY DEF AgentStates

LEMMA SavedType ==
  ASSUME boot \in Boots, NEW a, NEW s \in {"submitted", "unknown", "restored"}, Saved(a, s)
  PROVE  status' \in Statuses
BY BoundsAssumption DEF Saved, Statuses, Boots

\* What an agent observed of the desktop is a session.
LEMMA ObservedType ==
  ASSUME TypeOK, NEW a \in Agents, Probe(a)
  PROVE  manifest' \in Manifests
<1>1. PICK seen \in SUBSET {c \in Components : desk[c] # Down} :
        manifest' = IF seen = {} THEN manifest
                    ELSE [c \in Components |-> IF c \in seen THEN desk[c]
                                               ELSE Kept(agent[a].previous, c)]
  BY DEF Probe
<1>2. agent[a].previous \in Manifests
  BY DEF TypeOK, AgentStates
<1>3. \A c \in Components : Kept(agent[a].previous, c) \in Versions
  BY <1>2, BoundsAssumption DEF Kept, Manifests, Versions
<1>4. \A c \in seen : desk[c] \in Versions
  BY <1>1 DEF TypeOK
<1> QED BY <1>1, <1>3, <1>4 DEF Manifests, TypeOK

\* Every step of an agent keeps the types.
LEMMA AgentTypes ==
  ASSUME IInv, NEW a \in Agents, Start(a) \/ Work(a) \/ Die(a)
  PROVE  TypeOK'
<1> USE GotoType, EndType, SavedType DEF IInv, TypeOK, files, past, Places, Units
<1>1. CASE Start(a)  BY <1>1 DEF Start
<1>2. CASE Check(a)
  <2>1. CASE RestoredNow BY <1>2, <2>1 DEF Check
  <2>2. CASE ~RestoredNow /\ status.submitted = boot BY <1>2, <2>2 DEF Check
  <2>3. CASE ~RestoredNow /\ status.submitted # boot
    <3>1. agent' = [agent EXCEPT ![a].at = "wait", ![a].previous = manifest]
      BY <1>2, <2>3 DEF Check
    <3> QED BY <1>2, <2>3, <3>1, ReadType DEF Check
  <2> QED BY <2>1, <2>2, <2>3
<1>3. CASE Submit(a)  BY <1>3 DEF Submit
<1>4. CASE Launch(a)
  <2>1. PICK done \in SUBSET Components :
          /\ Reopen(done)
          /\ Goto(a, IF done = Components THEN "confirm" ELSE "failed")
    BY <1>4 DEF Launch
  <2>2. manifest # NoSession
    BY <1>4 DEF Launch, At, Progress, Loaded
  <2>3. launched' \in [Boots -> Nat]
    BY <1>4 DEF Launch
  <2>4. desk' \in [Components -> Versions \cup {Down}] /\ restored' \subseteq Boots
    BY <2>1, <2>2, ReopenType
  <2>5. agent' \in [Agents -> AgentStates]
    BY <2>1
  <2> QED BY <1>4, <2>3, <2>4, <2>5 DEF Launch
<1>5. CASE Confirm(a) BY <1>5 DEF Confirm
<1>6. CASE Fail(a)    BY <1>6 DEF Fail
<1>7. CASE Record(a)  BY <1>7 DEF Record
<1>8. CASE ReadSession(a) BY <1>8, ReadType DEF ReadSession
<1>9. CASE Probe(a)
  <2>1. [at |-> "publish", previous |-> NoSession, prior |-> status] \in AgentStates
    BY DEF AgentStates, Places, Manifests
  <2> QED BY <1>9, <2>1, ObservedType DEF Probe
<1>10. CASE Publish(a)
  <2>1. agent[a].prior \in Statuses BY DEF AgentStates
  <2>2. [Off EXCEPT !.at = "loop"] \in AgentStates BY OffType
  <2> QED BY <1>10, <2>1, <2>2 DEF Publish
<1>11. CASE Die(a)     BY <1>11 DEF Die
<1> QED BY <1>1, <1>2, <1>3, <1>4, <1>5, <1>6, <1>7, <1>8, <1>9, <1>10, <1>11 DEF Work

\* Every step of an agent keeps what is known of the restoration.
LEMMA AgentProgress ==
  ASSUME IInv, NEW a \in Agents, Start(a) \/ Work(a) \/ Die(a)
  PROVE  Progress'
<1> USE BoundsAssumption, AgentsAssumption
    DEF IInv, Progress, TypeOK, Statuses, NoStatus, Off, Boots, Goto, End, At,
        Holder, Loaded, Dated, Unspent, Spent, Known, RestoredOnce, ObservesAfterRestore
<1>1. CASE Start(a)  BY <1>1 DEF Start, files, past
<1>2. CASE Check(a)
  <2>1. CASE RestoredNow
    <3>1. Goto(a, "loop") /\ UNCHANGED <<manifest, status, boot, lock, tool, launched, restored>>
      BY <1>2, <2>1 DEF Check, files, past
    <3>2. agent'[a].at = "loop" /\ agent'[a].prior = agent[a].prior
          /\ \A b \in Agents \ {a} : agent'[b] = agent[b]
      BY <3>1 DEF AgentStates
    <3>3. boot \in restored
      BY <2>1 DEF RestoredNow
    <3> QED BY <1>2, <3>1, <3>2, <3>3 DEF Check
  <2>2. CASE ~RestoredNow /\ status.submitted = boot
    <3>1. End(a) /\ UNCHANGED <<manifest, status, boot, tool, launched, restored>>
      BY <1>2, <2>2 DEF Check, files, past
    <3>2. agent'[a].at = "off" /\ agent'[a].prior.restored = 0
          /\ \A b \in Agents \ {a} : agent'[b] = agent[b]
      BY <3>1
    <3> QED BY <3>1, <3>2
  <2>3. CASE ~RestoredNow /\ status.submitted # boot
    <3>1. /\ agent' = [agent EXCEPT ![a].at = "wait", ![a].previous = manifest]
          /\ UNCHANGED <<manifest, status, boot, lock, tool, launched, restored>>
      BY <1>2, <2>3 DEF Check, files, past
    <3>2. launched[boot] = 0
      BY <2>3
    <3>3. agent'[a].at = "wait" /\ agent'[a].previous = manifest /\ agent'[a].prior = agent[a].prior
      BY <3>1 DEF AgentStates
    <3>4. \A b \in Agents \ {a} : agent'[b] = agent[b]
      BY <3>1
    <3> QED BY <1>2, <3>1, <3>2, <3>3, <3>4 DEF Check
  <2> QED BY <2>1, <2>2, <2>3
<1>3. CASE Submit(a) BY <1>3 DEF Submit, Saved, past
<1>4. CASE Launch(a) BY <1>4 DEF Launch, files, Reopen
<1>5. CASE Confirm(a) BY <1>5 DEF Confirm, Saved, past
<1>6. CASE Fail(a)    BY <1>6 DEF Fail, Saved, past
<1>7. CASE Record(a)  BY <1>7 DEF Record, Saved
<1>8. CASE ReadSession(a) BY <1>8 DEF ReadSession, files, past
<1>9. CASE Probe(a)    BY <1>9 DEF Probe, past
<1>10. CASE Publish(a) BY <1>10 DEF Publish, past
<1>11. CASE Die(a)     BY <1>11 DEF Die, files, past
<1> QED BY <1>1, <1>2, <1>3, <1>4, <1>5, <1>6, <1>7, <1>8, <1>9, <1>10, <1>11 DEF Work

\* Every step of a tool keeps the invariant.
LEMMA ToolIInv ==
  ASSUME IInv, SessionSave \/ SessionRestore \/ SessionConfirm \/ Enable \/ Polled \/ Reply \/ Disable
  PROVE  IInv'
<1> USE BoundsAssumption, AgentsAssumption, NoSessionAssumption
    DEF IInv, TypeOK, Progress, Holder, Loaded, Dated, Unspent, Spent, Known, RestoredOnce,
        ObservesAfterRestore, Boots, Units
<1>1. CASE SessionSave
  <2>1. manifest' \in [Components -> Versions]
    BY <1>1 DEF SessionSave, Versions
  <2>2. UNCHANGED <<status, unit, boot, desk, lock, agent, tool, past>>
    BY <1>1 DEF SessionSave
  <2> QED BY <2>1, <2>2 DEF past, Manifests, Versions
<1>2. CASE SessionRestore
  <2>1. PICK done \in SUBSET Components :
          Reopen(done) /\ tool' = IF done = Components THEN "confirm" ELSE "idle"
    BY <1>2 DEF SessionRestore
  <2>2. desk' \in [Components -> Versions \cup {Down}] /\ restored' \subseteq Boots
    BY <1>2, <2>1, ReopenType DEF SessionRestore
  <2>3. UNCHANGED <<manifest, status, unit, boot, lock, agent, launched>>
    BY <1>2 DEF SessionRestore, files
  <2> QED BY <2>1, <2>2, <2>3 DEF Reopen
<1>3. CASE SessionConfirm BY <1>3 DEF SessionConfirm, Statuses, past
<1>4. CASE Enable
  <2>1. [Off EXCEPT !.at = "start"] \in AgentStates
    BY OffType DEF Places
  <2>2. [Off EXCEPT !.at = "start"].at = "start" /\ [Off EXCEPT !.at = "start"].prior.restored = 0
    BY DEF Off, NoStatus
  <2>3. UNCHANGED <<manifest, status, boot, desk, launched, restored>> /\ tool # "confirm"
    BY <1>4 DEF Enable, past
  <2>4. CASE lock \in {"none", "service"}
    <3>1. /\ agent' = [agent EXCEPT !["service"] = [Off EXCEPT !.at = "start"]]
          /\ lock' = "service" /\ unit' = "active" /\ tool' = "poll"
      BY <1>4, <2>4 DEF Enable
    <3>2. TypeOK'
      BY <2>1, <2>3, <3>1
    <3>3. agent'["service"].at = "start" /\ agent'["service"].prior.restored = 0
          /\ \A b \in Agents \ {"service"} : agent'[b] = agent[b] /\ agent'[b].at = "off"
      BY <2>2, <2>4, <3>1
    <3> QED BY <2>3, <3>1, <3>2, <3>3
  <2>5. CASE lock \notin {"none", "service"}
    BY <1>4, <2>3, <2>5 DEF Enable
  <2> QED BY <2>4, <2>5
<1>5. CASE Polled  BY <1>5 DEF Polled, files, past
<1>6. CASE Reply   BY <1>6 DEF Reply, files, past
<1>7. CASE Disable
  <2>1. Off.at = "off" /\ Off.prior.restored = 0
    BY DEF Off, NoStatus
  <2>2. agent' = [agent EXCEPT !["service"] = Off]
        /\ lock' = (IF lock = "service" THEN "none" ELSE lock)
        /\ UNCHANGED <<manifest, status, boot, desk, tool, launched, restored>> /\ unit' = "disabled"
    BY <1>7 DEF Disable, End, past
  <2>3. TypeOK'
    BY <2>2, OffType
  <2>4. agent'["service"].at = "off" /\ agent'["service"].prior.restored = 0
        /\ \A b \in Agents \ {"service"} : agent'[b] = agent[b]
    BY <2>1, <2>2
  <2> QED BY <2>2, <2>3, <2>4
<1> QED BY <1>1, <1>2, <1>3, <1>4, <1>5, <1>6, <1>7

\* A service that is turned away leaves everything else as it is.
LEMMA TurnedAwayIInv == ASSUME IInv, TurnedAway PROVE IInv'
BY DEF TurnedAway, past, IInv, TypeOK, Units, Progress, Holder, Loaded, Dated, Unspent, Spent,
       Known, RestoredOnce, ObservesAfterRestore

\* The desktop and a reboot, after which nothing was launched yet, keep it.
LEMMA GuestIInv ==
  ASSUME IInv, (\E c \in Components : Appear(c) \/ Vanish(c) \/ Edit(c)) \/ Reboot
  PROVE  IInv'
<1> USE BoundsAssumption DEF IInv, TypeOK
<1>1. CASE \E c \in Components : Appear(c) \/ Vanish(c) \/ Edit(c)
  <2>1. desk' \in [Components -> Versions \cup {Down}]
    BY <1>1 DEF Appear, Vanish, Edit, Versions
  <2>2. UNCHANGED <<manifest, status, unit, boot, lock, agent, tool, launched, restored>>
    BY <1>1 DEF Appear, Vanish, Edit, files, past
  <2> QED
    BY <2>1, <2>2
    DEF Progress, Holder, Loaded, Dated, Unspent, Spent, Known, RestoredOnce, ObservesAfterRestore
<1>2. CASE Reboot
  <2>1. Off \in AgentStates /\ Off.at = "off" /\ Off.prior.restored = 0
    BY OffType DEF Off, NoStatus
  <2>2. agent' = [a \in Agents |-> Off] /\ tool' = "idle" /\ lock' = "none" /\ boot' = boot + 1
    BY <1>2 DEF Reboot
  <2>3. UNCHANGED <<manifest, status, launched, restored>> /\ boot' \in Boots /\ unit' \in Units
    BY <1>2 DEF Reboot, past, Boots, Units
  <2>4. status.restored <= boot /\ status.restored \in Nat /\ launched[boot'] = 0
    BY <2>2, <2>3 DEF Progress, Dated, Boots, Statuses
  <2>5. desk' \in [Components -> Versions \cup {Down}]
    BY <1>2 DEF Reboot
  <2>6. TypeOK'
    BY <2>1, <2>2, <2>3, <2>5
  <2>7. \A a \in Agents : agent'[a] = Off
    BY <2>2
  <2>8. Holder' /\ Loaded' /\ Unspent' /\ ObservesAfterRestore'
    BY <2>1, <2>7 DEF Holder, Loaded, Unspent, ObservesAfterRestore
  <2>9. boot \in Nat /\ boot' \in Nat /\ boot' > boot
    BY <2>2 DEF Boots
  <2>10. Dated'
    BY <2>1, <2>3, <2>4, <2>7, <2>9 DEF Progress, Dated, Boots
  <2>11. Spent' /\ Known' /\ RestoredOnce'
    BY <2>1, <2>2, <2>3, <2>4, <2>7, <2>9 DEF Progress, Spent, Known, RestoredOnce
  <2> QED BY <2>6, <2>8, <2>10, <2>11 DEF Progress
<1> QED BY <1>1, <1>2

\* The invariant holds in every reachable state.
THEOREM Inductive == Spec => []IInv
<1>1. IInv /\ [Next]_vars => IInv'
  <2> SUFFICES ASSUME IInv, [Next]_vars PROVE IInv' OBVIOUS
  <2>1. CASE \E a \in Agents : Start(a) \/ Work(a) \/ Die(a)
    BY <2>1, AgentTypes, AgentProgress DEF IInv
  <2>2. CASE SessionSave \/ SessionRestore \/ SessionConfirm \/ Enable \/ Polled \/ Reply \/ Disable
    BY <2>2, ToolIInv
  <2>3. CASE (\E c \in Components : Appear(c) \/ Vanish(c) \/ Edit(c)) \/ Reboot
    BY <2>3, GuestIInv
  <2>4. CASE TurnedAway
    BY <2>4, TurnedAwayIInv
  <2>5. CASE UNCHANGED vars
    BY <2>5 DEF vars, files, past, IInv, TypeOK, Progress, Holder, Loaded, Dated, Unspent, Spent,
                Known, RestoredOnce, ObservesAfterRestore
  <2> QED BY <2>1, <2>2, <2>3, <2>4, <2>5 DEF Next
<1> QED BY <1>1, InitIInv, PTL DEF Spec

\* Every variable keeps its type.
THEOREM TypeCorrect == Spec => []TypeOK
BY Inductive, PTL DEF IInv

\* In a boot the agents launch the saved session at most once.
THEOREM RestoredAtMostOnce == Spec => []RestoredOnce
BY Inductive, PTL DEF IInv, Progress

\* No agent observes a desktop whose session was not reopened in its boot.
THEOREM ObservedRestored == Spec => []ObservesAfterRestore
BY Inductive, PTL DEF IInv, Progress
=============================================================================
