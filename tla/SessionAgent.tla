---------------------------- MODULE SessionAgent ----------------------------
(***************************************************************************)
(* The autosave service of a guest's desktop session                       *)
(* (src/runtime/session_agent.py) and the tools that share its files       *)
(* (sessions and session_autosave in src/runtime/guest_tools.py).          *)
(*                                                                         *)
(* In each boot the agent reopens the saved session once, and then saves   *)
(* what is on the screen at every interval.  A tool call may save, restore *)
(* or restart the service at any time; agents may die at every step.       *)
(*                                                                         *)
(* Abstractions.  A component of the desktop is what a probe can read: its *)
(* content is a version, 0 if nothing is open, Down if it cannot be read.  *)
(* Registered apps are part of what a restoration reopens.  Files that are *)
(* malformed, too large or not private stop the agent, like any error.  A  *)
(* restoration reopens what it can in one step, a probe reads in one step. *)
(* Tools of a computer run one after another (tool-locks.js).              *)
(***************************************************************************)
EXTENDS Naturals, FiniteSets

CONSTANTS
  Components, \* of the desktop, "windows" for the display among them
  Agents,     \* processes that run the agent: "service", or more of them
  MaxBoot,    \* bound on the guest's boots
  MaxEdit,    \* bound on the versions of a component
  Down,       \* a component that cannot be probed
  NoSession   \* the session file does not exist

ASSUME ComponentsAssumption == "windows" \in Components
ASSUME AgentsAssumption == "service" \in Agents /\ "none" \notin Agents
ASSUME BoundsAssumption == MaxBoot \in Nat \ {0} /\ MaxEdit \in Nat /\ Down \notin 0 .. MaxEdit
ASSUME NoSessionAssumption == NoSession \notin [Components -> 0 .. MaxEdit]

VARIABLES
  manifest, \* session.json
  status,   \* session-agent-status.json
  unit,     \* what systemd does with the user service
  boot,     \* the guest's kernel boot
  desk,     \* what is on the screen
  lock,     \* session-agent.lock
  agent,    \* the agents' places and what they have read
  tool,     \* the tool call under way
  launched, \* history: restorations the agents launched in a boot
  restored  \* history: the boots whose session was reopened without error

files == <<manifest, status, unit>>
past  == <<launched, restored>>
vars  == <<files, boot, desk, lock, agent, tool, past>>

Boots == 1 .. MaxBoot
Versions == 0 .. MaxEdit
Manifests == {NoSession} \cup [Components -> Versions]
Statuses == [state : {"none", "submitted", "unknown", "restored"},
             submitted : 0 .. MaxBoot, restored : 0 .. MaxBoot]
NoStatus == [state |-> "none", submitted |-> 0, restored |-> 0]

\* Not enabled; started with the boot and again after a failure; or enabled, but
\* its process returned 0, which Restart=on-failure leaves at that.
Units == {"disabled", "active", "returned"}

\* What an agent has read: the saved session, and the status it will write back.
Places == {"off", "start", "wait", "launch", "confirm", "failed", "record", "loop", "probe", "publish"}
AgentStates == [at : Places, previous : Manifests, prior : Statuses]
Off == [at |-> "off", previous |-> NoSession, prior |-> NoStatus]

TypeOK ==
  /\ manifest \in Manifests /\ status \in Statuses /\ unit \in Units
  /\ boot \in Boots
  /\ desk \in [Components -> Versions \cup {Down}]
  /\ lock \in Agents \cup {"none"}
  /\ agent \in [Agents -> AgentStates]
  /\ tool \in {"idle", "confirm", "poll", "confirmed"}
  /\ launched \in [Boots -> Nat] /\ restored \subseteq Boots

Init ==
  /\ manifest = NoSession /\ status = NoStatus /\ unit = "disabled"
  /\ boot = 1 /\ desk = [c \in Components |-> Down]
  /\ lock = "none" /\ agent = [a \in Agents |-> Off] /\ tool = "idle"
  /\ launched = [b \in Boots |-> 0] /\ restored = {}
-----------------------------------------------------------------------------
(* The agent: run(restore=True).                                            *)

At(a, at) == agent[a].at = at
Goto(a, at) == agent' = [agent EXCEPT ![a].at = at]

\* A process that ends leaves its lock.
End(a) ==
  /\ agent' = [agent EXCEPT ![a] = Off]
  /\ lock' = IF lock = a THEN "none" ELSE lock

\* systemd starts the service, who likes an agent of his own.
Wanted(a) == a = "service" => unit = "active"

\* Faulty variant of Start: no lock.
StartUnlocked(a) ==
  /\ Wanted(a) /\ At(a, "off")
  /\ Goto(a, "start") /\ lock' = a
  /\ UNCHANGED <<files, boot, desk, tool, past>>

Start(a) ==
  /\ Wanted(a) /\ At(a, "off") /\ lock = "none"
  /\ Goto(a, "start") /\ lock' = a
  /\ UNCHANGED <<files, boot, desk, tool, past>>

\* An agent that finds the lock taken returns 0: the service is over for this boot.
TurnedAway ==
  /\ unit = "active" /\ At("service", "off") /\ lock # "none"
  /\ unit' = "returned"
  /\ UNCHANGED <<manifest, status, boot, desk, lock, agent, tool, past>>

\* Faulty variant of RestoredNow: the boot is not compared.
RestoredEver == status.state = "restored"

RestoredNow == status.restored = boot

DesktopReady == desk["windows"] # Down

\* Faulty variant of Check: the two tests are swapped.
CheckSubmittedFirst(a) ==
  /\ At(a, "start")
  /\ IF status.submitted = boot THEN End(a)
     ELSE /\ agent' = [agent EXCEPT ![a].at = "wait", ![a].previous = manifest]
          /\ UNCHANGED lock
  /\ UNCHANGED <<files, boot, desk, tool, past>>

\* restore_first: done in this boot, of unknown outcome in this boot, or due.
Check(a) ==
  /\ At(a, "start")
  /\ IF RestoredNow THEN Goto(a, "loop") /\ UNCHANGED lock
     ELSE IF status.submitted = boot THEN End(a)
     ELSE /\ agent' = [agent EXCEPT ![a].at = "wait", ![a].previous = manifest]
          /\ UNCHANGED lock
  /\ UNCHANGED <<files, boot, desk, tool, past>>

Saved(a, state) ==
  status' = [state |-> state, submitted |-> boot, restored |-> IF state = "restored" THEN boot ELSE 0]

\* The fence is durable before anything is launched.
Submit(a) ==
  /\ At(a, "wait") /\ DesktopReady
  /\ Saved(a, "submitted")
  /\ Goto(a, IF agent[a].previous = NoSession THEN "record" ELSE "launch")
  /\ UNCHANGED <<manifest, unit, boot, desk, lock, tool, past>>

\* session_restore reopens the components it can; those that are lacking are errors.
Reopen(done) ==
  /\ done \subseteq {c \in Components : c # "windows" \/ desk[c] # Down}
  /\ desk' = [c \in Components |->
                IF c \in done /\ manifest[c] # 0 THEN manifest[c] ELSE desk[c]]
  /\ restored' = IF done = Components THEN restored \cup {boot} ELSE restored

Launch(a) == \E done \in SUBSET Components :
  /\ At(a, "launch")
  /\ Reopen(done)
  /\ launched' = [launched EXCEPT ![boot] = @ + 1]
  /\ Goto(a, IF done = Components THEN "confirm" ELSE "failed")
  /\ UNCHANGED <<files, boot, lock, tool>>

\* session_restore saves its own confirmation.
Confirm(a) ==
  /\ At(a, "confirm")
  /\ Saved(a, "restored") /\ Goto(a, "record")
  /\ UNCHANGED <<manifest, unit, boot, desk, lock, tool, past>>

\* Faulty variant of Fail: another state than the status file has.
FailAloud(a) ==
  /\ At(a, "failed")
  /\ Saved(a, "failed") /\ End(a)
  /\ UNCHANGED <<manifest, unit, boot, desk, tool, past>>

Fail(a) ==
  /\ At(a, "failed")
  /\ Saved(a, "unknown") /\ End(a)
  /\ UNCHANGED <<manifest, unit, boot, desk, tool, past>>

\* A boot without a saved session has nothing to reopen.
Record(a) ==
  /\ At(a, "record")
  /\ Saved(a, "restored") /\ Goto(a, "loop")
  /\ restored' = restored \cup {boot}
  /\ UNCHANGED <<manifest, unit, boot, desk, lock, tool, launched>>

\* capture reads the session, ...
ReadSession(a) ==
  /\ At(a, "loop")
  /\ agent' = [agent EXCEPT ![a].at = "probe", ![a].previous = manifest]
  /\ UNCHANGED <<files, boot, desk, lock, tool, past>>

\* ... replaces the components it could probe, if any, and reads the status ...
Kept(m, c) == IF m = NoSession THEN 0 ELSE m[c]

Probe(a) == \E seen \in SUBSET {c \in Components : desk[c] # Down} :
  /\ At(a, "probe")
  /\ manifest' = IF seen = {} THEN manifest
                 ELSE [c \in Components |-> IF c \in seen THEN desk[c] ELSE Kept(agent[a].previous, c)]
  /\ agent' = [agent EXCEPT ![a] = [at |-> "publish", previous |-> NoSession, prior |-> status]]
  /\ UNCHANGED <<status, unit, boot, desk, lock, tool, past>>

\* ... whose marks of the restoration it writes back.
Publish(a) ==
  /\ At(a, "publish")
  /\ status' = agent[a].prior
  /\ agent' = [agent EXCEPT ![a] = [Off EXCEPT !.at = "loop"]]
  /\ UNCHANGED <<manifest, unit, boot, desk, lock, tool, past>>

\* Killed, or an error, or no desktop within 120 s.
Die(a) ==
  /\ ~At(a, "off") /\ End(a)
  /\ UNCHANGED <<files, boot, desk, tool, past>>

Work(a) == \/ Check(a) \/ Submit(a) \/ Launch(a) \/ Confirm(a) \/ Fail(a) \/ Record(a)
           \/ ReadSession(a) \/ Probe(a) \/ Publish(a)
-----------------------------------------------------------------------------
(* Tools.                                                                   *)

\* session_save: what cannot be read is saved as empty.
SessionSave ==
  /\ tool = "idle"
  /\ manifest' = [c \in Components |-> IF desk[c] = Down THEN 0 ELSE desk[c]]
  /\ UNCHANGED <<status, unit, boot, desk, lock, agent, tool, past>>

\* session_restore, whether or not the agent did.
SessionRestore == \E done \in SUBSET Components :
  /\ tool = "idle" /\ manifest # NoSession
  /\ Reopen(done)
  /\ tool' = IF done = Components THEN "confirm" ELSE "idle"
  /\ UNCHANGED <<files, boot, lock, agent, launched>>

SessionConfirm ==
  /\ tool = "confirm" /\ tool' = "idle"
  /\ status' = [state |-> "restored", submitted |-> boot, restored |-> boot]
  /\ UNCHANGED <<manifest, unit, boot, desk, lock, agent, past>>

\* session_autosave {enabled: true} restarts the service.  Beside another agent
\* its process returns, before or after is-active has looked ...
Enable ==
  /\ tool = "idle" /\ DesktopReady
  /\ \/ /\ lock \in {"none", "service"}
        /\ agent' = [agent EXCEPT !["service"] = [Off EXCEPT !.at = "start"]]
        /\ lock' = "service" /\ unit' = "active" /\ tool' = "poll"
     \/ /\ lock \notin {"none", "service"}
        /\ unit' = "returned" /\ tool' \in {"idle", "poll"}
        /\ UNCHANGED <<agent, lock>>
  /\ UNCHANGED <<manifest, status, boot, desk, past>>

\* ... and waits up to 5 s for the status to say that the session is restored.
Polled ==
  /\ tool = "poll"
  /\ tool' = IF status.state = "restored" THEN "confirmed" ELSE "idle"
  /\ UNCHANGED <<files, boot, desk, lock, agent, past>>

Reply ==
  /\ tool = "confirmed" /\ tool' = "idle"
  /\ UNCHANGED <<files, boot, desk, lock, agent, past>>

Disable ==
  /\ tool = "idle" /\ unit # "disabled"
  /\ unit' = "disabled" /\ End("service")
  /\ UNCHANGED <<manifest, status, boot, desk, tool, past>>
-----------------------------------------------------------------------------
(* The desktop and the guest.                                               *)

\* The display or the browser starts, ends, or is used.
Appear(c) == desk[c] = Down /\ desk' = [desk EXCEPT ![c] = 0] /\ UNCHANGED <<files, boot, lock, agent, tool, past>>
Vanish(c) == desk[c] # Down /\ desk' = [desk EXCEPT ![c] = Down] /\ UNCHANGED <<files, boot, lock, agent, tool, past>>
Edit(c) == \E v \in Versions \ {desk[c]} :
  desk[c] # Down /\ desk' = [desk EXCEPT ![c] = v] /\ UNCHANGED <<files, boot, lock, agent, tool, past>>

Reboot ==
  /\ boot < MaxBoot /\ boot' = boot + 1
  /\ desk' = [c \in Components |-> Down]
  /\ lock' = "none" /\ agent' = [a \in Agents |-> Off] /\ tool' = "idle"
  /\ unit' = IF unit = "disabled" THEN "disabled" ELSE "active"
  /\ UNCHANGED <<manifest, status, past>>
-----------------------------------------------------------------------------
Next ==
  \/ \E a \in Agents : Start(a) \/ Work(a) \/ Die(a)
  \/ TurnedAway
  \/ SessionSave \/ SessionRestore \/ SessionConfirm \/ Enable \/ Polled \/ Reply \/ Disable
  \/ \E c \in Components : Appear(c) \/ Vanish(c) \/ Edit(c)
  \/ Reboot

Spec == Init /\ [][Next]_vars
-----------------------------------------------------------------------------
(* Fairness.  systemd starts the service of the boot and after a failure,   *)
(* and no other agent; a process that runs goes on, its probes succeed in   *)
(* the end, and it is not killed or restarted for ever.                     *)

Missed(c) == desk[c] # Down /\ (manifest' = NoSession \/ manifest'[c] # desk[c])

Fault == Enable \/ \E a \in Agents : (Die(a) /\ ~Check(a)) \/ (Probe(a) /\ \E c \in Components : Missed(c))

Fairness ==
  /\ WF_vars(Start("service") \/ TurnedAway)
  /\ \A a \in Agents : WF_vars(Work(a))
  /\ <>[][~Fault]_vars

FairSpec == Spec /\ Fairness
-----------------------------------------------------------------------------
(* Properties.                                                              *)

\* In one boot the agents launch the saved session at most once, however often
\* they die and whatever became of it.
RestoredOnce == \A b \in Boots : launched[b] <= 1

\* Before the session of this boot was reopened no agent observes it: the saved
\* session is not replaced by the desktop of a boot that has not got it back.
ObservesAfterRestore == \A a \in Agents : agent[a].at \in {"loop", "probe", "publish"} => boot \in restored

\* While systemd keeps the service, or another agent holds its place, and the
\* session of the boot is known to be restored, what is on the screen is saved
\* again and again.  An enabled service that met another agent saves nothing
\* once that agent is gone (session_agent.py:198, guest_tools.py:1135).
SavesTheDesktop ==
  <>[](/\ unit = "active" \/ lock # "none"
       /\ status.restored = boot /\ \A c \in Components : desk[c] # Down)
    => []<>(manifest = desk)
=============================================================================
