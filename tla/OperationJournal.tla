-------------------------- MODULE OperationJournal --------------------------
(***************************************************************************)
(* What the Host API's journal promises the control plane about one        *)
(* machine, with no locks, calls or retries: commands open and complete    *)
(* one at a time, an operation id is used once and keeps its first result, *)
(* generations never fall, and a deleted machine only comes back as a new  *)
(* incarnation with a higher generation.                                   *)
(***************************************************************************)
EXTENDS Integers

CONSTANT Commands

VARIABLES outcome, generation, machine

journalVars == <<outcome, generation, machine>>

JournalInit ==
  /\ outcome = [c \in Commands |-> "none"]
  /\ generation = 0
  /\ machine = "none"

Open(c) ==
  /\ \A d \in Commands : outcome[d] # "open"
  /\ \A d \in Commands : d.verb = c.verb /\ d.id = c.id => outcome[d] = "none"
  /\ c.gen >= generation
  /\ IF c.verb = "create"
     THEN machine # "live" /\ (machine = "deleted" => c.gen > generation)
     ELSE machine = "live"
  /\ outcome' = [outcome EXCEPT ![c] = "open"]
  /\ generation' = c.gen
  /\ machine' = "live"

Complete(c) ==
  /\ outcome[c] = "open"
  /\ \E result \in {"ok", "refused"} :
       /\ outcome' = [outcome EXCEPT ![c] = result]
       /\ machine' = IF c.verb = "destroy" /\ result = "ok" THEN "deleted" ELSE machine
  /\ UNCHANGED generation

JournalNext == \E c \in Commands : Open(c) \/ Complete(c)

JournalSpec == JournalInit /\ [][JournalNext]_journalVars
=============================================================================
