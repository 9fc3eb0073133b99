------------------------------ MODULE ExecOnce ------------------------------
(***************************************************************************)
(* What a durable exec promises the control plane: the command starts at   *)
(* most once, a verdict is given once, only when no process of the command *)
(* is left and none will ever start, and "completed" means exit zero.      *)
(***************************************************************************)
VARIABLES
  life,    \* of the command: "new", "alive" or "over"
  exit,    \* how it ended: "none", "ok" or "bad"
  verdict  \* what was decided: "none", "completed" or "failed"

Init == life = "new" /\ exit = "none" /\ verdict = "none"

Start ==
  /\ life = "new" /\ verdict = "none"
  /\ life' = "alive"
  /\ UNCHANGED <<exit, verdict>>

End ==
  /\ life = "alive"
  /\ life' = "over" /\ exit' \in {"ok", "bad"}
  /\ UNCHANGED verdict

Decide ==
  /\ verdict = "none" /\ life # "alive"
  /\ verdict' \in {"completed", "failed"}
  /\ verdict' = "completed" => exit = "ok"
  /\ UNCHANGED <<life, exit>>

Next == Start \/ End \/ Decide

Spec == Init /\ [][Next]_<<life, exit, verdict>>
=============================================================================
