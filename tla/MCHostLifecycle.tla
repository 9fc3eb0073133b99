-------------------------- MODULE MCHostLifecycle --------------------------
(* Small sets of commands for HostLifecycle. *)
EXTENDS HostLifecycle

Cmd(verb, id, gen, flag) == [verb |-> verb, id |-> id, gen |-> gen, flag |-> flag]

\* A fence against starts that are older, newer or abandoned, and a deletion.
FenceCommands ==
  {Cmd("create", "a", 1, FALSE), Cmd("start", "a", 1, FALSE), Cmd("fence", "a", 1, FALSE),
   Cmd("start", "b", 2, FALSE), Cmd("destroy", "a", 2, TRUE)}

\* Disk operations around a boot, a stop, fencing, deletion and return of the
\* machine, with an operation id that is used twice with different payloads.
MigrationCommands ==
  {Cmd("create", "a", 1, FALSE), Cmd("restore", "a", 1, TRUE), Cmd("start", "a", 1, FALSE),
   Cmd("force-stop", "a", 1, FALSE), Cmd("start", "b", 1, FALSE),
   Cmd("checkpoint", "a", 1, FALSE), Cmd("fence", "a", 1, FALSE), Cmd("start", "b", 2, FALSE),
   Cmd("destroy", "a", 2, TRUE), Cmd("create", "b", 3, TRUE), Cmd("create", "c", 3, TRUE)}

\* A return the control plane asks for with more memory than the host gives.
UnfitReturn == {Cmd("create", "c", 3, TRUE)}

\* A machine that can never be created, and the wish to be rid of it.
UnfitCommands == {Cmd("create", "a", 1, FALSE), Cmd("destroy", "a", 1, TRUE)}
UnfitCreate == {Cmd("create", "a", 1, FALSE)}
=============================================================================
