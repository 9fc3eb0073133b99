-------------------------- MODULE MCNativeStorage --------------------------
(* Small sets of operations for NativeStorage. *)
EXTENDS NativeStorage

Do(verb, id, snap, size) == [verb |-> verb, id |-> id, snap |-> snap, size |-> size]

\* A snapshot of the small disk survives a growth, is restored onto the grown
\* disk, deleted and taken again under the same name; one resize grows nothing.
GrowOperations ==
  {Do("snapshot", "a", "s", 0), Do("resize", "a", "none", 2), Do("restore", "a", "s", 0),
   Do("resize", "b", "none", 2), Do("snapshot-delete", "a", "s", 0), Do("snapshot", "b", "s", 0)}

=============================================================================
