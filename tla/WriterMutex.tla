---------------------------- MODULE WriterMutex ----------------------------
(***************************************************************************)
(* What the repository writer lock promises to the operations that run     *)
(* under it (create_full_backup, create_incremental_backup, compact_chain, *)
(* prune, delete_snapshot): at most one of them is between its acquire and *)
(* the end of its release.  This is the abstract specification that        *)
(* RepositoryLock implements and that SnapshotRepository builds on.        *)
(***************************************************************************)
CONSTANT Writers      \* callers of the writer operations

VARIABLE holders      \* the writers whose acquire has returned Ok

Init == holders = {}

Acquire(w) == holders = {} /\ holders' = {w}

\* The writer releases the lock, or dies: either way it no longer writes.
Leave(w) == w \in holders /\ holders' = holders \ {w}

Next == \E w \in Writers : Acquire(w) \/ Leave(w)

Spec == Init /\ [][Next]_holders
=============================================================================
