--------------------------- MODULE BackupCatalog ---------------------------
(***************************************************************************)
(* What a backup repository promises its user: a catalog of snapshots that *)
(* can be restored.  A snapshot enters it whole, in one step, on top of a  *)
(* parent that is in it; it keeps its content; and it leaves it only when  *)
(* prune or delete_snapshot retires it, never while a snapshot that builds *)
(* on it stays.  SnapshotRepository implements this call by call.          *)
(***************************************************************************)
EXTENDS Integers

CONSTANTS
  Ids,        \* snapshot ids
  NoParent,   \* the parent of a full snapshot
  Versions    \* states of the database

VARIABLES
  catalog,    \* restorable snapshots: their parent and the state they restore
  retired     \* snapshots that are being removed

Entry == [parent : Ids \union {NoParent}, at : Versions]

Init == catalog = [s \in {} |-> {}] /\ retired = {}

Publish(s, entry) ==
  /\ s \notin DOMAIN catalog
  /\ entry.parent \in DOMAIN catalog \union {NoParent}
  /\ retired' = retired \ {s}
  /\ catalog' = [x \in DOMAIN catalog \union {s} |-> IF x = s THEN entry ELSE catalog[x]]

Retire(S) ==
  /\ retired' = retired \union S
  /\ \A s \in DOMAIN catalog \ S : catalog[s].parent \notin S
  /\ catalog' = [s \in DOMAIN catalog \ S |-> catalog[s]]

\* The last trace of a retired snapshot is gone.
Forget(s) ==
  /\ s \in retired
  /\ retired' = retired \ {s}
  /\ UNCHANGED catalog

Next ==
  \/ \E s \in Ids \ DOMAIN catalog, entry \in Entry : Publish(s, entry)
  \/ \E S \in SUBSET Ids : Retire(S)
  \/ \E s \in Ids : Forget(s)

Spec == Init /\ [][Next]_<<catalog, retired>>
=============================================================================
