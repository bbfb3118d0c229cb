--------------------------- MODULE RestoreTarget ---------------------------
(***************************************************************************)
(* OrmBackupAdapter::clear_restore_target of src/orm.rs: the target of a     *)
(* restore is emptied before another attempt.  On SQLite this takes a        *)
(* connection of the pool, on which it switches foreign keys off for a       *)
(* transaction that deletes table by table, and on again.  Every call may    *)
(* fail, and the caller may drop the future at any await.                    *)
(***************************************************************************)
EXTENDS Integers, Sequences

CONSTANTS
  Rows,        \* primary keys; each is the row of a table of its own
  ClearOrder,  \* the tables, by descending restore_order
  Connections, \* what the pool can hold
  Backends     \* "sqlite" or "postgres", as the application is built

ASSUME ClearAssumption ==
  /\ ClearOrder \in Seq(Rows)
  /\ \A row \in Rows : \E i \in DOMAIN ClearOrder : ClearOrder[i] = row
  /\ Backends \subseteq {"sqlite", "postgres"}

VARIABLES
  target,    \* rows of the target database
  pooled,    \* connections that are idle in the pool
  lent,      \* the connection that is taken out, as a set
  enforcing, \* connections with PRAGMA foreign_keys = ON
  clearing,  \* where clear_restore_target is
  deleted,   \* tables deleted in the open transaction
  dropped    \* a future was dropped half way (a history variable)

clearVars == <<target, pooled, lent, enforcing, clearing, deleted, dropped>>

ClearTypeOK ==
  /\ target \subseteq Rows
  /\ pooled \subseteq Connections /\ lent \subseteq Connections
  /\ pooled \intersect lent = {}
  /\ enforcing \subseteq Connections
  /\ clearing \in {"no", "acquired", "suspended", "deleting", "deleted"}
  /\ deleted \in 0..Len(ClearOrder)
  /\ dropped \in BOOLEAN

ClearInit ==
  /\ target = {}
  /\ pooled = Connections
  /\ lent = {}
  /\ enforcing = Connections
  /\ clearing = "no"
  /\ deleted = 0
  /\ dropped = FALSE

-----------------------------------------------------------------------------
\* The pool opens a connection where it has room; a new one enforces keys.
OpenConnection(c) ==
  /\ c \notin pooled \union lent
  /\ pooled' = pooled \union {c}
  /\ enforcing' = enforcing \union {c}
  /\ UNCHANGED <<target, lent, clearing, deleted, dropped>>

\* The PoolConnection goes out of scope; an open transaction is rolled back.
GiveBack ==
  /\ pooled' = pooled \union lent
  /\ lent' = {}
  /\ clearing' = "no"
  /\ deleted' = 0

\* PostgreSQL: one TRUNCATE of all the tables.
Truncate ==
  /\ "postgres" \in Backends /\ clearing = "no"
  /\ target' = {}
  /\ UNCHANGED <<pooled, lent, enforcing, clearing, deleted, dropped>>

\* pool().acquire()
Acquire(c) ==
  /\ "sqlite" \in Backends /\ clearing = "no" /\ c \in pooled
  /\ pooled' = pooled \ {c}
  /\ lent' = {c}
  /\ clearing' = "acquired"
  /\ UNCHANGED <<target, enforcing, deleted, dropped>>

\* PRAGMA foreign_keys = OFF, or its failure, which ends the call
SuspendKeys ==
  /\ clearing = "acquired"
  /\ \/ /\ enforcing' = enforcing \ lent
        /\ clearing' = "suspended"
        /\ UNCHANGED <<target, pooled, lent, deleted, dropped>>
     \/ GiveBack /\ UNCHANGED <<target, enforcing, dropped>>

BeginTransaction ==
  /\ clearing = "suspended"
  /\ clearing' \in {"deleting", "deleted"}
  /\ UNCHANGED <<target, pooled, lent, enforcing, deleted, dropped>>

\* MUTANT of DeleteTable: each table is committed on its own.
DeleteTableNow ==
  /\ clearing = "deleting" /\ deleted < Len(ClearOrder)
  /\ \/ /\ deleted' = deleted + 1
        /\ target' = target \ {ClearOrder[deleted + 1]}
        /\ UNCHANGED clearing
     \/ clearing' = "deleted" /\ deleted' = 0 /\ UNCHANGED target
  /\ UNCHANGED <<pooled, lent, enforcing, dropped>>

\* DELETE FROM the next table; when it fails the transaction is rolled back.
DeleteTable ==
  /\ clearing = "deleting" /\ deleted < Len(ClearOrder)
  /\ \/ deleted' = deleted + 1 /\ UNCHANGED clearing
     \/ clearing' = "deleted" /\ deleted' = 0
  /\ UNCHANGED <<target, pooled, lent, enforcing, dropped>>

CommitDeletes ==
  /\ clearing = "deleting" /\ deleted = Len(ClearOrder)
  /\ \/ target' = target \ {ClearOrder[i] : i \in 1..deleted}
     \/ UNCHANGED target
  /\ clearing' = "deleted"
  /\ deleted' = 0
  /\ UNCHANGED <<pooled, lent, enforcing, dropped>>

\* MUTANT of ResumeKeys: the connection goes back to the pool in any case.
ResumeKeysOrNot ==
  /\ clearing = "deleted"
  /\ enforcing' \in {enforcing, enforcing \union lent}
  /\ GiveBack
  /\ UNCHANGED <<target, dropped>>

\* PRAGMA foreign_keys = ON, whether the deletes went well or not.  Where it
\* fails the connection is detached from the pool and closed.
ResumeKeys ==
  /\ clearing = "deleted"
  /\ \/ enforcing' = enforcing \union lent /\ GiveBack
     \/ /\ lent' = {}
        /\ clearing' = "no"
        /\ UNCHANGED <<pooled, enforcing, deleted, dropped>>
  /\ UNCHANGED <<target, dropped>>

\* The future is dropped: no statement after the current await is run.
DropClear ==
  /\ clearing # "no"
  /\ GiveBack
  /\ dropped' = (dropped \/ clearing # "acquired")
  /\ UNCHANGED <<target, enforcing>>

Clear ==
  \/ Truncate
  \/ \E c \in Connections : Acquire(c) \/ OpenConnection(c)
  \/ SuspendKeys \/ BeginTransaction \/ DeleteTable \/ CommitDeletes \/ ResumeKeys
  \/ DropClear

-----------------------------------------------------------------------------
\* Whichever statement of a clear fails, what the application and the restores
\* take from the pool enforces foreign keys, as long as every clear is awaited.
PoolEnforcesForeignKeys == ~dropped => pooled \subseteq enforcing

\* "Never return a connection with foreign keys disabled to the pool."
NeverPooledWithoutKeys == pooled \subseteq enforcing
=============================================================================
