----------------------------- MODULE FullBackup -----------------------------
(***************************************************************************)
(* create_full_backup with plan_full_backup of src/planner.rs, over the     *)
(* OrmBackupAdapter and the OrmBackupObjectIndex of src/orm.rs.  The rows   *)
(* of all tables are read in one database snapshot, the rows of the object  *)
(* metadata table once more in a second one, and the bytes while they are   *)
(* put (ObjectWriter); the application goes on all the time.  Incremental   *)
(* backups, which other adapters offer, list whatever they find changed.    *)
(***************************************************************************)
EXTENDS ObjectWriter

VARIABLES
  app,      \* objects that have a row in the application's metadata table
  planning, \* export_full has returned, list_objects_for_full_backup has not
  rows,     \* objects that have a row in what export_full has returned
  removed   \* those the application has removed since (a history variable)

planVars == <<app, planning, rows, removed>>
allVars == <<vars, planVars>>

InList(l) == {l[i] : i \in DOMAIN l}

FullTypeOK ==
  /\ TypeOK
  /\ app \subseteq Objects
  /\ planning \in BOOLEAN /\ (planning => ~running)
  /\ rows \subseteq Objects /\ removed \subseteq Objects

FullInit ==
  /\ Init
  /\ app = {}
  /\ planning = FALSE
  /\ rows = {}
  /\ removed = {}

-----------------------------------------------------------------------------
\* The application adds and removes objects; the index lists them in a fixed
\* order, so that Lists also says which sets of objects there may be.
Application ==
  /\ app' \in {InList(l) : l \in Lists}
  /\ removed' = IF planning THEN removed \union (rows \ app') ELSE removed
  /\ UNCHANGED <<planning, rows, vars>>

\* schema_snapshot and export_full
ExportFull ==
  /\ ~running /\ ~planning
  /\ planning' = TRUE
  /\ rows' = app
  /\ removed' = {}
  /\ UNCHANGED <<app, vars>>

\* MUTANT of ListObjects: the two reads the other way round.
ListObjectsFirst ==
  /\ planning
  /\ Begin /\ InList(list') = rows
  /\ planning' = FALSE
  /\ rows' = app
  /\ UNCHANGED <<app, removed>>

\* list_objects_for_full_backup
ListObjects ==
  /\ planning
  /\ Begin /\ InList(list') = app
  /\ planning' = FALSE
  /\ UNCHANGED <<app, rows, removed>>

\* An export or the listing fails, or the future is dropped.
PlanFails ==
  /\ planning
  /\ planning' = FALSE
  /\ rows' = {} /\ removed' = {}
  /\ UNCHANGED <<app, vars>>

\* MUTANT of PlanIncremental: the lock is not taken.
PlanIncrementalUnlocked == Begin /\ UNCHANGED planVars

\* create_incremental_backup: changes and objects since the parent
PlanIncremental == ~planning /\ Begin /\ UNCHANGED planVars

\* The blobs of the backup, its end, and prunes, which wait for the lock.
WriteOrPrune ==
  /\ ~planning
  /\ Cancel \/ Finish \/ Prune \/ \E i \in Indexes : Poll(i)
  /\ IF running' THEN UNCHANGED <<rows, removed>> ELSE rows' = {} /\ removed' = {}
  /\ UNCHANGED <<app, planning>>

FullNext ==
  \/ Application \/ ExportFull \/ ListObjects \/ PlanFails \/ PlanIncremental
  \/ WriteOrPrune
  \/ ChangeSource /\ UNCHANGED planVars

FullSpec == FullInit /\ [][FullNext]_allVars

-----------------------------------------------------------------------------
\* A finished full backup holds the object of every row it holds, unless the
\* application removed the object while the backup was planned: because the
\* rows are read first, an object that is added meanwhile costs nothing but a
\* blob.
RowsHaveObjects ==
  [][Finish => \A o \in rows \ removed : HashOf[o] \in named']_allVars

\* The inductive form of it: the plan is that of one backup at a time, and what
\* has been read second covers what was read first.
FullInv ==
  /\ FullTypeOK
  /\ planning => rows \subseteq app \union removed
  /\ running => rows \subseteq InList(list) \union removed
  /\ ~planning /\ ~running => rows = {}
=============================================================================
