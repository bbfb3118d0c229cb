-------------------------- MODULE ChainCompaction --------------------------
(***************************************************************************)
(* compact_chain of src/backup.rs: the rows and objects of a chain are      *)
(* folded into one synthetic full snapshot.  Beside it goes the database    *)
(* the snapshots were taken of (source, inUse), so that what compaction     *)
(* makes of the payloads is compared with what it should be.  The payloads  *)
(* are what create_incremental_backup writes: the journal of changes since  *)
(* the parent, grouped by table, and the deletions in it as tombstones.     *)
(***************************************************************************)
EXTENDS ManifestChain

CONSTANTS
  Places,       \* <<table, primary key>>: where a row can be
  RowBodies,    \* contents of rows
  NoRow,        \* no row there, or a change without one
  ObjectIds,    \* objects of the application
  Hashes,       \* their contents
  NoObject,     \* no such object, or a tombstone of a row
  MaxChanges    \* bound: changes of one journal

ASSUME CompactionAssumption ==
  /\ NoRow \notin RowBodies /\ NoObject \notin Hashes \union ObjectIds
  /\ MaxChanges \in Nat

VARIABLES
  at,          \* the manifest of the chain that is folded in next
  source,      \* rows of the database when that snapshot was taken
  tableRows,   \* table_rows: what compaction has made of the payloads so far
  tombstones,  \* tombstones of the manifests folded in so far
  inUse,       \* objects of the application when the last snapshot was taken
  entries      \* object entries of the synthetic manifest

vars == <<chainVars, at, source, tableRows, tombstones, inUse, entries>>

Rows == [Places -> RowBodies \union {NoRow}]
Objects == [ObjectIds -> Hashes \union {NoObject}]

Change ==
  {c \in [place : Places, action : {"create", "update", "delete"},
          row : RowBodies \union {NoRow}] :
     c.action = "delete" => c.row = NoRow}

\* A row without a body was written: the journal does not say what it is.
Silent(c) == c.action # "delete" /\ c.row = NoRow

none == [o \in ObjectIds |-> NoObject]

TypeOK ==
  /\ request \in Ids /\ next \in Ids \union {NoParent} /\ seen \subseteq Ids
  /\ chain \in Seq(Manifest)
  /\ step \in {"walk", "rejected", "loaded", "replay", "objects", "done", "failed"}
  /\ at \in 1..(Cardinality(Ids) + 1)
  /\ source \in Rows /\ tableRows \in Rows
  /\ tombstones \subseteq [place : Places, object : {NoObject}]
  /\ inUse \in Objects /\ entries \in Objects

Init ==
  /\ ChainInit
  /\ at = 1
  /\ source = [p \in Places |-> NoRow]
  /\ tableRows = source
  /\ tombstones = {}
  /\ inUse = none
  /\ entries = inUse

-----------------------------------------------------------------------------
(* What a database does: its journal since the parent snapshot.            *)

Fits(rows, c) == Silent(c) \/ (c.action = "create" <=> rows[c.place] = NoRow)

\* The rows after the first i changes of a journal that started from rows, as far
\* as the journal says.
After(rows, journal, i) ==
  [p \in Places |->
     LET mine == {n \in 1..i : journal[n].place = p /\ ~Silent(journal[n])}
     IN IF mine = {} THEN rows[p]
        ELSE journal[CHOOSE n \in mine : \A m \in mine : m <= n].row]

Journals ==
  [rows \in Rows |->
     {j \in UNION {[1..n -> Change] : n \in 0..MaxChanges} :
        \A i \in DOMAIN j : Fits(After(rows, j, i - 1), j[i])}]

-----------------------------------------------------------------------------
(* What create_incremental_backup makes of it.                             *)

Table(c) == c.place[1]

\* MUTANT of AddToGroup: the change goes to the front of its group.
PrependToGroup(groups, c) ==
  IF \E i \in DOMAIN groups : groups[i].table = Table(c)
    THEN [i \in DOMAIN groups |->
            IF groups[i].table = Table(c) THEN [groups[i] EXCEPT !.changes = <<c>> \o @]
                                          ELSE groups[i]]
    ELSE Append(groups, [table |-> Table(c), changes |-> <<c>>])

AddToGroup(groups, c) ==
  IF \E i \in DOMAIN groups : groups[i].table = Table(c)
    THEN [i \in DOMAIN groups |->
            IF groups[i].table = Table(c) THEN [groups[i] EXCEPT !.changes = Append(@, c)]
                                          ELSE groups[i]]
    ELSE Append(groups, [table |-> Table(c), changes |-> <<c>>])

\* group_changes_by_table: tables in the order of their first change
Grouped(journal) ==
  LET upTo[n \in 0..Len(journal)] == IF n = 0 THEN <<>> ELSE AddToGroup(upTo[n - 1], journal[n])
  IN upTo[Len(journal)]

\* MUTANT of TombstonesOf: the tombstone of a row names an object.
TombstonesOfObjects(journal) ==
  {[place |-> journal[i].place, object |-> CHOOSE o \in ObjectIds : TRUE] :
     i \in {n \in DOMAIN journal : journal[n].action = "delete"}}

\* changes_to_tombstones: rows only, never objects
TombstonesOf(journal) ==
  {[place |-> journal[i].place, object |-> NoObject] :
     i \in {n \in DOMAIN journal : journal[n].action = "delete"}}

-----------------------------------------------------------------------------
(* What compact_chain makes of that.                                       *)

\* MUTANT of Replay: a change without a row takes the row away.
ReplayAnyRow(rows, c) == [rows EXCEPT ![c.place] = c.row]

\* Create and Update put the row if there is one, Delete takes it away.
Replay(rows, c) == IF Silent(c) THEN rows ELSE [rows EXCEPT ![c.place] = c.row]

Replayed(rows, changes) ==
  LET upTo[n \in 0..Len(changes)] == IF n = 0 THEN rows ELSE Replay(upTo[n - 1], changes[n])
  IN upTo[Len(changes)]

\* load_change_exports: the payloads of a snapshot one after the other
ReplayedGroups(rows, groups) ==
  LET upTo[n \in 0..Len(groups)] ==
        IF n = 0 THEN rows ELSE Replayed(upTo[n - 1], groups[n].changes)
  IN upTo[Len(groups)]

\* The rows of the full snapshot, keyed by table and primary key.
ReplayFull ==
  /\ step = "loaded"
  /\ \E rows \in Rows : source' = rows /\ tableRows' = rows
  /\ at' = 2
  /\ step' = "replay"
  /\ UNCHANGED <<stored, request, next, seen, chain, tombstones, inUse, entries>>

\* load_change_exports of the next incremental snapshot, and its replay
ReplayIncremental ==
  /\ step = "replay" /\ at <= Len(chain)
  /\ \E journal \in Journals[source] :
       /\ source' = After(source, journal, Len(journal))
       /\ tableRows' = ReplayedGroups(tableRows, Grouped(journal))
       /\ tombstones' = tombstones \union TombstonesOf(journal)
  /\ at' = at + 1
  /\ UNCHANGED <<chainVars, inUse, entries>>

\* The table payloads of the new snapshot are put.
WriteTables ==
  /\ step = "replay" /\ at > Len(chain)
  /\ step' = "objects"
  /\ UNCHANGED <<stored, request, next, seen, chain, at, source, tableRows, tombstones,
                 inUse, entries>>

\* What the object index lists: all objects, or those that were added or
\* changed since the parent.
Listed(was, is) ==
  [o \in {x \in ObjectIds : is[x] # NoObject /\ is[x] # was[x]} |-> is[o]]

\* MUTANT of Overlay: the first entry of an object wins.
OverlayFirst(old, new) ==
  [o \in ObjectIds |-> IF o \in DOMAIN new /\ old[o] = NoObject THEN new[o] ELSE old[o]]

\* objects_by_id.insert
Overlay(old, new) == [o \in ObjectIds |-> IF o \in DOMAIN new THEN new[o] ELSE old[o]]

\* compact_object_entries, given the objects in use at each snapshot
Overlaid(history) ==
  LET upTo[n \in 0..Len(history)] ==
        IF n = 0 THEN none
        ELSE Overlay(upTo[n - 1], Listed(IF n = 1 THEN none ELSE history[n - 1], history[n]))
  IN upTo[Len(history)]

\* An object with a tombstone is left out altogether.
CompactObjects ==
  /\ step = "objects"
  /\ \E history \in [1..Len(chain) -> Objects] :
       LET gone == {x.object : x \in tombstones} \ {NoObject}
       IN /\ inUse' = history[Len(chain)]
          /\ entries' = [o \in ObjectIds |-> IF o \in gone THEN NoObject
                                                           ELSE Overlaid(history)[o]]
  /\ step' = "done"
  /\ UNCHANGED <<stored, request, next, seen, chain, at, source, tableRows, tombstones>>

\* verify_manifest_and_objects finds a payload that is missing or differs, a
\* payload does not parse, or the repository refuses a put.
CompactionFails ==
  /\ step \in {"loaded", "replay", "objects"}
  /\ step' = "failed"
  /\ UNCHANGED <<stored, request, next, seen, chain, at, source, tableRows, tombstones,
                 inUse, entries>>

Finished == step \in {"done", "rejected", "failed"} /\ UNCHANGED vars

Next ==
  \/ LoadChain /\ UNCHANGED <<at, source, tableRows, tombstones, inUse, entries>>
  \/ ReplayFull \/ ReplayIncremental \/ WriteTables \/ CompactObjects
  \/ CompactionFails
  \/ Finished

Spec == Init /\ [][Next]_vars /\ WF_vars(Next)

-----------------------------------------------------------------------------
\* Grouping by table loses the order of changes to different tables and keeps
\* what matters for the rows: the replayed payloads lead to the very rows the
\* database had when each snapshot of the chain was taken.
ReplayFollowsSource == tableRows = source

\* The synthetic snapshot holds every object that was in use when its source
\* was taken, with its content at that time.  It may hold more: objects that
\* were removed since the root, because no tombstone names an object.
KeepsObjectsInUse ==
  step = "done" => \A o \in ObjectIds : inUse[o] # NoObject => entries[o] = inUse[o]

\* Loading and folding come to an end for every chain, cyclic ones included.
CompactionEnds == <>(step \in {"done", "rejected", "failed"})
=============================================================================
