---------------------------- MODULE RestoreFlow ----------------------------
(***************************************************************************)
(* restore_snapshot of src/restore.rs for one chain of snapshots, 1 (full)  *)
(* up to Depth.  A restore takes no repository lock: while it runs, prune   *)
(* and delete_snapshot remove blobs, and a backup that is given an id of    *)
(* the chain writes over a payload.  A payload is read twice, to verify it  *)
(* and to load it.  The target database is a set of rows; restore_full and  *)
(* restore_incremental apply all they are given or fail.  Between attempts  *)
(* the caller clears the target (RestoreTarget).                            *)
(***************************************************************************)
EXTENDS RestoreTarget

CONSTANTS
  Restorers,  \* callers of restore_snapshot on one target database
  Depth,      \* manifest_chain_len
  Exports,    \* of each snapshot of the chain, the changes of its payload
  Others,     \* what a later backup with the same id would put instead
  Modes,      \* RestoreContext.mode: "apply" for EmptyDatabase, "dry" for DryRun
  Removals,   \* snapshots may be removed from the repository
  Rewrites    \* payloads of existing snapshots may be written over

Change == [key : Rows, deleted : BOOLEAN]
Snapshots == 1..Depth

ASSUME RestoreAssumption ==
  /\ Depth \in Nat \ {0}
  /\ Exports \in [Snapshots -> Seq(Change)] /\ Others \in [Snapshots -> Seq(Change)]
  /\ \A i \in DOMAIN Exports[1] : ~Exports[1][i].deleted
  /\ Modes \subseteq {"apply", "dry"}
  /\ {Removals, Rewrites} \subseteq BOOLEAN

VARIABLES
  manifests,  \* snapshots of the chain that have their manifest
  payload,    \* the payload of each: as the manifest says, another one, or none
  step,       \* where each restore is
  job,        \* its mode, the snapshot it is at, and the payload it has loaded
  rewritten   \* a payload has been written over (a history variable)

vars == <<clearVars, manifests, payload, step, job, rewritten>>


Payload == {"good", "other", "absent"}
Steps == {"idle", "chain", "verify", "check", "load", "apply", "return"}

TypeOK ==
  /\ ClearTypeOK
  /\ manifests \subseteq Snapshots
  /\ payload \in [Snapshots -> Payload]
  /\ step \in [Restorers -> Steps]
  /\ job \in [Restorers -> [mode : {"apply", "dry"}, at : Snapshots, loaded : Payload]]
  /\ rewritten \in BOOLEAN

Init ==
  /\ ClearInit
  /\ manifests = Snapshots
  /\ payload = [s \in Snapshots |-> "good"]
  /\ step = [r \in Restorers |-> "idle"]
  /\ job = [r \in Restorers |-> [mode |-> "dry", at |-> Depth, loaded |-> "absent"]]
  /\ rewritten = FALSE

-----------------------------------------------------------------------------
\* Create and Update put a row, Delete takes it away, one change after the other:
\* the last change of a row decides.
ApplyAll(rows, changes) ==
  LET Of(row) == {i \in DOMAIN changes : changes[i].key = row}
      Last(row) == CHOOSE i \in Of(row) : \A j \in Of(row) : j <= i
  IN {row \in Rows : IF Of(row) = {} THEN row \in rows ELSE ~changes[Last(row)].deleted}

\* The rows of the database when each snapshot was taken; none before the first.
StateAt[s \in 0..Depth] == IF s = 0 THEN {} ELSE ApplyAll(StateAt[s - 1], Exports[s])

Goto(r, next) == step' = [step EXCEPT ![r] = next]

Begin(r) ==
  /\ step[r] = "idle" /\ clearing = "no"
  /\ \E mode \in Modes : job' = [job EXCEPT ![r].mode = mode, ![r].at = Depth]
  /\ Goto(r, "chain")
  /\ UNCHANGED <<manifests, payload, clearVars, rewritten>>

\* MUTANTS of Advance: one snapshot too many, one too few.
AdvancePast(r, loop, next) ==
  IF job[r].at <= Depth
    THEN Goto(r, loop) /\ job' = [job EXCEPT ![r].at = @ + 1]
    ELSE Goto(r, next) /\ job' = [job EXCEPT ![r].at = 1]
AdvanceShort(r, loop, next) ==
  IF job[r].at < Depth - 1
    THEN Goto(r, loop) /\ job' = [job EXCEPT ![r].at = @ + 1]
    ELSE Goto(r, next) /\ job' = [job EXCEPT ![r].at = 1]

\* After the snapshot it is at, the restore goes on to the next one, or is done
\* with this step for all of them and goes to the next step for the first.
Advance(r, loop, next) ==
  IF job[r].at < Depth
    THEN Goto(r, loop) /\ job' = [job EXCEPT ![r].at = @ + 1]
    ELSE Goto(r, next) /\ job' = [job EXCEPT ![r].at = 1]

\* load_manifest_chain, from the requested snapshot to the full one
LoadManifest(r) ==
  /\ step[r] = "chain" /\ job[r].at \in manifests
  /\ IF job[r].at > 1
       THEN job' = [job EXCEPT ![r].at = @ - 1] /\ UNCHANGED step
       ELSE Goto(r, "verify") /\ UNCHANGED job
  /\ UNCHANGED <<manifests, payload, clearVars, rewritten>>

\* verify_manifest_and_objects
Verify(r) ==
  /\ step[r] = "verify" /\ payload[job[r].at] = "good"
  /\ Advance(r, "verify", "check")
  /\ UNCHANGED <<manifests, payload, clearVars, rewritten>>

\* MUTANT of CheckTarget: any target will do.
CheckNothing(r) ==
  /\ step[r] = "check"
  /\ Goto(r, "load")
  /\ UNCHANGED <<manifests, payload, clearVars, job, rewritten>>

\* verify_restore_schema, restore_target_is_empty and ensure_empty_restore_target
CheckTarget(r) ==
  /\ step[r] = "check"
  /\ job[r].mode = "apply" => target = {}
  /\ Goto(r, "load")
  /\ UNCHANGED <<manifests, payload, clearVars, job, rewritten>>

\* MUTANT of Load: the mode is forgotten.
LoadAnyMode(r) ==
  /\ step[r] = "load" /\ payload[job[r].at] # "absent"
  /\ Goto(r, "apply") /\ job' = [job EXCEPT ![r].loaded = payload[job[r].at]]
  /\ UNCHANGED <<manifests, payload, clearVars, rewritten>>

\* load_table_exports of the full snapshot, load_change_exports of the others.
\* Nothing compares the bytes with the checksum of the manifest again.
Load(r) ==
  /\ step[r] = "load" /\ payload[job[r].at] # "absent"
  /\ IF job[r].mode = "dry"
       THEN Advance(r, "load", "return")
       ELSE Goto(r, "apply") /\ job' = [job EXCEPT ![r].loaded = payload[job[r].at]]
  /\ UNCHANGED <<manifests, payload, clearVars, rewritten>>

\* restore_full, restore_incremental
Apply(r) ==
  /\ step[r] = "apply"
  /\ target' = ApplyAll(target, IF job[r].loaded = "good" THEN Exports[job[r].at]
                                                          ELSE Others[job[r].at])
  /\ Advance(r, "load", "return")
  /\ UNCHANGED <<manifests, payload, rewritten,
                 pooled, lent, enforcing, clearing, deleted, dropped>>

\* Ok(RestoreResult)
Return(r) ==
  /\ step[r] = "return"
  /\ Goto(r, "idle")
  /\ UNCHANGED <<manifests, payload, clearVars, job, rewritten>>

\* A call fails, a check does, or the restore dies: nothing is taken back.
Fail(r) ==
  /\ step[r] \notin {"idle", "return"}
  /\ Goto(r, "idle")
  /\ UNCHANGED <<manifests, payload, clearVars, job, rewritten>>

\* OrmBackupAdapter::clear_restore_target, before another attempt
ClearTarget ==
  /\ \A r \in Restorers : step[r] = "idle"
  /\ Clear
  /\ UNCHANGED <<manifests, payload, step, job, rewritten>>

\* prune and delete_snapshot, blob by blob
RemoveBlob(s) ==
  /\ Removals
  /\ \/ manifests' = manifests \ {s} /\ UNCHANGED payload
     \/ payload' = [payload EXCEPT ![s] = "absent"] /\ UNCHANGED manifests
  /\ UNCHANGED <<clearVars, step, job, rewritten>>

\* put_blob by a backup whose request names snapshot s again
RewritePayload(s) ==
  /\ Rewrites
  /\ payload' = [payload EXCEPT ![s] = "other"]
  /\ rewritten' = TRUE
  /\ UNCHANGED <<manifests, clearVars, step, job>>

Restore(r) ==
  \/ Begin(r) \/ LoadManifest(r) \/ Verify(r) \/ CheckTarget(r)
  \/ Load(r) \/ Apply(r) \/ Return(r) \/ Fail(r)

Next ==
  \/ \E r \in Restorers : Restore(r)
  \/ ClearTarget
  \/ \E s \in Snapshots : RemoveBlob(s) \/ RewritePayload(s)

Spec == Init /\ [][Next]_vars

-----------------------------------------------------------------------------
\* However often a restore is retried after it has failed half way, and
\* whatever disappears from the repository meanwhile, the target is always in a
\* state the source database was in: nothing is applied twice or skipped.
\* Only payloads that are written over can spoil it, since they are read again
\* after their verification.
TargetIsPrefix == ~rewritten => \E s \in 0..Depth : target = StateAt[s]

\* A restore that reports success has brought the target to the state of the
\* snapshot it was asked for.
RestoredIsSnapshot ==
  [][\A r \in Restorers :
       Return(r) /\ job[r].mode = "apply" /\ ~rewritten => target = StateAt[Depth]]_vars

\* A dry run changes nothing, whatever it finds and however it ends.
DryRunLeavesTarget ==
  [][\A r \in Restorers : Restore(r) /\ job[r].mode = "dry" => UNCHANGED target]_vars
=============================================================================
