--------------------------- MODULE ObjectRestore ---------------------------
(***************************************************************************)
(* restore_objects of src/restore.rs with the BlobStoreRestoreObjectSink,   *)
(* beside the backups and prunes of ObjectWriter: the objects of a manifest *)
(* go, one after the other, from the repository to the application's object *)
(* store.  The bytes are hashed on their way into the sink and compared     *)
(* when they are there.  No lock is taken and nothing is verified before:   *)
(* the manifest is a value of the caller's, and the snapshot may be pruned  *)
(* and its blobs written again by a later backup meanwhile.                 *)
(***************************************************************************)
EXTENDS ObjectWriter

VARIABLES
  sink,      \* what the application has at the storage key of each object
  restoring, \* restore_objects runs
  wanted,    \* manifest.objects
  at,        \* the entry it is at
  sent       \* the bytes of this entry are in the sink and not yet compared

restoreVars == <<sink, restoring, wanted, at, sent>>
allVars == <<vars, restoreVars>>

RestoreTypeOK ==
  /\ TypeOK
  /\ sink \in [Objects -> Blob]
  /\ restoring \in BOOLEAN
  /\ wanted \in Seq(Objects)
  /\ at \in 1..(Len(wanted) + 1)
  /\ sent \in BOOLEAN /\ (sent => restoring /\ at \in DOMAIN wanted)

RestoreInit ==
  /\ Init
  /\ sink = [o \in Objects |-> "absent"]
  /\ restoring = FALSE
  /\ wanted = <<>>
  /\ at = 1
  /\ sent = FALSE

-----------------------------------------------------------------------------
\* The objects of the manifest are in the repository when the caller loads it.
BeginRestore ==
  /\ ~restoring
  /\ restoring' = TRUE
  /\ wanted' \in {l \in Lists : \A i \in DOMAIN l : HashOf[l[i]] \in named}
  /\ at' = 1
  /\ UNCHANGED <<sink, sent, vars>>

\* MUTANT of Send: an object the application already has is not sent.
SendMissing ==
  /\ restoring /\ at \in DOMAIN wanted /\ ~sent
  /\ blob[HashOf[wanted[at]]] # "absent"
  /\ IF sink[wanted[at]] = "absent"
       THEN sink' = [sink EXCEPT ![wanted[at]] = blob[HashOf[wanted[at]]]] /\ sent' = TRUE /\ UNCHANGED at
       ELSE at' = at + 1 /\ UNCHANGED <<sink, sent>>
  /\ UNCHANGED <<restoring, wanted, vars>>

\* get_blob_stream and restore_object_stream
Send ==
  /\ restoring /\ at \in DOMAIN wanted /\ ~sent
  /\ blob[HashOf[wanted[at]]] # "absent"
  /\ sink' = [sink EXCEPT ![wanted[at]] = blob[HashOf[wanted[at]]]]
  /\ sent' = TRUE
  /\ UNCHANGED <<restoring, wanted, at, vars>>

\* MUTANT of Compare: the blob is read once more for the comparison.
CompareAgain ==
  /\ sent /\ blob[HashOf[wanted[at]]] = "good"
  /\ sent' = FALSE
  /\ at' = at + 1
  /\ UNCHANGED <<sink, restoring, wanted, vars>>

\* The hash of what has been sent is the one of the entry.
Compare ==
  /\ sent /\ sink[wanted[at]] = "good"
  /\ sent' = FALSE
  /\ at' = at + 1
  /\ UNCHANGED <<sink, restoring, wanted, vars>>

LeaveRestore ==
  /\ restoring' = FALSE /\ wanted' = <<>> /\ at' = 1 /\ sent' = FALSE
  /\ UNCHANGED <<sink, vars>>

\* Ok(())
Succeed == restoring /\ at = Len(wanted) + 1 /\ LeaveRestore

\* ChecksumMismatch, an error of the repository or the sink, or the future is
\* dropped.  The mismatch is certain when what has been sent is not good.
FailRestore == restoring /\ at \in DOMAIN wanted /\ LeaveRestore

RestoreStep == BeginRestore \/ Send \/ Compare \/ Succeed \/ FailRestore

RestoreNext ==
  \/ RestoreStep
  \/ Next /\ UNCHANGED restoreVars

RestoreSpec == RestoreInit /\ [][RestoreNext]_allVars
LiveRestoreSpec == RestoreSpec /\ Fairness

-----------------------------------------------------------------------------
\* When restore_objects succeeds the application has every object of the
\* manifest with the bytes the manifest means, whatever backups, failing
\* backups and prunes have done to the blobs meanwhile, and whatever an earlier
\* restore that failed half way has left in the sink.
SuccessIsComplete ==
  [][Succeed => \A i \in DOMAIN wanted : sink[wanted[i]] = "good"]_allVars

\* What is behind the restore is in the sink; the entry it is at may send the
\* bytes of an earlier entry for the same object once more.
BehindIsGood ==
  \A i \in DOMAIN wanted : i < at =>
    \/ sink[wanted[i]] = "good"
    \/ sent /\ wanted[i] = wanted[at]

\* The inductive form of SuccessIsComplete.
RestoreInv == RestoreTypeOK /\ BehindIsGood
=============================================================================
