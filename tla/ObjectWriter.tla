---------------------------- MODULE ObjectWriter ----------------------------
(***************************************************************************)
(* write_object_entries of src/backup.rs: the object blobs of one backup    *)
(* after another.  Objects are loaded from the application's object index   *)
(* while they are put, several at a time, under the name of the hash the    *)
(* index declares; whether the bytes have that hash is known only after     *)
(* the put.  SnapshotRepository abstracts all this to one step per object.  *)
(*                                                                         *)
(* A put is atomic, and nobody else writes: the lock is held.              *)
(***************************************************************************)
EXTENDS Integers, Sequences, FiniteSets

CONSTANTS
  Objects,       \* objects of the application
  Hashes,        \* SHA-256 values
  HashOf,        \* sha256_hex of each BackupObjectRef
  Lists,         \* the lists of objects that backups ask for
  Concurrency,   \* object_concurrency of the request
  StableSource,  \* the index always serves bytes with the declared hash
  Cancels,       \* the operation may be dropped, or die, at any await
  DeleteFails    \* delete_blob may fail

ASSUME ObjectAssumption ==
  /\ HashOf \in [Objects -> Hashes]
  /\ Lists \subseteq Seq(Objects) /\ Lists # {}
  /\ Concurrency \in Nat
  /\ {StableSource, Cancels, DeleteFails} \subseteq BOOLEAN

VARIABLES
  intact,   \* objects for which the index serves bytes with the declared hash
  blob,     \* what is stored at objects/sha256/{hash}
  named,    \* hashes that the manifests of the repository name
  running,  \* a backup is writing its objects
  list,     \* object_refs
  future    \* where the future of each of them is

vars == <<intact, blob, named, running, list, future>>

\* "good" bytes have the hash the key says
Blob == {"absent", "good", "bad"}

\* The awaits of a future, in order: load_object_stream, then
\* put_blob_stream_if_absent; after a put delete_blob if the bytes are wrong,
\* after a put that found the blob there a second load_object_stream.
Future == {"waiting", "load", "put", "undo", "undone", "rehash", "mismatch", "done"}

Indexes == DOMAIN list
KeyOf(i) == HashOf[list[i]]
InFlight == {i \in Indexes : future[i] \notin {"waiting", "done"}}

TypeOK ==
  /\ intact \subseteq Objects
  /\ blob \in [Hashes -> Blob]
  /\ named \subseteq Hashes
  /\ running \in BOOLEAN
  /\ list \in Seq(Objects)
  /\ future \in [Indexes -> Future]

Init ==
  /\ intact = Objects
  /\ blob = [h \in Hashes |-> "absent"]
  /\ named = {}
  /\ running = FALSE
  /\ list = <<>>
  /\ future = <<>>

-----------------------------------------------------------------------------
\* The application overwrites, damages or repairs what it stores.
ChangeSource ==
  /\ ~StableSource
  /\ intact' \in SUBSET Objects
  /\ UNCHANGED <<blob, named, running, list, future>>

Begin ==
  /\ ~running
  /\ running' = TRUE
  /\ list' \in Lists
  /\ future' = [i \in DOMAIN list' |-> "waiting"]
  /\ UNCHANGED <<intact, blob, named>>

\* MUTANT of Limit: object_concurrency as it is.
LimitUnclamped == Concurrency

\* object_concurrency.max(1)
Limit == IF Concurrency > 1 THEN Concurrency ELSE 1

Goto(i, next) == future' = [future EXCEPT ![i] = next]

\* buffer_unordered polls the futures in the order of the list.
Start(i) ==
  /\ running /\ future[i] = "waiting"
  /\ \A j \in Indexes : j < i => future[j] # "waiting"
  /\ Cardinality(InFlight) < Limit
  /\ Goto(i, "load")
  /\ UNCHANGED <<intact, blob, named, running, list>>

Load(i) ==
  /\ running /\ future[i] = "load"
  /\ Goto(i, "put")
  /\ UNCHANGED <<intact, blob, named, running, list>>

\* MUTANTS of PutIfAbsent: the hash is not compared; put_blob_stream is used.
PutUnverified(i) ==
  /\ running /\ future[i] = "put"
  /\ IF blob[KeyOf(i)] = "absent"
       THEN /\ blob' = [blob EXCEPT ![KeyOf(i)] = IF list[i] \in intact THEN "good" ELSE "bad"]
            /\ Goto(i, "done")
       ELSE Goto(i, "rehash") /\ UNCHANGED blob
  /\ UNCHANGED <<intact, named, running, list>>
PutOverwrites(i) ==
  /\ running /\ future[i] = "put"
  /\ LET match == list[i] \in intact
     IN /\ blob' = [blob EXCEPT ![KeyOf(i)] = IF match THEN "good" ELSE "bad"]
        /\ Goto(i, IF match THEN "done" ELSE "undo")
  /\ UNCHANGED <<intact, named, running, list>>

\* put_blob_stream_if_absent, which hashes the bytes on their way
PutIfAbsent(i) ==
  /\ running /\ future[i] = "put"
  /\ IF blob[KeyOf(i)] = "absent"
       THEN LET match == list[i] \in intact
            IN /\ blob' = [blob EXCEPT ![KeyOf(i)] = IF match THEN "good" ELSE "bad"]
               /\ Goto(i, IF match THEN "done" ELSE "undo")
       ELSE Goto(i, "rehash") /\ UNCHANGED blob
  /\ UNCHANGED <<intact, named, running, list>>

\* MUTANT of Rehash: the blob is deleted whoever has written it.
RehashUndoes(i) ==
  /\ running /\ future[i] = "rehash"
  /\ Goto(i, IF list[i] \in intact THEN "done" ELSE "undo")
  /\ UNCHANGED <<intact, blob, named, running, list>>

\* hash_object_source: the source is hashed, not the blob that is there.
Rehash(i) ==
  /\ running /\ future[i] = "rehash"
  /\ Goto(i, IF list[i] \in intact THEN "done" ELSE "mismatch")
  /\ UNCHANGED <<intact, blob, named, running, list>>

\* delete_blob of what does not have the declared hash
Undo(i) ==
  /\ running /\ future[i] = "undo"
  /\ blob' = [blob EXCEPT ![KeyOf(i)] = "absent"]
  /\ Goto(i, "undone")
  /\ UNCHANGED <<intact, named, running, list>>

\* The backup is over; the futures that are still in flight are dropped.
Leave ==
  /\ running' = FALSE
  /\ list' = <<>>
  /\ future' = <<>>
  /\ UNCHANGED <<intact, blob>>

\* MUTANT of Fail: the mismatch is returned before the blob is deleted.
FailBeforeUndo(i) ==
  /\ running
  /\ future[i] \in {"load", "put", "rehash", "undo", "mismatch"}
  /\ Leave
  /\ UNCHANGED named

\* try_collect returns the first error: ChecksumMismatch, or the error of a call.
Fail(i) ==
  /\ running
  /\ \/ future[i] \in {"load", "put", "rehash", "undone", "mismatch"}
     \/ DeleteFails /\ future[i] = "undo"
  /\ Leave
  /\ UNCHANGED named

Cancel ==
  /\ Cancels /\ running
  /\ Leave
  /\ UNCHANGED named

\* MUTANT of Finish: a mismatch counts as done.
FinishDespiteMismatch ==
  /\ running
  /\ \A i \in Indexes : future[i] \in {"done", "undone"}
  /\ named' = named \union {KeyOf(i) : i \in Indexes}
  /\ Leave

\* All entries are there; the manifest that holds them is written.
Finish ==
  /\ running
  /\ \A i \in Indexes : future[i] = "done"
  /\ named' = named \union {KeyOf(i) : i \in Indexes}
  /\ Leave

\* prune and delete_snapshot: some snapshots go, with every object blob that no
\* manifest names any more.
Prune ==
  /\ ~running
  /\ named' \in SUBSET named
  /\ blob' = [h \in Hashes |-> IF h \in named' THEN blob[h] ELSE "absent"]
  /\ UNCHANGED <<intact, running, list, future>>

Poll(i) ==
  Start(i) \/ Load(i) \/ PutIfAbsent(i) \/ Rehash(i) \/ Undo(i) \/ Fail(i)

Next ==
  \/ ChangeSource \/ Begin \/ Cancel \/ Finish \/ Prune
  \/ \E i \in Indexes : Poll(i)

Spec == Init /\ [][Next]_vars

-----------------------------------------------------------------------------
\* The object blobs a manifest names have the hash they are stored under, so
\* that the snapshot passes verification ("Object blobs are content-addressed
\* by SHA-256").
NamedAreGood == \A h \in named : blob[h] = "good"

\* No backup, whatever its sources serve and wherever it fails, takes away or
\* changes an object blob that belongs to a finished snapshot.
NamedStay ==
  [][\A h \in named \intersect named' : blob'[h] = blob[h]]_vars

\* Every object blob a manifest names is there, however the futures of the
\* backup that wrote it, and of earlier ones, were interleaved and cut short.
NamedArePresent == \A h \in named : blob[h] # "absent"

\* Blobs with wrong bytes that no future is about to delete.
Lasting ==
  {h \in Hashes : blob[h] = "bad" /\ \A i \in Indexes : future[i] = "undo" => KeyOf(i) # h}

\* A backup ends between the put of wrong bytes and their deletion: its future is
\* dropped, its process dies, delete_blob fails, or the error of another object
\* comes first.
Abandons == running /\ ~running' /\ \E i \in Indexes : future[i] = "undo"

\* Wrong bytes come to stay under a valid key in no other way, whatever sources
\* serve, however futures are interleaved over the same content, and whichever
\* of them finds the wrong bytes there and goes on.
LastingAreAbandoned == [][Lasting' \subseteq Lasting \/ Abandons]_vars

\* A future may rely on the blob another one has put and is about to take away
\* again; that one then makes the whole backup fail.
DoneAreStored ==
  \A i \in Indexes : future[i] \in {"rehash", "done"} /\ blob[KeyOf(i)] = "absent" =>
    \E j \in Indexes : future[j] = "undone" /\ KeyOf(j) = KeyOf(i)

\* Only a blob that no manifest names is about to be deleted.
UndoIsOwn == \A i \in Indexes : future[i] = "undo" => KeyOf(i) \notin named

\* A backup that is over, for whatever reason, leaves no future behind.
IdleHasNoFutures == ~running => Indexes = {}

ObjectInv == TypeOK /\ IdleHasNoFutures /\ NamedArePresent /\ DoneAreStored /\ UndoIsOwn

-----------------------------------------------------------------------------
(* The executor polls every future that can go on.                          *)

Fairness == WF_vars(\E i \in Indexes : Poll(i)) /\ WF_vars(Finish)

\* A backup comes to its end, with whatever object_concurrency is asked for.
BackupEnds == running ~> ~running
=============================================================================
