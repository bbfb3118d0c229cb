--------------------------- MODULE ManifestChain ---------------------------
(***************************************************************************)
(* load_manifest_chain and validate_manifest_chain of src/manifest.rs: the  *)
(* walk from a snapshot to its full root, one load_manifest at a time, and  *)
(* the checks on the chain it has found.  The repository is any that the    *)
(* writer operations can leave behind: manifests may be missing or damaged, *)
(* and since a backup looks neither at its parent nor at the manifest it    *)
(* writes over, parents may lead back to a child, or to a snapshot of       *)
(* another application, backend or schema.                                  *)
(***************************************************************************)
EXTENDS Integers, FiniteSets, Sequences, SequencesExt

CONSTANTS
  Ids,         \* snapshot ids
  Identities,  \* [app, backend, schema]: what child and parent must agree on
  Missing,     \* no blob at manifest.json
  Damaged      \* it does not parse, or verify_manifest_checksum fails

NoParent == 0

ASSUME ChainAssumption ==
  /\ IsFiniteSet(Ids) /\ Ids \subseteq Nat \ {NoParent}
  /\ \A x \in Identities : x = [app |-> x.app, backend |-> x.backend, schema |-> x.schema]
  /\ Missing # Damaged

\* What a manifest that parses may say.  Those that create_full_backup,
\* compact_chain (both "full") and create_incremental_backup write are full where
\* they have no parent; one that was put there by something else need not be.
Manifest ==
  [id : Ids, parent : Ids \union {NoParent}, kind : {"full", "incremental"},
   identity : Identities]

VARIABLES
  stored,   \* what is at snapshots/{id}/manifest.json
  request,  \* the snapshot whose chain is wanted
  next,     \* the manifest to load next, or NoParent
  seen,     \* ids that were loaded
  chain,    \* manifests, child first while walking, root first afterwards
  step      \* where the operation is

chainVars == <<stored, request, next, seen, chain, step>>

Manifests(s) == {m \in Manifest : m.id = s}

ChainInit ==
  /\ stored \in {f \in [Ids -> Manifest \union {Missing, Damaged}] :
                   \A s \in Ids : f[s] \in Manifests(s) \union {Missing, Damaged}}
  /\ request \in Ids
  /\ next = request
  /\ seen = {}
  /\ chain = <<>>
  /\ step = "walk"

\* One turn of the loop: seen.insert and load_manifest succeed.
LoadNext ==
  /\ step = "walk" /\ next # NoParent
  /\ next \notin seen
  /\ stored[next] \notin {Missing, Damaged}
  /\ seen' = seen \union {next}
  /\ chain' = Append(chain, stored[next])
  /\ next' = stored[next].parent
  /\ UNCHANGED <<stored, request, step>>

\* MUTANT of LoadFails: a manifest that is missing is asked for again.
LoadFailsRetries ==
  /\ step = "walk" /\ next # NoParent
  /\ next \in seen \/ stored[next] \in {Missing, Damaged}
  /\ step' = IF next \notin seen /\ stored[next] = Missing THEN step ELSE "rejected"
  /\ UNCHANGED <<stored, request, next, seen, chain>>

\* Duplicate snapshot id, MissingBlob, a JSON error or ChecksumMismatch
LoadFails ==
  /\ step = "walk" /\ next # NoParent
  /\ next \in seen \/ stored[next] \in {Missing, Damaged}
  /\ step' = "rejected"
  /\ UNCHANGED <<stored, request, next, seen, chain>>

Follows(parent, child) ==
  /\ child.parent = parent.id
  /\ child.identity.app = parent.identity.app
  /\ child.identity.backend = parent.identity.backend
  /\ child.identity.schema = parent.identity.schema

\* MUTANTS of ValidChain: the kind of the root is not looked at; the schema hash is not compared.
ValidChainAnyRoot(c) ==
  /\ c # <<>>
  /\ c[1].parent = NoParent
  /\ \A i \in 1..(Len(c) - 1) : Follows(c[i], c[i + 1])
ValidChainNoSchema(c) ==
  /\ c # <<>>
  /\ c[1].kind = "full" /\ c[1].parent = NoParent
  /\ \A i \in 1..(Len(c) - 1) :
       Follows(c[i], [c[i + 1] EXCEPT !.identity.schema = c[i].identity.schema])

\* validate_manifest_chain
ValidChain(c) ==
  /\ c # <<>>
  /\ c[1].kind = "full" /\ c[1].parent = NoParent
  /\ \A i, j \in DOMAIN c : c[i].id = c[j].id => i = j
  /\ \A i \in 1..(Len(c) - 1) : Follows(c[i], c[i + 1])

\* The walk has come to a manifest without a parent.
Validate ==
  /\ step = "walk" /\ next = NoParent
  /\ chain' = Reverse(chain)
  /\ step' = IF ValidChain(chain') THEN "loaded" ELSE "rejected"
  /\ UNCHANGED <<stored, request, next, seen>>

LoadChain == LoadNext \/ LoadFails \/ Validate

-----------------------------------------------------------------------------
\* What a chain is: all its manifests are readable, the first one is full and
\* has no parent, each is the parent of the next, the last one is the requested
\* snapshot, and they are all of one application, backend and schema.
IsChain(path) ==
  /\ \A i \in DOMAIN path : stored[path[i]] \notin {Missing, Damaged}
  /\ stored[path[1]].kind = "full" /\ stored[path[1]].parent = NoParent
  /\ \A i \in 2..Len(path) : stored[path[i]].parent = path[i - 1]
  /\ path[Len(path)] = request
  /\ \A i, j \in DOMAIN path : stored[path[i]].identity = stored[path[j]].identity

Paths == UNION {[1..n -> Ids] : n \in 1..Cardinality(Ids)}

\* load_manifest_chain finds the chain of the requested snapshot where there is
\* one, root first and whole, and reports an error where there is none:
\* in particular where parents form a cycle.
FindsTheChain ==
  /\ step = "rejected" => \A path \in Paths : ~IsChain(path)
  /\ step \notin {"walk", "rejected"} =>
       /\ Len(chain) \in 1..Cardinality(Ids)
       /\ IsChain([i \in DOMAIN chain |-> chain[i].id])
       /\ \A i \in DOMAIN chain : chain[i] = stored[chain[i].id]
=============================================================================
