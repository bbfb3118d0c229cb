---------------------------- MODULE MCRepository ----------------------------
(***************************************************************************)
(* Instances of SnapshotRepository.                                        *)
(***************************************************************************)
EXTENDS SnapshotRepository

CONSTANTS w1, w2, t1, t2, h1, h2, s1, s2, mf

Everything == {"full", "incremental", "compact", "prune", "delete"}
WithoutDelete == {"full", "incremental", "compact", "prune"}
WithoutCompact == {"full", "incremental", "prune"}

Ex(at, created, schema, tables, objs) ==
  [at |-> at, created |-> created, schema |-> schema, tables |-> tables, objects |-> objs]

\* The object is replaced between two states of the database; then there is a
\* new schema, and the clock has been set back.
NewSchema ==
  {Ex(1, 1, s1, {t1}, {h1}), Ex(2, 2, s1, {t1}, {h2}), Ex(2, 1, s2, {t1}, {})}

\* The object is not in use any more in the second state.
ObjectGone == {Ex(1, 1, s1, {t1}, {h1}), Ex(2, 2, s1, {t1}, {})}

\* Tables only.
NoObjects == {Ex(1, 1, s1, {t1}, {}), Ex(2, 2, s1, {t1}, {})}
=============================================================================
