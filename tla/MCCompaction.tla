---------------------------- MODULE MCCompaction ----------------------------
(* Two tables with a row each; snapshots of one application, of another one *)
(* on another backend, and of another schema.                              *)
EXTENDS ChainCompaction

CONSTANTS t, u, k, rowA, rowB, o1, h1, h2

MCPlaces == {<<t, k>>, <<u, k>>}

Own == [app |-> "own", backend |-> "own", schema |-> "own"]
MCIdentities == {Own, [Own EXCEPT !.schema = "other"],
                 [Own EXCEPT !.app = "other", !.backend = "other"]}

\* Nothing tells one snapshot id from another, so the requested one is taken to
\* be 3, and its parent, if it is another snapshot, to be 2.
MCInit ==
  /\ Init
  /\ request = 3
  /\ stored[3] \notin {Missing, Damaged} => stored[3].parent # 1

MCSpec == MCInit /\ [][Next]_vars /\ WF_vars(Next)
=============================================================================
