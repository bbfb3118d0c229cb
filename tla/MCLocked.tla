------------------------------ MODULE MCLocked ------------------------------
(* Three writers, of which one breaks stale locks, over the blobs of two    *)
(* snapshots.  The two that break none are alike.                           *)
EXTENDS LockedRepository, TLC

CONSTANTS w1, w2, w3, t1, h1, s1, mf

OneBreaker == {w1}
Alike == Permutations({w2, w3})
MCExports == {[at |-> 1, created |-> 1, schema |-> s1, tables |-> {t1}, objects |-> {h1}]}
=============================================================================
