------------------------------- MODULE MCLock -------------------------------
(***************************************************************************)
(* Instances of RepositoryLock.  The deployment is chosen in each .cfg.    *)
(***************************************************************************)
EXTENDS RepositoryLock

CONSTANTS w1, w2

BothBreak == {w1, w2}
=============================================================================
