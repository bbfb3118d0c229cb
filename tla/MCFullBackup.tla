---------------------------- MODULE MCFullBackup ----------------------------
(* The lists of MCObjects are what the application may have.               *)
EXTENDS FullBackup, MCObjects
=============================================================================
