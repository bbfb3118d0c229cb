----------------------------- MODULE MCPipeline -----------------------------
(* The objects of MCObjects, backed up, pruned and restored at once.        *)
EXTENDS ObjectRestore, MCObjects
=============================================================================
