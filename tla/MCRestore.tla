----------------------------- MODULE MCRestore -----------------------------
(* A full snapshot and two incremental ones; the first of these deletes all  *)
(* that the full one has, so that the target looks empty half way.           *)
EXTENDS RestoreFlow

CONSTANTS a, b, r1, c1, c2

SetRow(row) == [key |-> row, deleted |-> FALSE]
Delete(row) == [key |-> row, deleted |-> TRUE]

MCClearOrder == <<a, b>>
MCExports == <<<<SetRow(a)>>, <<Delete(a)>>, <<SetRow(b), SetRow(a), Delete(a), SetRow(a)>>>>
MCOthers == <<<<SetRow(b)>>, <<SetRow(b)>>, <<>>>>
=============================================================================
