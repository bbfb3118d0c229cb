----------------------------- MODULE MCObjects -----------------------------
(* Three objects, two of which have the same content.                      *)
EXTENDS ObjectWriter, TLC

CONSTANTS o1, o2, o3, h1, h2

MCHashOf == (o1 :> h1) @@ (o2 :> h1) @@ (o3 :> h2)

\* A snapshot without objects, one with shared content, one with all.
MCLists == {<<>>, <<o1>>, <<o2, o1>>, <<o3, o1, o2>>}
=============================================================================
