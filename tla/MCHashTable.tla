--------------------------- MODULE MCHashTable ---------------------------
(* HashTable with four keys that collide in part, for TLC. *)
EXTENDS HashTable, TLC

CONSTANTS k1, k2, k3, k4, v1, v2

MCKeys == {k1, k2, k3, k4}
MCValues == {v1, v2}
MCValue1 == {v1}
\* k1 and k2 share the last slot of a table of 4, and collide with k3 once
\* the search goes round the end; a table of 8 parts k1 from k2.
MCHash == (k1 :> 3 @@ k2 :> 7 @@ k3 :> 4 @@ k4 :> 1)
\* Four homes in a table of 4.
MCSpread == (k1 :> 0 @@ k2 :> 1 @@ k3 :> 2 @@ k4 :> 3)
=============================================================================
