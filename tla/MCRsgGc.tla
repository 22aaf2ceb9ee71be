------------------------------ MODULE MCRsgGc ------------------------------
(* RsgGc on a heap of a few words, for TLC. *)
EXTENDS RsgGc

CONSTANTS l1, g1

OneLocal == {l1}
NoStatics == {}
OneStatic == {g1}
=============================================================================
