---------------------------- MODULE MCRsgPanic ----------------------------
(* RsgPanic with a few messages and nested activations, for TLC. *)
EXTENDS RsgPanic, TLC

CONSTANTS m1, m2

MCMsgs == {m1, m2}
Symmetry == Permutations(MCMsgs)
=============================================================================
