------------------------ MODULE MCEscapeAnalysis ------------------------
(* EscapeAnalysis on bodies of a few statements, for TLC. *)
EXTENDS EscapeAnalysis, TLC

CONSTANTS p, q, x, y

MCPointers == {p, q}
MCLocals == {x, y}
Symmetry == Permutations(MCPointers) \cup Permutations(MCLocals)
=============================================================================
