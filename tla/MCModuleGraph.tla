-------------------------- MODULE MCModuleGraph --------------------------
(* ModuleGraph with three modules, for TLC. *)
EXTENDS ModuleGraph

CONSTANTS a, b, c

MCModules == {a, b, c}
=============================================================================
