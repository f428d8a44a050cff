---------------------------- MODULE MCModuleLife ----------------------------
(* One node in either of two zones; a kind of each sort. *)
EXTENDS ModuleLife

CONSTANT n1
=============================================================================
