------------------------------- MODULE MCStages -------------------------------
(* Stages with one source of either kind that is watched and one that may not be. *)
EXTENDS Stages
=============================================================================
