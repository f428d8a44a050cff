------------------------------ MODULE MCRollout ------------------------------
(* Rollout with two daemons and one new version. *)
EXTENDS Rollout
=============================================================================
