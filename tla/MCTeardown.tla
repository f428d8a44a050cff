----------------------------- MODULE MCTeardown -----------------------------
(* Teardown with one RBD class and one CephFS class. *)
EXTENDS Teardown

CONSTANTS rbd, fs
=============================================================================
