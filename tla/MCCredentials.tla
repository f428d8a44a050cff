---------------------------- MODULE MCCredentials ----------------------------
(* Credentials with two clusters in turn and two keys. *)
EXTENDS Credentials
=============================================================================
