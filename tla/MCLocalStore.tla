---------------------------- MODULE MCLocalStore ----------------------------
(* A small instance of LocalStore for TLC. *)
EXTENDS LocalStore
=============================================================================
