--------------------------- MODULE MCServerProcess ---------------------------
(* A small instance of ServerProcess for TLC. *)
EXTENDS ServerProcess
=============================================================================
