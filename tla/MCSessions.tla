----------------------------- MODULE MCSessions -----------------------------
(* A small instance of Sessions for TLC.  No symmetry: the run checks       *)
(* temporal properties.                                                     *)
EXTENDS Sessions

=============================================================================
