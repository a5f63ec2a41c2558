-------------------------- MODULE MCObjectLifecycle --------------------------
(* Small instances of ObjectLifecycle for TLC. *)
EXTENDS ObjectLifecycle, TLC

Interchangeable == Permutations(Keys) \cup Permutations(Requests) \cup Permutations(Workers)

=============================================================================
