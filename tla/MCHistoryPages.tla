--------------------------- MODULE MCHistoryPages ---------------------------
(* A small instance of HistoryPages for TLC. *)
EXTENDS HistoryPages, TLC

\* Ids and times are compared, filters are not.
Interchangeable == Permutations(Filters)

=============================================================================
