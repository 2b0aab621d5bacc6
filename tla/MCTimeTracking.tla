--------------------------- MODULE MCTimeTracking ---------------------------
(* Instances of TimeTracking for TLC. *)
EXTENDS TimeTracking, TLC

Interchangeable == Permutations(Log) \cup Permutations(Request)
=============================================================================
