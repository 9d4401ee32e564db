----------------------------- MODULE MCPlanning -----------------------------
(* Small instances of Planning for TLC. *)
EXTENDS Planning, TLC

\* All days belong to one week.
OneWeek == [d \in Days |-> 1]

SameWorkers == Permutations(Workers)
=============================================================================
