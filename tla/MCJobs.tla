------------------------------- MODULE MCJobs -------------------------------
(* Small instances of Jobs for TLC. *)
EXTENDS Jobs, TLC

\* All jobs are submitted with the same key.
OneKey == [j \in Jobs |-> CHOOSE k \in Keys : TRUE]

\* Worker processes are interchangeable, and so are dispatchers; no safety
\* property names one of them.  (Slots are not: CHOOSE picks the slot of a row.)
Symmetric == Permutations(Workers) \cup Permutations(Dispatchers)
=============================================================================
