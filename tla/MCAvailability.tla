--------------------------- MODULE MCAvailability ---------------------------
(* Small instances of Availability for TLC. *)
EXTENDS Availability, TLC

CONSTANTS t1, t2, t3

\* Beside the third task there is room for one of the others or for both.
Needs == [t \in Tasks |-> IF t = t3 THEN 1 ELSE 2]

\* No task is due, or the last one is.
None == [d \in Dates |-> {}]
LastTask == [d \in Dates |-> {t3}]

\* Everything there is, or the constraints of two tasks and the override of the first day.
AllForms == TableRows
FirstDay == {Weekly, OverrideOf(1)} \cup {ConstraintOf(t, 1) : t \in {t1, t2}}

SameClients == Permutations(Clients)
=============================================================================
