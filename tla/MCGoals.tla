------------------------------ MODULE MCGoals ------------------------------
(* Small instances of Goals for TLC. *)
EXTENDS Goals, TLC

CONSTANTS goal, derived, u1, u2, u3

\* Two versions of the plan of one goal, with a task in common; the other goal is
\* there to be derived from it.
TwoPlans == {1, 2}
PlansOfOneGoal == 1 :> goal @@ 2 :> goal
SharedTasks == 1 :> {u1, u2} @@ 2 :> {u2, u3}
FirstIsBatched == {1}
GoalRevisions == goal :> 5 @@ derived :> 0
=============================================================================
