\* Activating a plan over another one, against what the code says of it.
SPECIFICATION GoalSpec
CONSTANTS
  goal = goal
  derived = derived
  u1 = u1
  u2 = u2
  u3 = u3
  Goals = {goal, derived}
  Plans <- TwoPlans
  GoalOfPlan <- PlansOfOneGoal
  TasksOf <- SharedTasks
  Batched <- FirstIsBatched
  Clients = {tab1, tab2}
  MaxRevision <- GoalRevisions
  MaxEdits = 1
  NoPlan = NoPlan
  NoGoal = NoGoal
INVARIANTS
  OldVersionMakesWay
CHECK_DEADLOCK FALSE
