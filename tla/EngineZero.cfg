\* Tasks without minutes, which the tables and the API allow.
SPECIFICATION EngineSpec
CONSTANTS
  EngineTasks = {1, 2, 3}
  EngineGoals = {1, 2}
  TaskKinds <- WithoutMinutes
  Snapshots <- SmallDays
  NoMinutes = NoMinutes
  UrgentWithin = 1
  SoonWithin = 3
  StarvationAfter = 1
  GapHigh = 2
  DefaultSession = 2
INVARIANTS
  ItemsHaveMinutes
CHECK_DEADLOCK FALSE
