\* Commands on goals against what the design says of them.
SPECIFICATION Spec
CONSTANTS
  Days = {1}
  WeekOf <- OneWeek
  Workers = {w1}
  MaxRevision = 1
  MaxQuiet = 1
  Tries = 1
  NoJob = NoJob
INVARIANTS
  CurrentKnowsAllChanges
CHECK_DEADLOCK FALSE
