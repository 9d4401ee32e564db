\* Generating again against what ensure_agenda promises.
SPECIFICATION FairSpec
CONSTANTS
  Days = {1}
  WeekOf <- OneWeek
  Workers = {w1}
  MaxRevision = 1
  MaxQuiet = 0
  Tries = 2
  NoJob = NoJob
PROPERTIES
  LatestAgendaAppears
CHECK_DEADLOCK FALSE
