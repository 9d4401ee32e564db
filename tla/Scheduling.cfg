\* Planning: one day, two revisions, two workers, two submissions for each revision,
\* one change to goals.  Availability: two clients with forms for the weekly quota,
\* and for the override and the constraints of one day that has room for one of two
\* tasks beside the third, which is in progress, or for both.  AgendaEngine: three
\* tasks of two goals.
SPECIFICATION SchedulingSpec
CONSTANTS
  Days = {1}
  WeekOf <- OneWeek
  Workers = {w1, w2}
  MaxRevision = 1
  MaxQuiet = 1
  Tries = 2
  NoJob = NoJob
  t1 = t1
  t2 = t2
  t3 = t3
  Dates = {1, 2}
  Tasks = {t1, t2, t3}
  Need <- Needs
  Fixed <- LastTask
  Quotas = {3, 5}
  Clients = {c1, c2}
  Forms <- FirstDay
  MaxVersions = 3
  MaxRowRevision = 2
  EngineTasks = {1, 2, 3}
  EngineGoals = {1, 2}
  TaskKinds <- KindsOfTasks
  Snapshots <- SmallDays
  NoMinutes = NoMinutes
  UrgentWithin = 1
  SoonWithin = 3
  StarvationAfter = 1
  GapHigh = 2
  DefaultSession = 2
SYMMETRY SameActors
INVARIANTS
  SchedulingTypeOK
  AgendaIsOfItsRevision
  VersionsFollowRevisions
  LaterAgendasKnowMore
  AgendaFitsTheDay
  NothingIsLostIfAllFits
  UrgentComeFirst
PROPERTIES
  NoLostUpdate
  ConstraintsFit
CHECK_DEADLOCK FALSE
