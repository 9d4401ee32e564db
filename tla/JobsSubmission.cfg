\* Two jobs with one key, one after the other, workers that die included; and one job
\* with two dispatchers and two outbox rows at a time.
SPECIFICATION SubmissionSpec
CONSTANTS
  Jobs = {j1, j2}
  Keys = {k1}
  DedupeKey <- OneKey
  Workers = {w1}
  Dispatchers = {api, beat}
  Slots = {s1, s2}
  MaxAttempts = 2
  MaxStages = 0
  MaxMessages = 2
  NoJob = NoJob
SYMMETRY Symmetric
INVARIANTS
  OneHolderPerKey
  QueuedIsAnnounced
PROPERTIES
  KeepsContract
CHECK_DEADLOCK FALSE
