\* One job and two workers: crashes, late returns, cancellation, all attempts.
SPECIFICATION Spec
CONSTANTS
  Jobs = {j1}
  Keys = {k1}
  DedupeKey <- OneKey
  Workers = {w1, w2}
  Dispatchers = {beat}
  Slots = {s1}
  MaxAttempts = 3
  MaxStages = 1
  MaxMessages = 2
  NoJob = NoJob
SYMMETRY Symmetric
INVARIANTS
  TypeOK
  ResultIsOfLatestAttempt
  LogReportsStatus
  LogIsSerial
PROPERTIES
  TerminalIsFinal
  CancelIsHonoured
  RevisionTracksState
  EveryLogIsAFeed
CHECK_DEADLOCK FALSE
